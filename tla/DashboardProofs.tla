-------------------------- MODULE DashboardProofs --------------------------
(***************************************************************************)
(* Theorems about the dashboard: Charts, one chart of an analytics page,    *)
(* and Pages, the page around it.                                          *)
(*                                                                         *)
(* The invariant of a chart (IInv) is about the timer and what it draws;   *)
(* what it draws is settled by lemmas about the operators of Charts, for   *)
(* every getter and every answer: which keys validation supplies, which    *)
(* layers a sankey diagram has, what grouping by period does to the        *)
(* counts.  The invariant of the pages (PagesIInv) is about the requests   *)
(* in flight.                                                              *)
(***************************************************************************)
EXTENDS Charts, Pages, SumProofs, SequenceTheorems, TLAPS

-----------------------------------------------------------------------------
(* The layers of a sankey diagram.                                         *)

\* The parts of SankeyLayers.
Nodes(links) == {l[1] : l \in links} \cup {l[2] : l \in links}
Roots(links) == {n \in Nodes(links) : \A l \in links : l[2] # n}
Targets(links, placed) ==
    {l[2] : l \in {m \in links : m[1] \in placed /\ m[2] \notin placed}}

\* One round of the layering.
Grow(links, layers) ==
    LET placed == UNION Range(layers)
    IN  IF placed = Nodes(links) THEN layers
        ELSE Append(layers, IF Targets(links, placed) # {} THEN Targets(links, placed)
                            ELSE Nodes(links) \ placed)

\* f is the function SankeyLayers is computed with.
IsRun(links, f) ==
    f = [k \in 0..Cardinality(Nodes(links)) |->
            IF k = 0 THEN <<Roots(links)>>
            ELSE [layers \in Seq(SUBSET Nodes(links)) |-> Grow(links, layers)][f[k - 1]]]

\* The layers are that function's last value.
LEMMA LayersUnfold ==
    ASSUME NEW links
    PROVE  SankeyLayers(links) = (CHOOSE f : IsRun(links, f))[Cardinality(Nodes(links))]
BY DEF SankeyLayers, IsRun, Grow, Roots, Targets, Nodes

\* depth grades the nodes: every link leads from one grade to the next, nodes
\* above grade 0 have a link that leads to them, and no grade up to D is empty.
Graded(links, depth, D) ==
    /\ depth \in [Nodes(links) -> 0..D]
    /\ \A l \in links : depth[l[2]] = depth[l[1]] + 1
    /\ \A n \in Nodes(links) : depth[n] # 0 => \E l \in links : l[2] = n
    /\ \A d \in 0..D : \E n \in Nodes(links) : depth[n] = d

\* The nodes of one grade, and the grades up to d as layers.
Grade(links, depth, d) == {n \in Nodes(links) : depth[n] = d}
GradesTo(links, depth, d) == [j \in 1..(d + 1) |-> Grade(links, depth, j - 1)]

\* What has been placed when the grades up to d have their layers.
LEMMA GradesPlaced ==
    ASSUME NEW links, NEW depth, NEW D \in Nat, Graded(links, depth, D), NEW d \in 0..D
    PROVE  /\ GradesTo(links, depth, d) \in Seq(SUBSET Nodes(links))
           /\ UNION Range(GradesTo(links, depth, d)) = {n \in Nodes(links) : depth[n] <= d}
<1> DEFINE g == GradesTo(links, depth, d)
<1>1. DOMAIN g = 1..(d + 1) /\ \A j \in 1..(d + 1) : g[j] = Grade(links, depth, j - 1)
  BY DEF GradesTo
<1>2. \A n \in Nodes(links) : depth[n] \in 0..D
  BY DEF Graded
<1>3. g \in [1..(d + 1) -> SUBSET Nodes(links)]
  BY DEF GradesTo, Grade
<1>4. g \in Seq(SUBSET Nodes(links))
  <2>1. d + 1 \in Nat
    OBVIOUS
  <2>2. QED
    BY <1>3, <2>1, SeqDef
<1>5. ASSUME NEW n \in UNION Range(g) PROVE n \in Nodes(links) /\ depth[n] <= d
  <2>1. PICK j \in 1..(d + 1) : n \in Grade(links, depth, j - 1)
    BY <1>1 DEF Range
  <2>2. QED
    BY <2>1 DEF Grade
<1>6. ASSUME NEW n \in Nodes(links), depth[n] <= d PROVE n \in UNION Range(g)
  <2>1. depth[n] \in 0..D
    BY <1>2
  <2>2. depth[n] + 1 \in 1..(d + 1) /\ (depth[n] + 1) - 1 = depth[n]
    BY <1>6, <2>1
  <2>3. n \in g[depth[n] + 1]
    BY <1>1, <2>2 DEF Grade
  <2>4. QED
    BY <1>1, <2>2, <2>3 DEF Range
<1>7. QED
  BY <1>4, <1>5, <1>6

\* One round places the next grade, and the last one changes nothing.
LEMMA GradeStep ==
    ASSUME NEW links, NEW depth, NEW D \in Nat, Graded(links, depth, D), NEW d \in 0..D
    PROVE  Grow(links, GradesTo(links, depth, d)) =
             IF d = D THEN GradesTo(links, depth, d) ELSE GradesTo(links, depth, d + 1)
<1> DEFINE g == GradesTo(links, depth, d)
           placed == UNION Range(g)
<1>1. placed = {n \in Nodes(links) : depth[n] <= d}
  BY GradesPlaced
<1>2. \A n \in Nodes(links) : depth[n] \in 0..D
  BY DEF Graded
<1>3. CASE d = D
  <2>1. placed = Nodes(links)
    BY <1>1, <1>2, <1>3
  <2>2. QED
    BY <1>3, <2>1 DEF Grow
<1>4. CASE d # D
  <2>1. d + 1 \in 0..D
    BY <1>4
  <2>2. PICK m \in Nodes(links) : depth[m] = d + 1
    BY <2>1 DEF Graded
  <2>3. placed # Nodes(links)
    BY <1>1, <2>2
  <2>4. Targets(links, placed) \subseteq Grade(links, depth, d + 1)
    <3>1. SUFFICES ASSUME NEW l \in links, l[1] \in placed, l[2] \notin placed
                   PROVE  l[2] \in Grade(links, depth, d + 1)
      BY DEF Targets
    <3>2. l[1] \in Nodes(links) /\ l[2] \in Nodes(links)
      BY DEF Nodes
    <3>3. depth[l[2]] = depth[l[1]] + 1
      BY DEF Graded
    <3>4. depth[l[1]] <= d /\ ~(depth[l[2]] <= d)
      BY <1>1, <3>1, <3>2
    <3>5. depth[l[2]] = d + 1
      BY <1>2, <3>2, <3>3, <3>4
    <3>6. QED
      BY <3>2, <3>5 DEF Grade
  <2>5. Grade(links, depth, d + 1) \subseteq Targets(links, placed)
    <3>1. SUFFICES ASSUME NEW n \in Nodes(links), depth[n] = d + 1
                   PROVE  n \in Targets(links, placed)
      BY DEF Grade
    <3>2. PICK l \in links : l[2] = n
      BY <3>1 DEF Graded
    <3>3. l[1] \in Nodes(links)
      BY DEF Nodes
    <3>4. depth[n] = depth[l[1]] + 1
      BY <3>2 DEF Graded
    <3>5. depth[l[1]] <= d /\ ~(depth[n] <= d)
      BY <1>2, <3>1, <3>3, <3>4
    <3>6. l[1] \in placed /\ n \notin placed
      BY <1>1, <3>3, <3>5
    <3>7. QED
      BY <3>2, <3>6 DEF Targets
  <2>6. Targets(links, placed) = Grade(links, depth, d + 1)
    BY <2>4, <2>5
  <2>7. Targets(links, placed) # {}
    BY <2>2, <2>6 DEF Grade
  <2>8. Grow(links, g) = Append(g, Grade(links, depth, d + 1))
    BY <2>3, <2>6, <2>7 DEF Grow
  <2>9. Append(g, Grade(links, depth, d + 1)) = GradesTo(links, depth, d + 1)
    <3>1. g \in Seq(SUBSET Nodes(links)) /\ Grade(links, depth, d + 1) \in SUBSET Nodes(links)
      BY GradesPlaced DEF Grade
    <3>2. Len(g) = d + 1 /\ \A j \in 1..(d + 1) : g[j] = Grade(links, depth, j - 1)
      BY <3>1 DEF GradesTo
    <3> DEFINE h == GradesTo(links, depth, d + 1)
    <3>3. h \in Seq(SUBSET Nodes(links)) /\ Len(h) = d + 2
      <4>1. h \in Seq(SUBSET Nodes(links))
        BY <2>1, GradesPlaced
      <4>2. QED
        BY <4>1 DEF GradesTo
    <3>4. \A j \in 1..(d + 2) : h[j] = Grade(links, depth, j - 1)
      BY DEF GradesTo
    <3>5. QED
      <4> HIDE DEF g, h
      <4> DEFINE a == Append(g, Grade(links, depth, d + 1))
      <4>1. a \in Seq(SUBSET Nodes(links)) /\ Len(a) = d + 2
        BY <3>1, <3>2
      <4>2. \A j \in 1..(d + 2) : a[j] = Grade(links, depth, j - 1)
        BY <3>1, <3>2
      <4>3. \A j \in 1..Len(a) : a[j] = h[j]
        BY <3>4, <4>1, <4>2
      <4> HIDE DEF a
      <4>4. a = h
        BY <3>3, <4>1, <4>3, SeqEqual
      <4>5. QED
        BY <4>4 DEF a, h
  <2>10. QED
    BY <1>4, <2>8, <2>9
<1>5. QED
  BY <1>3, <1>4

\* There are at least as many nodes as grades.
LEMMA EnoughRounds ==
    ASSUME NEW links, IsFiniteSet(links), NEW depth, NEW D \in Nat, Graded(links, depth, D)
    PROVE  Cardinality(Nodes(links)) \in Nat /\ D <= Cardinality(Nodes(links))
<1>1. IsFiniteSet(Nodes(links))
  <2>1. IsFiniteSet({l[1] : l \in links}) /\ IsFiniteSet({l[2] : l \in links})
    <3> DEFINE s1 == [l \in links |-> l[1]]
               s2 == [l \in links |-> l[2]]
    <3>1. /\ s1 \in Surjection(links, {l[1] : l \in links})
          /\ s2 \in Surjection(links, {l[2] : l \in links})
      BY DEF Surjection
    <3>2. QED
      BY <3>1, FS_Surjection
  <2>2. QED
    BY <2>1, FS_Union DEF Nodes
<1>2. IsFiniteSet(0..D) /\ Cardinality(0..D) = D + 1
  BY FS_Interval
<1>3. depth \in Surjection(Nodes(links), 0..D)
  BY DEF Graded, Surjection
<1>4. Cardinality(0..D) <= Cardinality(Nodes(links))
  BY <1>1, <1>3, FS_Surjection
<1>5. Cardinality(Nodes(links)) \in Nat
  BY <1>1, FS_CardinalityType
<1>6. QED
  BY <1>2, <1>4, <1>5

\* The layers of a graded set of links are its grades.
LEMMA GradedLayers ==
    ASSUME NEW links, IsFiniteSet(links), NEW depth, NEW D \in Nat, Graded(links, depth, D)
    PROVE  SankeyLayers(links) = GradesTo(links, depth, D)
<1> DEFINE N == Cardinality(Nodes(links))
           L(k) == GradesTo(links, depth, IF k < D THEN k ELSE D)
           S == Seq(SUBSET Nodes(links))
           step == [layers \in S |-> Grow(links, layers)]
<1>1. N \in Nat /\ D <= N
  BY EnoughRounds
<1>2. Roots(links) = Grade(links, depth, 0)
  <2>1. ASSUME NEW n \in Nodes(links), depth[n] = 0, NEW l \in links PROVE l[2] # n
    <3>1. l[1] \in Nodes(links) /\ depth[l[2]] = depth[l[1]] + 1
      BY DEF Graded, Nodes
    <3>2. depth[l[1]] \in 0..D
      BY <3>1 DEF Graded
    <3>3. QED
      BY <2>1, <3>1, <3>2
  <2>2. QED
    BY <2>1 DEF Roots, Grade, Graded
<1>3. <<Roots(links)>> = L(0)
  <2>1. (IF 0 < D THEN 0 ELSE D) = 0
    OBVIOUS
  <2>2. GradesTo(links, depth, 0) = <<Grade(links, depth, 0)>>
    BY DEF GradesTo
  <2>3. QED
    BY <1>2, <2>1, <2>2
<1>4. \A k \in Nat : L(k) \in S
  BY GradesPlaced
<1>5. \A k \in Nat \ {0} : step[L(k - 1)] = L(k)
  <2>1. TAKE k \in Nat \ {0}
  <2> DEFINE d == IF k - 1 < D THEN k - 1 ELSE D
  <2>2. d \in 0..D /\ (IF d = D THEN d ELSE d + 1) = (IF k < D THEN k ELSE D)
    OBVIOUS
  <2>3. Grow(links, GradesTo(links, depth, d)) = L(k)
    <3> HIDE DEF d
    <3>1. Grow(links, GradesTo(links, depth, d)) =
            IF d = D THEN GradesTo(links, depth, d) ELSE GradesTo(links, depth, d + 1)
      BY <2>2, GradeStep
    <3>2. QED
      BY <2>2, <3>1
  <2>4. L(k - 1) \in S
    BY <1>4
  <2>5. QED
    BY <2>3, <2>4
<1> HIDE DEF L, S, step
<1> DEFINE f == CHOOSE h : IsRun(links, h)
           F == [k \in 0..N |-> L(k)]
<1>6. IsRun(links, F)
  <2>1. ASSUME NEW k \in 0..N
        PROVE  L(k) = IF k = 0 THEN <<Roots(links)>> ELSE step[F[k - 1]]
    <3>1. CASE k = 0
      BY <1>3, <3>1
    <3>2. CASE k # 0
      <4>1. k - 1 \in 0..N /\ k \in Nat \ {0}
        BY <1>1, <3>2
      <4>2. F[k - 1] = L(k - 1)
        BY <4>1
      <4>3. QED
        BY <1>5, <3>2, <4>1, <4>2
    <3>3. QED
      BY <3>1, <3>2
  <2>2. F = [k \in 0..N |-> IF k = 0 THEN <<Roots(links)>> ELSE step[F[k - 1]]]
    BY <2>1
  <2>3. QED
    BY <2>2 DEF IsRun, step, S
<1>7. IsRun(links, f)
  BY <1>6
<1>8. \A k \in 0..N : f[k] = IF k = 0 THEN <<Roots(links)>> ELSE step[f[k - 1]]
  BY <1>7 DEF IsRun, step, S
<1> HIDE DEF f
<1>9. f[N] = L(N)
  <2> DEFINE B == {k \in 0..N : f[k] # L(k)}
  <2> SUFFICES ASSUME B # {} PROVE FALSE
    BY <1>1
  <2>1. B \in SUBSET Nat
    OBVIOUS
  <2>2. PICK m \in B : \A k \in B : m <= k
    <3> HIDE DEF B
    <3> QED
      BY <2>1, Least
  <2>3. m # 0
    BY <1>1, <1>3, <1>8
  <2>4. m - 1 \in 0..N /\ m \in Nat \ {0} /\ m - 1 \notin B
    BY <1>1, <2>2, <2>3
  <2>5. f[m - 1] = L(m - 1)
    BY <2>4
  <2>6. f[m] = step[f[m - 1]]
    BY <1>8, <2>3
  <2>7. QED
    BY <1>5, <2>4, <2>5, <2>6
<1>10. L(N) = GradesTo(links, depth, D)
  BY <1>1 DEF L
<1>11. QED
  BY <1>9, <1>10, LayersUnfold DEF f

\* So every node has one layer, every link leads to the next, and none is empty.
LEMMA GradedPlaced ==
    ASSUME NEW links, IsFiniteSet(links), NEW depth, NEW D \in Nat, Graded(links, depth, D)
    PROVE  LET layers == SankeyLayers(links)
               at(n)  == {i \in DOMAIN layers : n \in layers[i]}
           IN  /\ {} \notin Range(layers)
               /\ \A l \in links :
                    \E i \in at(l[1]), j \in at(l[2]) :
                        i < j /\ at(l[1]) = {i} /\ at(l[2]) = {j}
<1> DEFINE layers == SankeyLayers(links)
           at(n)  == {i \in DOMAIN layers : n \in layers[i]}
<1>1. /\ DOMAIN layers = 1..(D + 1)
      /\ \A i \in 1..(D + 1) : layers[i] = Grade(links, depth, i - 1)
  BY GradedLayers DEF GradesTo
<1> HIDE DEF layers
<1>2. {} \notin Range(layers)
  <2>1. ASSUME NEW i \in 1..(D + 1) PROVE layers[i] # {}
    <3>1. i - 1 \in 0..D
      OBVIOUS
    <3>2. PICK n \in Nodes(links) : depth[n] = i - 1
      BY <3>1 DEF Graded
    <3>3. QED
      BY <1>1, <3>2 DEF Grade
  <2>2. QED
    BY <1>1, <2>1 DEF Range
<1>3. ASSUME NEW n \in Nodes(links)
      PROVE  depth[n] \in 0..D /\ at(n) = {depth[n] + 1}
  <2>1. depth[n] \in 0..D
    BY DEF Graded
  <2>2. \A i \in 1..(D + 1) : n \in layers[i] <=> i = depth[n] + 1
    <3>1. TAKE i \in 1..(D + 1)
    <3>2. n \in layers[i] <=> depth[n] = i - 1
      BY <1>1 DEF Grade
    <3>3. depth[n] = i - 1 <=> i = depth[n] + 1
      BY <2>1
    <3>4. QED
      BY <3>2, <3>3
  <2>3. depth[n] + 1 \in 1..(D + 1)
    BY <2>1
  <2>4. QED
    BY <1>1, <2>1, <2>2, <2>3
<1>4. ASSUME NEW l \in links
      PROVE  \E i \in at(l[1]), j \in at(l[2]) :
                i < j /\ at(l[1]) = {i} /\ at(l[2]) = {j}
  <2>1. l[1] \in Nodes(links) /\ l[2] \in Nodes(links)
    BY DEF Nodes
  <2>2. depth[l[2]] = depth[l[1]] + 1
    BY DEF Graded
  <2>3. depth[l[1]] + 1 < depth[l[2]] + 1
    BY <1>3, <2>1, <2>2
  <2>4. at(l[1]) = {depth[l[1]] + 1} /\ at(l[2]) = {depth[l[2]] + 1}
    BY <1>3, <2>1
  <2>5. QED
    BY <2>3, <2>4
<1>5. QED
  BY <1>2, <1>4 DEF layers

\* The links of WellPlaced diagrams: no empty layer, and every link leads from
\* the one layer of its source to a later one, the one layer of its target.
WellPlaced(links) ==
    LET layers == SankeyLayers(links)
        at(n)  == {i \in DOMAIN layers : n \in layers[i]}
    IN  /\ {} \notin Range(layers)
        /\ \A l \in links :
              \E i \in at(l[1]), j \in at(l[2]) :
                  i < j /\ at(l[1]) = {i} /\ at(l[2]) = {j}

\* Statuses in one chain.
LEMMA ChainPlaced == ASSUME NEW n \in Nat \ {0, 1} PROVE WellPlaced(chain(n))
<1> DEFINE depth == [i \in 1..n |-> i - 1]
           D == n - 1
<1>1. IsFiniteSet(chain(n))
  <2> DEFINE s == [i \in 1..(n - 1) |-> <<i, i + 1>>]
  <2>1. s \in Surjection(1..(n - 1), chain(n))
    BY DEF Surjection, chain
  <2>2. IsFiniteSet(1..(n - 1))
    BY FS_Interval
  <2>3. QED
    BY <2>1, <2>2, FS_Surjection
<1>2. \A l \in chain(n) : l[1] \in 1..(n - 1) /\ l[2] = l[1] + 1
  BY DEF chain
<1>3. \A i \in 1..(n - 1) : <<i, i + 1>> \in chain(n)
  BY DEF chain
<1>4. Nodes(chain(n)) = 1..n
  <2>1. \A l \in chain(n) : l[1] \in 1..n /\ l[2] \in 1..n
    BY <1>2
  <2>2. \A i \in 1..n : \E l \in chain(n) : l[1] = i \/ l[2] = i
    <3>1. TAKE i \in 1..n
    <3>2. CASE i = n
      <4>1. <<n - 1, (n - 1) + 1>> \in chain(n) /\ (n - 1) + 1 = n
        BY <1>3
      <4>2. QED
        BY <3>2, <4>1
    <3>3. CASE i # n
      <4>1. i \in 1..(n - 1)
        BY <3>3
      <4>2. <<i, i + 1>> \in chain(n)
        BY <1>3, <4>1
      <4>3. QED
        BY <4>2
    <3>4. QED
      BY <3>2, <3>3
  <2>3. QED
    BY <2>1, <2>2 DEF Nodes
<1>5. Graded(chain(n), depth, D)
  <2>1. depth \in [1..n -> 0..D]
    OBVIOUS
  <2>2. \A l \in chain(n) : depth[l[2]] = depth[l[1]] + 1
    BY <1>2
  <2>3. \A i \in 1..n : depth[i] # 0 => \E l \in chain(n) : l[2] = i
    <3>1. SUFFICES ASSUME NEW i \in 1..n, i # 1 PROVE \E l \in chain(n) : l[2] = i
      OBVIOUS
    <3>2. <<i - 1, (i - 1) + 1>> \in chain(n) /\ (i - 1) + 1 = i
      BY <1>3, <3>1
    <3>3. QED
      BY <3>2
  <2>4. \A d \in 0..D : d + 1 \in 1..n /\ depth[d + 1] = d
    OBVIOUS
  <2>5. QED
    BY <1>4, <2>1, <2>2, <2>3, <2>4 DEF Graded
<1>6. D \in Nat
  OBVIOUS
<1>7. QED
  <2> HIDE DEF depth, D
  <2> QED
    BY <1>1, <1>5, <1>6, GradedPlaced DEF WellPlaced

\* Parallel paths from one node to another.
LEMMA PathsPlaced == ASSUME NEW n \in Nat \ {0} PROVE WellPlaced(paths(n))
<1> DEFINE depth == [i \in 0..(n + 1) |-> IF i = 0 THEN 0 ELSE IF i = n + 1 THEN 2 ELSE 1]
<1>1. IsFiniteSet(paths(n))
  <2> DEFINE s == [i \in 1..n |-> <<0, i>>]
             t == [i \in 1..n |-> <<i, n + 1>>]
  <2>1. /\ s \in Surjection(1..n, {<<0, i>> : i \in 1..n})
        /\ t \in Surjection(1..n, {<<i, n + 1>> : i \in 1..n})
    BY DEF Surjection
  <2>2. IsFiniteSet(1..n)
    BY FS_Interval
  <2>3. IsFiniteSet({<<0, i>> : i \in 1..n}) /\ IsFiniteSet({<<i, n + 1>> : i \in 1..n})
    BY <2>1, <2>2, FS_Surjection
  <2>4. QED
    BY <2>3, FS_Union DEF paths
<1>2. \A l \in paths(n) : \/ l[1] = 0 /\ l[2] \in 1..n
                          \/ l[1] \in 1..n /\ l[2] = n + 1
  BY DEF paths
<1>3. \A i \in 1..n : <<0, i>> \in paths(n) /\ <<i, n + 1>> \in paths(n)
  BY DEF paths
<1>4. Nodes(paths(n)) = 0..(n + 1)
  <2>1. \A l \in paths(n) : l[1] \in 0..(n + 1) /\ l[2] \in 0..(n + 1)
    BY <1>2
  <2>2. \A i \in 0..(n + 1) : \E l \in paths(n) : l[1] = i \/ l[2] = i
    <3>1. <<0, 1>> \in paths(n) /\ <<1, n + 1>> \in paths(n)
      BY <1>3
    <3>2. \A i \in 0..(n + 1) : i = 0 \/ i = n + 1 \/ i \in 1..n
      OBVIOUS
    <3>3. QED
      BY <1>3, <3>1, <3>2
  <2>3. QED
    BY <2>1, <2>2 DEF Nodes
<1>5. /\ depth[0] = 0 /\ depth[n + 1] = 2
      /\ \A i \in 1..n : depth[i] = 1
  OBVIOUS
<1>6. Graded(paths(n), depth, 2)
  <2>1. depth \in [0..(n + 1) -> 0..2]
    OBVIOUS
  <2> HIDE DEF depth
  <2>2. \A l \in paths(n) : depth[l[2]] = depth[l[1]] + 1
    BY <1>2, <1>5
  <2>3. \A i \in 0..(n + 1) : depth[i] # 0 => \E l \in paths(n) : l[2] = i
    <3>1. SUFFICES ASSUME NEW i \in 0..(n + 1), i # 0 PROVE \E l \in paths(n) : l[2] = i
      BY <1>5
    <3>2. <<0, 1>> \in paths(n) /\ <<1, n + 1>> \in paths(n)
      BY <1>3
    <3>3. i = n + 1 \/ i \in 1..n
      BY <3>1
    <3>4. QED
      BY <1>3, <3>2, <3>3
  <2>4. \A d \in 0..2 : \E i \in 0..(n + 1) : depth[i] = d
    <3>1. 0 \in 0..(n + 1) /\ 1 \in 0..(n + 1) /\ n + 1 \in 0..(n + 1) /\ 1 \in 1..n
      OBVIOUS
    <3>2. \A d \in 0..2 : d = 0 \/ d = 1 \/ d = 2
      OBVIOUS
    <3>3. QED
      BY <1>5, <3>1, <3>2
  <2>5. QED
    BY <1>4, <2>1, <2>2, <2>3, <2>4 DEF Graded
<1>7. QED
  <2> HIDE DEF depth
  <2>1. 2 \in Nat
    OBVIOUS
  <2>2. QED
    BY <1>1, <1>6, <2>1, GradedPlaced DEF WellPlaced

\* The mock links of getHierarchicalData.
Tree == {<<0, 1>>, <<0, 2>>, <<0, 3>>, <<1, 4>>, <<1, 5>>}

\* The hierarchy of the mock data.
LEMMA TreePlaced == WellPlaced(Tree)
<1> DEFINE depth == [i \in 0..5 |-> IF i = 0 THEN 0 ELSE IF i < 4 THEN 1 ELSE 2]
<1>1. IsFiniteSet(Tree)
  <2>1. IsFiniteSet({<<0, 1>>})
    BY FS_Singleton
  <2>2. IsFiniteSet({<<0, 1>>} \cup {<<0, 2>>})
    BY <2>1, FS_AddElement
  <2>3. IsFiniteSet(({<<0, 1>>} \cup {<<0, 2>>}) \cup {<<0, 3>>})
    BY <2>2, FS_AddElement
  <2>4. IsFiniteSet((({<<0, 1>>} \cup {<<0, 2>>}) \cup {<<0, 3>>}) \cup {<<1, 4>>})
    BY <2>3, FS_AddElement
  <2>5. IsFiniteSet(((({<<0, 1>>} \cup {<<0, 2>>}) \cup {<<0, 3>>}) \cup {<<1, 4>>}) \cup {<<1, 5>>})
    BY <2>4, FS_AddElement
  <2>6. Tree = ((({<<0, 1>>} \cup {<<0, 2>>}) \cup {<<0, 3>>}) \cup {<<1, 4>>}) \cup {<<1, 5>>}
    BY DEF Tree
  <2>7. QED
    BY <2>5, <2>6
<1>2. \A l \in Tree : \/ l[1] = 0 /\ l[2] \in {1, 2, 3}
                      \/ l[1] = 1 /\ l[2] \in {4, 5}
  BY DEF Tree
<1>3. \A i \in 1..5 : \E l \in Tree : l[2] = i
  <2>1. \A i \in 1..5 : i \in {1, 2, 3, 4, 5}
    OBVIOUS
  <2>2. QED
    BY <2>1 DEF Tree
<1>4. Nodes(Tree) = 0..5
  <2>1. \A l \in Tree : l[1] \in 0..5 /\ l[2] \in 0..5
    BY <1>2
  <2>2. \E l \in Tree : l[1] = 0
    BY DEF Tree
  <2>3. \A i \in 0..5 : i = 0 \/ i \in 1..5
    OBVIOUS
  <2>4. QED
    BY <1>3, <2>1, <2>2, <2>3 DEF Nodes
<1>5. Graded(Tree, depth, 2)
  <2>1. depth \in [0..5 -> 0..2]
    OBVIOUS
  <2>2. \A l \in Tree : depth[l[2]] = depth[l[1]] + 1
    BY <1>2
  <2>3. \A i \in 0..5 : depth[i] # 0 => \E l \in Tree : l[2] = i
    BY <1>3
  <2>4. \A d \in 0..2 : \E i \in 0..5 : depth[i] = d
    <3>1. depth[0] = 0 /\ depth[1] = 1 /\ depth[4] = 2
      OBVIOUS
    <3>2. \A d \in 0..2 : d = 0 \/ d = 1 \/ d = 2
      OBVIOUS
    <3>3. 0 \in 0..5 /\ 1 \in 0..5 /\ 4 \in 0..5
      OBVIOUS
    <3> HIDE DEF depth
    <3>4. QED
      BY <3>1, <3>2, <3>3
  <2>5. QED
    BY <1>4, <2>1, <2>2, <2>3, <2>4 DEF Graded
<1>6. QED
  <2> HIDE DEF depth
  <2>1. 2 \in Nat
    OBVIOUS
  <2>2. QED
    BY <1>1, <1>5, <2>1, GradedPlaced DEF WellPlaced

-----------------------------------------------------------------------------
(* Counts by period.                                                       *)

\* What an order of a finite set's members is.
IsOrder(S, R) ==
    /\ \A x \in S : <<x, x>> \in R
    /\ \A x, y \in S : <<x, y>> \in R \/ <<y, x>> \in R
    /\ \A x, y \in S : <<x, y>> \in R /\ <<y, x>> \in R => x = y
    /\ \A x, y, z \in S : <<x, y>> \in R /\ <<y, z>> \in R => <<x, z>> \in R

\* A sort returns every member once, and in order.
LEMMA InOrderIs ==
    ASSUME NEW S, IsFiniteSet(S), NEW R, IsOrder(S, R)
    PROVE  LET s == InOrder(S, R)
               N == Cardinality(S)
           IN  Lists(s, N, S) /\ \A m, n \in 1..N : m < n => <<s[m], s[n]>> \in R
<1> DEFINE s == InOrder(S, R)
           N == Cardinality(S)
           below(x) == {y \in S : <<y, x>> \in R}
           rank == [x \in S |-> Cardinality(below(x))]
<1>1. N \in Nat
  BY FS_CardinalityType
<1>2. \A x \in S : IsFiniteSet(below(x)) /\ Cardinality(below(x)) \in Nat /\ Cardinality(below(x)) <= N
  BY FS_Subset, FS_CardinalityType
<1>3. \A x \in S : rank[x] \in 1..N
  <2> TAKE x \in S
  <2>1. x \in below(x)
    BY DEF IsOrder
  <2>2. Cardinality(below(x)) # 0
    BY <1>2, <2>1, FS_EmptySet
  <2>3. QED
    BY <1>1, <1>2, <2>2
<1>4. ASSUME NEW x \in S, NEW y \in S, x # y, <<x, y>> \in R
      PROVE  rank[x] < rank[y]
  <2>1. below(x) \in SUBSET below(y)
    BY <1>4 DEF IsOrder
  <2>2. y \in below(y) /\ y \notin below(x)
    BY <1>4 DEF IsOrder
  <2>3. Cardinality(below(x)) <= Cardinality(below(y)) /\ Cardinality(below(x)) # Cardinality(below(y))
    BY <1>2, <2>1, <2>2, FS_Subset
  <2>4. QED
    BY <1>2, <2>3
<1>5. rank \in Surjection(S, 1..N)
  <2>1. rank \in [S -> 1..N]
    BY <1>3
  <2>2. \A x, y \in S : rank[x] = rank[y] => x = y
    <3> SUFFICES ASSUME NEW x \in S, NEW y \in S, x # y PROVE rank[x] # rank[y]
      OBVIOUS
    <3>1. rank[x] < rank[y] \/ rank[y] < rank[x]
      BY <1>4 DEF IsOrder
    <3>2. rank[x] \in Int /\ rank[y] \in Int
      BY <1>3
    <3> HIDE DEF rank
    <3>3. QED
      BY <3>1, <3>2
  <2>3. rank \in Injection(S, 1..N)
    <3> HIDE DEF rank, N
    <3>1. QED
      BY <2>1, <2>2, Zenon DEF Injection, IsInjective
  <2>4. IsFiniteSet(1..N) /\ Cardinality(1..N) = N
    BY <1>1, FS_Interval
  <2>5. QED
    BY <2>3, <2>4, FS_Injection
<1>6. \A n \in 1..N : s[n] \in S /\ rank[s[n]] = n
  <2> TAKE n \in 1..N
  <2>1. \E x \in S : rank[x] = n
    BY <1>5 DEF Surjection
  <2>2. s[n] = CHOOSE x \in S : Cardinality(below(x)) = n
    BY DEF InOrder
  <2>3. QED
    BY <2>1, <2>2
<1>7. s \in [1..N -> S]
  BY <1>6 DEF InOrder
<1> HIDE DEF s, rank
<1>8. \A x \in S : s[rank[x]] = x
  <2> TAKE x \in S
  <2> DEFINE y == s[rank[x]]
  <2>1. y \in S /\ rank[y] = rank[x]
    BY <1>3, <1>6
  <2>2. rank[x] \in Int
    BY <1>3
  <2> HIDE DEF y
  <2>3. <<x, y>> \in R \/ <<y, x>> \in R
    BY <2>1 DEF IsOrder
  <2>4. x = y
    BY <1>4, <2>1, <2>2, <2>3
  <2>5. QED
    BY <2>4 DEF y
<1>9. \A m, n \in 1..N : m < n => s[m] # s[n] /\ <<s[m], s[n]>> \in R
  <2> SUFFICES ASSUME NEW m \in 1..N, NEW n \in 1..N, m < n
               PROVE  s[m] # s[n] /\ <<s[m], s[n]>> \in R
    OBVIOUS
  <2>1. s[m] \in S /\ s[n] \in S /\ rank[s[m]] = m /\ rank[s[n]] = n
    BY <1>6
  <2>2. ~(<<s[n], s[m]>> \in R)
    BY <1>4, <2>1
  <2>3. QED
    BY <2>1, <2>2 DEF IsOrder
<1>10. QED
  <2>1. \A x \in S : \E n \in 1..N : s[n] = x
    BY <1>3, <1>8
  <2>2. Lists(s, N, S)
    BY <1>1, <1>7, <1>9, <2>1 DEF Lists
  <2>3. QED
    BY <1>9, <2>2 DEF s

\* A sequence of hourly counts, as the endpoint answers them.
IsVolume(points) == points \in Seq(Nat \X Nat)

\* What the properties of a volume are.
LEMMA VolumeParts ==
    ASSUME NEW points, IsVolume(points)
    PROVE  /\ Len(points) \in Nat /\ DOMAIN points = 1..Len(points)
           /\ IsFiniteSet(DOMAIN points) /\ Cardinality(DOMAIN points) = Len(points)
           /\ \A i \in DOMAIN points : points[i] \in Nat \X Nat
           /\ \A i \in DOMAIN points : Counts(points)[i] = points[i][2] /\ Counts(points)[i] \in Int
           /\ Total(points) = SumFunctionOnSet(Counts(points), DOMAIN points)
<1>1. /\ Len(points) \in Nat /\ DOMAIN points = 1..Len(points)
      /\ \A i \in DOMAIN points : points[i] \in Nat \X Nat
  BY DEF IsVolume
<1>2. IsFiniteSet(DOMAIN points) /\ Cardinality(DOMAIN points) = Len(points)
  <2> DEFINE N == Len(points)
  <2>1. IsFiniteSet(1..N) /\ Cardinality(1..N) = N
    <3>1. N \in Nat
      BY <1>1
    <3> HIDE DEF N
    <3>2. QED
      BY <3>1, FS_Interval
  <2>2. QED
    BY <1>1, <2>1
<1>3. DOMAIN Counts(points) = DOMAIN points /\ \A i \in DOMAIN points : Counts(points)[i] = points[i][2]
  BY DEF Counts
<1>4. \A i \in DOMAIN points : points[i][2] \in Int
  BY <1>1
<1>5. Total(points) = SumFunctionOnSet(Counts(points), DOMAIN points)
  BY <1>3 DEF Total, SumFunction
<1>6. QED
  BY <1>1, <1>2, <1>3, <1>4, <1>5

\* Sorting by time keeps the total.
LEMMA TimeOrdered ==
    ASSUME NEW points, IsVolume(points)
    PROVE  IsVolume(inTimeOrder(points)) /\ Total(inTimeOrder(points)) = Total(points)
<1> DEFINE D == DOMAIN points
           N == Len(points)
           R == {p \in D \X D : \/ points[p[1]][1] < points[p[2]][1]
                                \/ points[p[1]][1] = points[p[2]][1] /\ p[1] <= p[2]}
           s == InOrder(D, R)
           sorted == inTimeOrder(points)
<1>1. /\ N \in Nat /\ D = 1..N /\ IsFiniteSet(D) /\ Cardinality(D) = N
      /\ \A i \in D : points[i] \in Nat \X Nat /\ Counts(points)[i] = points[i][2]
      /\ \A i \in D : Counts(points)[i] \in Int
      /\ Total(points) = SumFunctionOnSet(Counts(points), D)
  BY VolumeParts
<1>2. IsOrder(D, R)
  <2>1. \A i, j \in D : <<i, j>> \in R <=> \/ points[i][1] < points[j][1]
                                           \/ points[i][1] = points[j][1] /\ i <= j
    OBVIOUS
  <2>2. \A i \in D : i \in Int /\ points[i][1] \in Int
    BY <1>1
  <2> HIDE DEF R, D
  <2>3. /\ \A x \in D : <<x, x>> \in R
        /\ \A x, y \in D : <<x, y>> \in R \/ <<y, x>> \in R
    BY <2>1, <2>2
  <2>4. \A x, y \in D : <<x, y>> \in R /\ <<y, x>> \in R => x = y
    BY <2>1, <2>2
  <2>5. \A x, y, z \in D : <<x, y>> \in R /\ <<y, z>> \in R => <<x, z>> \in R
    BY <2>1, <2>2
  <2>6. QED
    BY <2>3, <2>4, <2>5 DEF IsOrder
<1>3. sorted = [n \in D |-> points[s[n]]]
  BY DEF inTimeOrder
<1> HIDE DEF R, D, N
<1>4. Lists(s, N, D)
  BY <1>1, <1>2, InOrderIs
<1> HIDE DEF s, sorted
<1>5. IsVolume(sorted) /\ DOMAIN sorted = 1..N
  <2>1. sorted \in [1..N -> Nat \X Nat]
    BY <1>1, <1>3, <1>4 DEF Lists
  <2>2. QED
    BY <1>1, <2>1 DEF IsVolume
<1>6. \A n \in 1..N : s[n] \in D /\ Counts(sorted)[n] = Counts(points)[s[n]]
  <2> TAKE n \in 1..N
  <2>1. s[n] \in D
    BY <1>4 DEF Lists
  <2>2. Counts(sorted)[n] = sorted[n][2]
    BY <1>5, VolumeParts
  <2>3. sorted[n] = points[s[n]]
    BY <1>1, <1>3
  <2>4. QED
    BY <1>1, <2>1, <2>2, <2>3
<1>7. SumFunctionOnSet(Counts(sorted), 1..N) = SumFunctionOnSet(Counts(points), D)
  <2> DEFINE f == Counts(points)
             h == Counts(sorted)
  <2>1. /\ \A i \in D : f[i] \in Int
        /\ \A n \in 1..N : s[n] \in D /\ h[n] = f[s[n]]
    BY <1>1, <1>6
  <2> HIDE DEF f, h
  <2>2. SumFunctionOnSet(h, 1..N) = SumFunctionOnSet(f, D)
    <3>1. N \in Nat /\ IsFiniteSet(D)
      BY <1>1
    <3>2. QED
      BY <1>4, <2>1, <3>1, SumPermuted
  <2>3. QED
    BY <2>2 DEF f, h
<1>8. Total(sorted) = SumFunctionOnSet(Counts(sorted), 1..N)
  BY <1>5, VolumeParts
<1>9. QED
  BY <1>1, <1>5, <1>7, <1>8 DEF sorted

\* Grouping by a period keeps the total and orders the periods.
LEMMA Aggregated ==
    ASSUME NEW points, IsVolume(points), NEW period, Length(period) \in Nat \ {0}
    PROVE  LET a == aggregateTimeSeries(points, period)
           IN  /\ Total(a) = Total(points)
               /\ \A i, j \in DOMAIN a : i < j => a[i][1] < a[j][1]
<1> DEFINE D == DOMAIN points
           start == periodStart(points, period)
           G == Range(start)
           R == {p \in G \X G : p[1] <= p[2]}
           s == periodStarts(points, period)
           N == Cardinality(G)
           f == Counts(points)
           At(g) == {i \in D : start[i] = g}
           a == aggregateTimeSeries(points, period)
<1>1. /\ IsFiniteSet(D) /\ \A i \in D : points[i] \in Nat \X Nat
      /\ \A i \in D : f[i] \in Int
      /\ Total(points) = SumFunctionOnSet(f, D)
  BY VolumeParts
<1>2. start = [i \in D |-> points[i][1] - (points[i][1] % Length(period))]
  BY DEF periodStart
<1>3. DOMAIN start = D /\ \A i \in D : start[i] \in Int
  BY <1>1, <1>2
<1>4. a = [n \in DOMAIN s |-> <<s[n], SumFunctionOnSet(f, At(s[n]))>>]
  BY DEF aggregateTimeSeries
<1>5. s = InOrder(G, R)
  BY DEF periodStarts
<1> HIDE DEF start, s, a, f
<1>6. G \subseteq Int /\ \A i \in D : start[i] \in G
  BY <1>3 DEF Range
<1>7. IsFiniteSet(G)
  <2>1. start \in Surjection(D, G)
    <3>1. start \in [D -> G] /\ \A g \in G : \E i \in D : start[i] = g
      BY <1>2, <1>3, <1>6 DEF Range, start
    <3> HIDE DEF G, D
    <3>2. QED
      BY <3>1, <1>3, Zenon DEF Surjection
  <2>2. QED
    BY <1>1, <2>1, FS_Surjection
<1> HIDE DEF G
<1>8. IsOrder(G, R)
  <2>1. \A g, h \in G : <<g, h>> \in R <=> g <= h
    OBVIOUS
  <2>2. \A g \in G : g \in Int
    BY <1>6
  <2> HIDE DEF R
  <2>3. /\ \A x \in G : <<x, x>> \in R
        /\ \A x, y \in G : <<x, y>> \in R \/ <<y, x>> \in R
    BY <2>1, <2>2
  <2>4. \A x, y \in G : <<x, y>> \in R /\ <<y, x>> \in R => x = y
    BY <2>1, <2>2
  <2>5. \A x, y, z \in G : <<x, y>> \in R /\ <<y, z>> \in R => <<x, z>> \in R
    BY <2>1, <2>2
  <2>6. QED
    BY <2>3, <2>4, <2>5 DEF IsOrder
<1>9. /\ N \in Nat /\ s \in [1..N -> G]
      /\ \A x \in G : \E n \in 1..N : s[n] = x
      /\ \A m, n \in 1..N : m < n => s[m] # s[n] /\ <<s[m], s[n]>> \in R
  <2> HIDE DEF R
  <2>1. QED
    BY <1>5, <1>7, <1>8, InOrderIs DEF Lists
<1> HIDE DEF N
<1>10. \A m, n \in 1..N : m < n => s[m] < s[n]
  <2> SUFFICES ASSUME NEW m \in 1..N, NEW n \in 1..N, m < n PROVE s[m] < s[n]
    OBVIOUS
  <2>1. s[m] # s[n] /\ <<s[m], s[n]>> \in R /\ s[m] \in Int /\ s[n] \in Int
    BY <1>6, <1>9
  <2>2. QED
    BY <2>1
<1>11. /\ DOMAIN a = 1..N
       /\ \A n \in 1..N : a[n][1] = s[n] /\ a[n][2] = SumFunctionOnSet(f, At(s[n]))
  <2> HIDE DEF At
  <2>1. QED
    BY <1>4, <1>9
<1>12. DOMAIN Counts(a) = 1..N /\ \A n \in 1..N : Counts(a)[n] = SumFunctionOnSet(f, At(s[n]))
  <2> HIDE DEF At
  <2>1. QED
    BY <1>11 DEF Counts
<1>13. \A i \in D : \E n \in 1..N : start[i] = s[n]
  BY <1>6, <1>9
<1>14. SumFunctionOnSet(Counts(a), 1..N) = SumFunctionOnSet(f, D)
  <2> DEFINE h == Counts(a)
             part == [n \in 1..N |-> At(s[n])]
  <2>1. \A n \in 1..N : part[n] = At(s[n])
    OBVIOUS
  <2> HIDE DEF part
  <2>2. \A n \in 1..N : part[n] \subseteq D /\ h[n] = SumFunctionOnSet(f, part[n])
    <3>1. \A g : At(g) \subseteq D
      OBVIOUS
    <3> HIDE DEF At
    <3>2. QED
      BY <1>12, <2>1, <3>1
  <2>3. \A j, k \in 1..N : j < k => part[j] \cap part[k] = {}
    <3> SUFFICES ASSUME NEW j \in 1..N, NEW k \in 1..N, j < k, NEW i \in part[j] \cap part[k] PROVE FALSE
      OBVIOUS
    <3>1. start[i] = s[j] /\ start[i] = s[k]
      BY <2>1
    <3>2. QED
      BY <1>9, <3>1
  <2>4. \A i \in D : \E n \in 1..N : i \in part[n]
    BY <1>13, <2>1
  <2> HIDE DEF h, D, R, At
  <2>5. SumFunctionOnSet(h, 1..N) = SumFunctionOnSet(f, D)
    <3>1. N \in Nat /\ IsFiniteSet(D) /\ \A i \in D : f[i] \in Int
      BY <1>1, <1>9
    <3>2. Partitions(part, N, D) /\ SumsOf(h, f, part, N)
      BY <2>2, <2>3, <2>4, <3>1 DEF Partitions, SumsOf
    <3>3. QED
      BY <3>1, <3>2, SumParts
  <2>6. QED
    BY <2>5 DEF h
<1>15. Total(a) = SumFunctionOnSet(Counts(a), 1..N)
  BY <1>12 DEF Total, SumFunction
<1>16. QED
  <2>1. Total(a) = Total(points)
    BY <1>1, <1>14, <1>15
  <2>2. \A i, j \in DOMAIN a : i < j => a[i][1] < a[j][1]
    <3> TAKE i, j \in DOMAIN a
    <3>1. i \in 1..N /\ j \in 1..N /\ a[i][1] = s[i] /\ a[j][1] = s[j]
      <4> HIDE DEF At
      <4>1. QED
        BY <1>11
    <3>2. QED
      BY <1>10, <3>1
  <2>3. QED
    BY <2>1, <2>2 DEF a

\* Every choice of a period is a period.
LEMMA PeriodLength == ASSUME NEW points PROVE Length(aggregationPeriod(points)) \in Nat \ {0}
<1>1. aggregationPeriod(points) \in {"hour", "day", "week", "month"}
  BY DEF aggregationPeriod
<1>2. \A p \in {"hour", "day", "week", "month"} : Length(p) \in Nat \ {0}
  BY DEF Length, Day
<1>3. QED
  BY <1>1, <1>2

-----------------------------------------------------------------------------
(* Charts and their validation.                                            *)

\* A record with the fields of a chart and a value for each key.
IsChart(c) ==
    DOMAIN c = {"type", "rows", "links", "points", "key"} /\ DOMAIN c.key = Keys

\* The same rows.
SameRows(c, d) == d.rows = c.rows /\ d.links = c.links /\ d.points = c.points

\* A chart of the code's own making.
LEMMA NamedFields ==
    ASSUME NEW t, NEW r, NEW ks, NEW n
    PROVE  LET c == Named(t, r, ks, n)
           IN  /\ IsChart(c)
               /\ c.type = t /\ c.rows = r /\ c.links = {} /\ c.points = <<>>
               /\ \A k \in Keys : c.key[k] = IF k \in ks THEN n ELSE "none"
<1> DEFINE c == Named(t, r, ks, n)
<1>1. /\ c.type = t /\ c.rows = r /\ c.links = {} /\ c.points = <<>>
      /\ c.key = [k \in Keys |-> IF k \in ks THEN n ELSE "none"]
      /\ DOMAIN c = {"type", "rows", "links", "points", "key"}
  BY DEF Named
<1>2. QED
  BY <1>1 DEF IsChart

\* New keys leave the rows and the type alone.
LEMMA NewKeys ==
    ASSUME NEW c, IsChart(c), NEW f, DOMAIN f = Keys
    PROVE  LET d == [c EXCEPT !.key = f]
           IN  IsChart(d) /\ SameRows(c, d) /\ d.type = c.type /\ d.key = f
BY DEF IsChart, SameRows

\* The keys camelCase makes.
LEMMA CamelCased ==
    ASSUME NEW c, IsChart(c)
    PROVE  LET d == camelCase(c)
           IN  /\ IsChart(d) /\ SameRows(c, d) /\ d.type = c.type
               /\ \A k \in Keys : d.key[k] = IF c.key[k] = "snake" THEN "field" ELSE c.key[k]
<1> DEFINE f == [k \in Keys |-> IF c.key[k] = "snake" THEN "field" ELSE c.key[k]]
<1>1. camelCase(c) = [c EXCEPT !.key = f]
  BY DEF camelCase
<1>2. DOMAIN f = Keys /\ \A k \in Keys : f[k] = IF c.key[k] = "snake" THEN "field" ELSE c.key[k]
  OBVIOUS
<1> HIDE DEF f
<1>3. LET d == [c EXCEPT !.key = f]
      IN  IsChart(d) /\ SameRows(c, d) /\ d.type = c.type /\ d.key = f
  BY <1>2, NewKeys
<1>4. QED
  BY <1>1, <1>2, <1>3

\* statusPie leaves the rows of every chart, and all of a chart that is no
\* sankey of status counts.
LEMMA StatusPied ==
    ASSUME NEW c, IsChart(c)
    PROVE  LET d == statusPie(c)
           IN  /\ IsChart(d) /\ SameRows(c, d) /\ d.type \in {c.type, "pie"}
               /\ c.type # "sankey" \/ c.rows \notin StatusRows => d = c
<1> DEFINE f == [k \in Keys |-> CASE k \in {"dimension", "metric"} -> "field"
                                  [] k \in {"nodes", "source", "target"} -> "none"
                                  [] OTHER -> c.key[k]]
<1>1. statusPie(c) \in {c, [c EXCEPT !.type = "pie", !.key = f]}
  BY DEF statusPie
<1>2. DOMAIN f = Keys
  OBVIOUS
<1> HIDE DEF f
<1>3. c.type # "sankey" \/ c.rows \notin StatusRows => statusPie(c) = c
  BY DEF statusPie
<1>4. SameRows(c, c)
  BY DEF SameRows
<1>5. LET d == [c EXCEPT !.type = "pie", !.key = f]
      IN  IsChart(d) /\ SameRows(c, d) /\ d.type = "pie"
  BY <1>2 DEF IsChart, SameRows
<1>6. QED
  BY <1>1, <1>3, <1>4, <1>5

\* The value of a key after validation: what camelCase makes of it, or the
\* column that is found for a key the chart lacks.
Repaired(c, k) ==
    IF c.key[k] \in {"snake", "field"} THEN "field"
    ELSE IF c.key[k] = "none" /\ k \in DOMAIN Missing(c) THEN Missing(c)[k]
    ELSE c.key[k]

\* Validation never touches the rows.
LEMMA ValidateKeeps ==
    ASSUME NEW c, IsChart(c)
    PROVE  IsChart(validateChartData(c)) /\ SameRows(c, validateChartData(c))
<1> DEFINE d == statusPie(camelCase(c))
           f == [k \in Keys |-> IF d.key[k] = "none" /\ k \in DOMAIN Missing(d)
                                THEN Missing(d)[k] ELSE d.key[k]]
<1>1. validateChartData(c) = IF c.type = "none" THEN c ELSE [d EXCEPT !.key = f]
  BY DEF validateChartData
<1>2. IsChart(d) /\ SameRows(c, d)
  <2>1. IsChart(camelCase(c)) /\ SameRows(c, camelCase(c))
    BY CamelCased
  <2>2. QED
    BY <2>1, StatusPied DEF SameRows
<1>3. DOMAIN f = Keys
  OBVIOUS
<1> HIDE DEF d, f
<1>4. SameRows(c, c)
  BY DEF SameRows
<1>5. IsChart([d EXCEPT !.key = f]) /\ SameRows(d, [d EXCEPT !.key = f])
  BY <1>2, <1>3, NewKeys
<1>6. QED
  BY <1>1, <1>2, <1>4, <1>5 DEF SameRows

\* What validation makes of a chart that is no sankey of status counts.
LEMMA Validated ==
    ASSUME NEW c, IsChart(c), c.type # "none", c.type # "sankey" \/ c.rows \notin StatusRows
    PROVE  LET d == validateChartData(c)
           IN  d.type = c.type /\ \A k \in Keys : d.key[k] = Repaired(c, k)
<1> DEFINE d == camelCase(c)
           f == [k \in Keys |-> IF d.key[k] = "none" /\ k \in DOMAIN Missing(d)
                                THEN Missing(d)[k] ELSE d.key[k]]
<1>1. /\ IsChart(d) /\ SameRows(c, d) /\ d.type = c.type
      /\ \A k \in Keys : d.key[k] = IF c.key[k] = "snake" THEN "field" ELSE c.key[k]
  BY CamelCased
<1>2. d.type # "sankey" \/ d.rows \notin StatusRows
  BY <1>1 DEF SameRows
<1>3. statusPie(d) = d
  <2> HIDE DEF d
  <2> QED
    BY <1>1, <1>2, StatusPied
<1>4. validateChartData(c) = [d EXCEPT !.key = f]
  BY <1>3 DEF validateChartData
<1>5. Missing(d) = Missing(c)
  <2> HIDE DEF d
  <2> QED
    BY <1>1 DEF Missing, SameRows
<1>6. DOMAIN f = Keys
  OBVIOUS
<1>7. \A k \in Keys : f[k] = Repaired(c, k)
  <2>1. TAKE k \in Keys
  <2>2. f[k] = IF d.key[k] = "none" /\ k \in DOMAIN Missing(c) THEN Missing(c)[k] ELSE d.key[k]
    BY <1>5
  <2> HIDE DEF f, d
  <2>3. QED
    BY <1>1, <2>2 DEF Repaired
<1> HIDE DEF d, f
<1>8. [d EXCEPT !.key = f].type = d.type /\ [d EXCEPT !.key = f].key = f
  BY <1>1, <1>6, NewKeys
<1>9. QED
  BY <1>1, <1>4, <1>7, <1>8

-----------------------------------------------------------------------------
(* What is drawn.                                                          *)

\* The charts Fire hands to a draw function, and the picture it then shows.
CanDraw(c) == c.rows # "empty" /\ c.type \in Drawable
Drawing(c) == [picture |-> draw(c), of |-> c]

\* The timer of the chart puts its rows into the picture.
Drawn(c) == CanDraw(c) /\ draw(c) = "drawn"

\* What each draw function needs to put the rows into the picture.
LEMMA DrawnPictures ==
    ASSUME NEW c, c.rows # "empty"
    PROVE  /\ c.type = "line" /\ Fits(c, {"xAxis", "yAxis"}) /\ c.key["metrics"] \in {"none", "field"}
                => Drawn(c)
           /\ c.type = "pie" /\ Fits(c, {"dimension", "metric"}) => Drawn(c)
           /\ c.type = "stacked-bar" /\ Fits(c, {"xAxis", "yAxis", "groupBy"}) => Drawn(c)
           /\ c.type \in {"bar", "area"} /\ Fits(c, {"xAxis", "yAxis"}) => Drawn(c)
           /\ c.type = "combo" /\ c.rows = "dated" /\ Fits(c, {"xAxis", "yAxis"}) => Drawn(c)
           /\ c.type = "gauge" /\ c.rows = "orders" => Drawn(c)
           /\ c.type = "funnel" /\ c.key["dimension"] = "field"
                /\ \/ c.key["metrics"] = "field"
                   \/ c.key["metrics"] = "none" /\ c.key["metric"] = "field"
                => Drawn(c)
           /\ c.type = "sankey" /\ Fits(c, {"source", "target"}) /\ WellPlaced(c.links) => Drawn(c)
<1>1. {"line", "pie", "stacked-bar", "bar", "area", "combo", "gauge", "funnel", "sankey"} \subseteq Drawable
  BY DEF Drawable, Types
<1>2. CASE c.type = "line"
  <2>1. draw(c) = drawLineChart(c)
    BY <1>2 DEF draw
  <2>2. QED
    BY <1>1, <1>2, <2>1 DEF Drawn, CanDraw, drawLineChart, Picture, Has, Fits
<1>3. CASE c.type = "pie"
  <2>1. draw(c) = drawPieChart(c)
    BY <1>3 DEF draw
  <2>2. QED
    BY <1>1, <1>3, <2>1 DEF Drawn, CanDraw, drawPieChart, Picture, Has, Fits
<1>4. CASE c.type = "stacked-bar"
  <2>1. draw(c) = drawStackedBarChart(c)
    BY <1>4 DEF draw
  <2>2. QED
    BY <1>1, <1>4, <2>1 DEF Drawn, CanDraw, drawStackedBarChart, Picture
<1>5. CASE c.type = "bar"
  <2>1. draw(c) = drawBarChart(c)
    BY <1>5 DEF draw
  <2>2. QED
    BY <1>1, <1>5, <2>1 DEF Drawn, CanDraw, drawBarChart, Picture, Has, Fits
<1>6. CASE c.type = "area"
  <2>1. draw(c) = drawAreaChart(c)
    BY <1>6 DEF draw
  <2>2. QED
    BY <1>1, <1>6, <2>1 DEF Drawn, CanDraw, drawAreaChart, Picture, Has, Fits
<1>7. CASE c.type = "combo"
  <2>1. draw(c) = drawComboChart(c)
    BY <1>7 DEF draw
  <2>2. QED
    BY <1>1, <1>7, <2>1 DEF Drawn, CanDraw, drawComboChart, Picture
<1>8. CASE c.type = "gauge"
  <2>1. draw(c) = drawGaugeChart(c)
    BY <1>8 DEF draw
  <2>2. QED
    BY <1>1, <1>8, <2>1 DEF Drawn, CanDraw, drawGaugeChart, Picture
<1>9. CASE c.type = "funnel"
  <2>1. draw(c) = drawFunnelChart(c)
    BY <1>9 DEF draw
  <2>2. QED
    BY <1>1, <1>9, <2>1 DEF Drawn, CanDraw, drawFunnelChart, Picture, Has, Fits
<1>10. CASE c.type = "sankey" /\ Fits(c, {"source", "target"}) /\ WellPlaced(c.links)
  <2>1. draw(c) = drawSankeyDiagram(c)
    BY <1>10 DEF draw
  <2>2. Has(c, "source") /\ Has(c, "target")
    BY <1>10 DEF Has, Fits
  <2>3. {} \notin Range(SankeyLayers(c.links))
    BY <1>10 DEF WellPlaced
  <2>4. drawSankeyDiagram(c) = "drawn"
    BY <1>10, <2>2, <2>3 DEF drawSankeyDiagram, Picture
  <2>5. QED
    BY <1>1, <1>10, <2>1, <2>4 DEF Drawn, CanDraw
<1>11. QED
  BY <1>2, <1>3, <1>4, <1>5, <1>6, <1>7, <1>8, <1>9, <1>10

\* The keys validation may add to a chart of each type.
LEMMA MissingKeys ==
    ASSUME NEW c
    PROVE  /\ c.type \in {"line", "area"} => DOMAIN Missing(c) = {"xAxis", "yAxis"}
           /\ c.type = "pie" => DOMAIN Missing(c) = {"dimension", "metric"}
           /\ c.type = "funnel" =>
                /\ DOMAIN Missing(c) = {"dimension", "metric", "metrics"}
                /\ c.rows \notin {"stages", "orders"} => Missing(c)["metrics"] = "none"
           /\ c.type = "line" => Missing(c)["xAxis"] = textColumn(c.rows)
BY DEF Missing

\* A chart names columns for the keys ks.
Names(c, ks) == \A k \in ks : c.key[k] \in {"snake", "field"}

\* A chart that has all that its picture needs, before validation.
Ready(c) ==
    /\ IsChart(c) /\ c.rows # "empty"
    /\ \/ c.type = "line" /\ Names(c, {"xAxis", "yAxis"}) /\ c.key["metrics"] = "none"
       \/ c.type = "pie" /\ Names(c, {"dimension", "metric"})
       \/ c.type = "stacked-bar" /\ Names(c, {"xAxis", "yAxis", "groupBy"})
       \/ c.type = "bar" /\ Names(c, {"xAxis", "yAxis"})
       \/ c.type = "funnel" /\ Names(c, {"dimension", "metrics"})
       \/ /\ c.type = "funnel" /\ Names(c, {"dimension", "metric"})
          /\ c.key["metrics"] = "none" /\ c.rows \notin {"stages", "orders"}
       \/ /\ c.type = "sankey" /\ Names(c, {"source", "target"})
          /\ c.rows \notin StatusRows /\ WellPlaced(c.links)

\* It is drawn once it is validated.
LEMMA ReadyDrawn ==
    ASSUME NEW c, Ready(c)
    PROVE  Drawn(validateChartData(c))
<1> DEFINE d == validateChartData(c)
<1>1. /\ IsChart(c) /\ c.type # "none" /\ c.rows # "empty"
      /\ c.type # "sankey" \/ c.rows \notin StatusRows
  BY DEF Ready
<1>2. d.rows = c.rows /\ d.links = c.links /\ d.type = c.type
  BY <1>1, ValidateKeeps, Validated DEF SameRows
<1>3. \A k \in Keys : d.key[k] = Repaired(c, k)
  BY <1>1, Validated
<1>4. \A k \in Keys : c.key[k] \in {"snake", "field"} => d.key[k] = "field"
  BY <1>3 DEF Repaired
<1>5. /\ c.key["metrics"] = "none"
      /\ c.type = "line" \/ (c.type = "funnel" /\ c.rows \notin {"stages", "orders"})
      => d.key["metrics"] = "none"
  <2>1. "metrics" \in Keys
    BY DEF Keys
  <2>2. QED
    BY <1>3, <2>1, MissingKeys DEF Repaired
<1> HIDE DEF d
<1>6. {"xAxis", "yAxis", "groupBy", "dimension", "metric", "metrics", "source", "target"} \subseteq Keys
  BY DEF Keys
<1>7. \A ks \in SUBSET Keys : Names(c, ks) => Fits(d, ks)
  BY <1>4 DEF Names, Fits
<1>8. d.rows # "empty"
  BY <1>1, <1>2
<1>9. CASE c.type = "line" /\ Names(c, {"xAxis", "yAxis"}) /\ c.key["metrics"] = "none"
  <2>1. Fits(d, {"xAxis", "yAxis"})
    BY <1>6, <1>7, <1>9
  <2>2. QED
    BY <1>2, <1>5, <1>8, <1>9, <2>1, DrawnPictures DEF d
<1>10. CASE c.type = "pie" /\ Names(c, {"dimension", "metric"})
  <2>1. Fits(d, {"dimension", "metric"})
    BY <1>6, <1>7, <1>10
  <2>2. QED
    BY <1>2, <1>8, <1>10, <2>1, DrawnPictures DEF d
<1>11. CASE c.type = "stacked-bar" /\ Names(c, {"xAxis", "yAxis", "groupBy"})
  <2>1. Fits(d, {"xAxis", "yAxis", "groupBy"})
    BY <1>6, <1>7, <1>11
  <2>2. QED
    BY <1>2, <1>8, <1>11, <2>1, DrawnPictures DEF d
<1>12. CASE c.type = "bar" /\ Names(c, {"xAxis", "yAxis"})
  <2>1. Fits(d, {"xAxis", "yAxis"})
    BY <1>6, <1>7, <1>12
  <2>2. QED
    BY <1>2, <1>8, <1>12, <2>1, DrawnPictures DEF d
<1>13. CASE c.type = "funnel" /\ Names(c, {"dimension", "metrics"})
  <2>1. d.key["dimension"] = "field" /\ d.key["metrics"] = "field"
    BY <1>4, <1>6, <1>13 DEF Names
  <2>2. QED
    BY <1>2, <1>8, <1>13, <2>1, DrawnPictures DEF d
<1>14. CASE /\ c.type = "funnel" /\ Names(c, {"dimension", "metric"})
            /\ c.key["metrics"] = "none" /\ c.rows \notin {"stages", "orders"}
  <2>1. d.key["dimension"] = "field" /\ d.key["metric"] = "field"
    BY <1>4, <1>6, <1>14 DEF Names
  <2>2. QED
    BY <1>2, <1>5, <1>8, <1>14, <2>1, DrawnPictures DEF d
<1>15. CASE /\ c.type = "sankey" /\ Names(c, {"source", "target"})
            /\ c.rows \notin StatusRows /\ WellPlaced(c.links)
  <2>1. Fits(d, {"source", "target"})
    BY <1>6, <1>7, <1>15
  <2>2. QED
    BY <1>2, <1>8, <1>15, <2>1, DrawnPictures DEF d
<1>16. QED
  BY <1>9, <1>10, <1>11, <1>12, <1>13, <1>14, <1>15 DEF Ready

-----------------------------------------------------------------------------
(* The getters.                                                            *)

\* The getter of each name.
LEMMA GetIs ==
    ASSUME NEW r
    PROVE  /\ Get("StockLevelTrends", r) = getStockLevelTrends(r)
           /\ Get("InventoryDistribution", r) = getInventoryDistribution(r)
           /\ Get("WarehouseDistribution", r) = getWarehouseDistribution(r)
           /\ Get("ReorderPoints", r) = getReorderPoints(r)
           /\ Get("OrderFlow", r) = getOrderFlow(r)
           /\ Get("OrderPipeline", r) = getOrderPipeline(r)
           /\ Get("OrderLifecycle", r) = getOrderLifecycle(r)
           /\ Get("OrderVolumeTrends", r) = getOrderVolumeTrends(r)
           /\ Get("OrderValueDistribution", r) = getOrderValueDistribution(r)
           /\ Get("OrderPeakTimes", r) = getOrderPeakTimes(r)
           /\ Get("TransactionVolume", r) = getTransactionVolume(r)
           /\ Get("StockMovements", r) = getStockMovements(r)
           /\ Get("TransactionMetrics", r) = getTransactionMetrics(r)
           /\ Get("TransactionPatterns", r) = getTransactionPatterns(r)
           /\ Get("TransactionClusters", r) = getTransactionClusters(r)
           /\ Get("TransactionFlow", r) = getTransactionFlow(r)
           /\ Get("RealTimeMetrics", r) = getRealTimeMetrics(r)
           /\ Get("PerformanceTrends", r) = getPerformanceTrends(r)
           /\ Get("SystemHealth", r) = getSystemHealth(r)
           /\ Get("ResourceUtilization", r) = getResourceUtilization(r)
           /\ Get("FinancialAnalytics", r) = getFinancialAnalytics(r)
           /\ Get("RevenueAnalysis", r) = getRevenueAnalysis(r)
           /\ Get("HierarchicalData", r) = getHierarchicalData(r)
           /\ Get("ForecastData", r) = getForecastData(r)
           /\ Get("TrendPredictions", r) = getTrendPredictions(r)
BY DEF Get

\* Mock data that validation and the draw functions accept.
LEMMA MocksReady ==
    /\ Ready(Chart("line", "dated", {"xAxis", "yAxis"}))
    /\ Ready(Chart("line", "table", {"xAxis", "yAxis"}))
    /\ Ready(Chart("pie", "table", {"dimension", "metric"}))
    /\ Ready(Chart("stacked-bar", "table", {"xAxis", "yAxis", "groupBy"}))
    /\ Ready(Chart("bar", "stages", {"xAxis", "yAxis"}))
    /\ Ready(Chart("funnel", "table", {"dimension", "metric"}))
    /\ Ready(Chart("funnel", "table", {"dimension", "metric", "metrics"}))
<1>1. Ready(Chart("line", "dated", {"xAxis", "yAxis"}))
  BY NamedFields DEF Ready, Names, Chart, Keys
<1>2. Ready(Chart("line", "table", {"xAxis", "yAxis"}))
  BY NamedFields DEF Ready, Names, Chart, Keys
<1>3. Ready(Chart("pie", "table", {"dimension", "metric"}))
  BY NamedFields DEF Ready, Names, Chart, Keys
<1>4. Ready(Chart("stacked-bar", "table", {"xAxis", "yAxis", "groupBy"}))
  BY NamedFields DEF Ready, Names, Chart, Keys
<1>5. Ready(Chart("bar", "stages", {"xAxis", "yAxis"}))
  BY NamedFields DEF Ready, Names, Chart, Keys
<1>6. Ready(Chart("funnel", "table", {"dimension", "metric"}))
  BY NamedFields DEF Ready, Names, Chart, Keys
<1>7. Ready(Chart("funnel", "table", {"dimension", "metric", "metrics"}))
  BY NamedFields DEF Ready, Names, Chart, Keys
<1>8. QED
  BY <1>1, <1>2, <1>3, <1>4, <1>5, <1>6, <1>7

\* Linked charts.
LEMMA LinkedFields ==
    ASSUME NEW ks, NEW links
    PROVE  LET c == Linked(ks, links)
           IN  /\ IsChart(c)
               /\ c.type = "sankey" /\ c.rows = "links" /\ c.links = links /\ c.points = <<>>
               /\ \A k \in Keys : c.key[k] = IF k \in ks THEN "field" ELSE "none"
<1> DEFINE b == Chart("sankey", "links", ks)
<1>1. /\ IsChart(b) /\ b.type = "sankey" /\ b.rows = "links" /\ b.points = <<>>
      /\ \A k \in Keys : b.key[k] = IF k \in ks THEN "field" ELSE "none"
  BY NamedFields DEF Chart
<1> HIDE DEF b
<1>2. LET d == [b EXCEPT !.links = links]
      IN  /\ IsChart(d) /\ d.type = b.type /\ d.rows = b.rows /\ d.links = links
          /\ d.points = b.points /\ d.key = b.key
  BY <1>1 DEF IsChart
<1>3. Linked(ks, links) = [b EXCEPT !.links = links]
  BY DEF Linked, b
<1>4. QED
  BY <1>1, <1>2, <1>3

\* When an endpoint fails its getter's mock data are drawn, all but the one
\* whose quarters are no dates.
LEMMA FallbackDrawn ==
    ASSUME NEW g \in Getters, g # "FinancialAnalytics"
    PROVE  Drawn(Get(g, NoAnswer("error")))
<1> DEFINE e == NoAnswer("error")
<1>1. e.kind = "error" /\ ~e.flat
  BY DEF NoAnswer
<1> HIDE DEF e
<1>2. \A m : validated(e, m) = validateChartData(m)
  BY <1>1 DEF validated
<1>3. \A m, ks : rewrapped(e, m, ks) = validateChartData(m)
  BY <1>1 DEF rewrapped
<1>4. \A m : raw(e, m) = m
  BY <1>1 DEF raw
<1>5. CASE g \in {"StockLevelTrends", "OrderVolumeTrends", "OrderPeakTimes", "TransactionPatterns"}
  <2>1. getStockLevelTrends(e) = validateChartData(Chart("line", "dated", {"xAxis", "yAxis"}))
    BY <1>1, <1>2, <1>3 DEF getStockLevelTrends, validated
  <2>2. getOrderVolumeTrends(e) = validateChartData(Chart("line", "dated", {"xAxis", "yAxis"}))
    BY <1>1, <1>2, <1>3 DEF getOrderVolumeTrends, validated
  <2>3. getOrderPeakTimes(e) = validateChartData(Chart("line", "dated", {"xAxis", "yAxis"}))
    BY <1>1, <1>2, <1>3 DEF getOrderPeakTimes, validated
  <2>4. getTransactionPatterns(e) = validateChartData(Chart("line", "dated", {"xAxis", "yAxis"}))
    BY <1>1, <1>2, <1>3 DEF getTransactionPatterns, validated
  <2>5. QED
    BY <1>5, <2>1, <2>2, <2>3, <2>4, GetIs, MocksReady, ReadyDrawn DEF e
<1>6. CASE g \in {"TransactionVolume"}
  <2>1. getTransactionVolume(e) = validateChartData(Chart("line", "table", {"xAxis", "yAxis"}))
    BY <1>1, <1>2, <1>3 DEF getTransactionVolume, validated
  <2>2. QED
    BY <1>6, <2>1, GetIs, MocksReady, ReadyDrawn DEF e
<1>7. CASE g \in {"InventoryDistribution", "OrderValueDistribution", "TransactionMetrics", "TransactionClusters"}
  <2>1. getInventoryDistribution(e) = validateChartData(Chart("pie", "table", {"dimension", "metric"}))
    BY <1>1, <1>2, <1>3 DEF getInventoryDistribution, validated
  <2>2. getOrderValueDistribution(e) = validateChartData(Chart("pie", "table", {"dimension", "metric"}))
    BY <1>1, <1>2, <1>3 DEF getOrderValueDistribution, validated
  <2>3. getTransactionMetrics(e) = validateChartData(Chart("pie", "table", {"dimension", "metric"}))
    BY <1>1, <1>2, <1>3 DEF getTransactionMetrics, validated
  <2>4. getTransactionClusters(e) = validateChartData(Chart("pie", "table", {"dimension", "metric"}))
    BY <1>1, <1>2, <1>3 DEF getTransactionClusters, validated
  <2>5. QED
    BY <1>7, <2>1, <2>2, <2>3, <2>4, GetIs, MocksReady, ReadyDrawn DEF e
<1>8. CASE g \in {"WarehouseDistribution", "StockMovements"}
  <2>1. getWarehouseDistribution(e) = validateChartData(Chart("stacked-bar", "table", {"xAxis", "yAxis", "groupBy"}))
    BY <1>1, <1>2, <1>3 DEF getWarehouseDistribution, validated
  <2>2. getStockMovements(e) = validateChartData(Chart("stacked-bar", "table", {"xAxis", "yAxis", "groupBy"}))
    BY <1>1, <1>2, <1>3 DEF getStockMovements, validated
  <2>3. QED
    BY <1>8, <2>1, <2>2, GetIs, MocksReady, ReadyDrawn DEF e
<1>9. CASE g \in {"ReorderPoints"}
  <2>1. getReorderPoints(e) = validateChartData(Chart("bar", "stages", {"xAxis", "yAxis"}))
    BY <1>1, <1>2, <1>3 DEF getReorderPoints, validated
  <2>2. QED
    BY <1>9, <2>1, GetIs, MocksReady, ReadyDrawn DEF e
<1>10. CASE g \in {"OrderPipeline", "OrderLifecycle"}
  <2>1. getOrderPipeline(e) = validateChartData(Chart("funnel", "table", {"dimension", "metric"}))
    BY <1>1, <1>2, <1>3 DEF getOrderPipeline, validated
  <2>2. getOrderLifecycle(e) = validateChartData(Chart("funnel", "table", {"dimension", "metric", "metrics"}))
    BY <1>1, <1>2, <1>3 DEF getOrderLifecycle, validated
  <2>3. QED
    BY <1>10, <2>1, <2>2, GetIs, MocksReady, ReadyDrawn DEF e
<1>11. CASE g \in {"OrderFlow", "TransactionFlow"}
  <2> DEFINE m == Linked({"source", "target", "value"}, chain(5))
             w == Linked({"nodes", "source", "target", "value"}, chain(5))
  <2>1. WellPlaced(chain(5))
    BY ChainPlaced
  <2>2. Ready(m) /\ Ready(w)
    BY <2>1, LinkedFields DEF Ready, Names, Keys, StatusRows
  <2>3. Drawn(validateChartData(m)) /\ Drawn(validateChartData(w))
    BY <2>2, ReadyDrawn
  <2>4. getOrderFlow(e) = validateChartData(m)
    BY <1>1, <1>2 DEF getOrderFlow, validated
  <2>5. getTransactionFlow(e) = validateChartData(w)
    BY <1>1, <1>3 DEF getTransactionFlow, rewrapped
  <2>6. QED
    BY <1>11, <2>3, <2>4, <2>5, GetIs DEF e
<1>12. CASE g \in {"RealTimeMetrics", "SystemHealth"}
  <2> DEFINE m == Chart("gauge", "orders", {"metrics"})
  <2>1. Drawn(m)
    BY NamedFields, DrawnPictures DEF Chart
  <2>2. getRealTimeMetrics(e) = m /\ getSystemHealth(e) = m
    BY <1>1 DEF getRealTimeMetrics, getSystemHealth
  <2>3. QED
    BY <1>12, <2>1, <2>2, GetIs DEF e
<1>13. CASE g \in {"PerformanceTrends", "ResourceUtilization"}
  <2> DEFINE m == Chart("line", "dated", {"xAxis", "yAxis", "metrics"})
             w == Chart("stacked-bar", "resource", {"xAxis", "yAxis", "groupBy"})
  <2>1. Drawn(m) /\ Drawn(w)
    BY NamedFields, DrawnPictures DEF Chart, Fits, Keys
  <2>2. getPerformanceTrends(e) = m /\ getResourceUtilization(e) = w
    BY <1>1 DEF getPerformanceTrends, getResourceUtilization
  <2>3. QED
    BY <1>13, <2>1, <2>2, GetIs DEF e
<1>14. CASE g \in Business \ {"HierarchicalData"}
  <2>1. /\ Drawn(Chart("pie", "table", {"dimension", "metric"}))
        /\ Drawn(Chart("line", "stages", {"xAxis", "yAxis"}))
        /\ Drawn(Chart("area", "dated", {"xAxis", "yAxis"}))
    BY NamedFields, DrawnPictures DEF Chart, Fits, Keys
  <2>2. /\ getRevenueAnalysis(e) = Chart("pie", "table", {"dimension", "metric"})
        /\ getForecastData(e) = Chart("line", "stages", {"xAxis", "yAxis"})
        /\ getTrendPredictions(e) = Chart("area", "dated", {"xAxis", "yAxis"})
    BY <1>4 DEF getRevenueAnalysis, getForecastData, getTrendPredictions
  <2>3. QED
    BY <1>14, <2>1, <2>2, GetIs DEF e, Business
<1>15. CASE g = "HierarchicalData"
  <2> DEFINE m == Linked({"nodes", "source", "target", "value"}, Tree)
  <2>1. Drawn(m)
    BY LinkedFields, TreePlaced, DrawnPictures DEF Fits, Keys
  <2>2. getHierarchicalData(e) = m
    BY <1>4 DEF getHierarchicalData, Tree
  <2>3. QED
    BY <1>15, <2>1, <2>2, GetIs DEF e
<1>16. QED
  BY <1>5, <1>6, <1>7, <1>8, <1>9, <1>10, <1>11, <1>12, <1>13, <1>14, <1>15 DEF Getters, Business

\* The charts the engine serves.
LEMMA ServedIs ==
    /\ Served["StockLevelTrends"] = Axes("line", "dated", {"xAxis", "yAxis"})
    /\ Served["InventoryDistribution"] = Chart("pie", "table", {"dimension", "metric"})
    /\ Served["WarehouseDistribution"] = Axes("stacked-bar", "table", {"xAxis", "yAxis", "groupBy"})
    /\ Served["ReorderPoints"] = Axes("bar", "stages", {"xAxis", "yAxis"})
    /\ \A g \in {"OrderFlow", "OrderVolumeTrends", "OrderValueDistribution", "OrderPeakTimes"} :
          Served[g] = StatusCounts
    /\ \A g \in {"OrderPipeline", "OrderLifecycle"} :
          Served[g] = Chart("funnel", "stages", {"dimension", "metrics"})
    /\ Served["TransactionVolume"] = Axes("line", "dated", {"xAxis", "yAxis"})
    /\ Served["StockMovements"] = [Axes("stacked-bar", "stages", {"xAxis"}) EXCEPT
                                      !.key["yAxis"] = "stray", !.key["groupBy"] = "stray"]
    /\ \A g \in {"TransactionMetrics", "TransactionClusters"} :
          Served[g] = Chart("pie", "table", {"dimension", "metric"})
    /\ Served["TransactionPatterns"] = Axes("line", "dated", {"xAxis", "yAxis"})
    /\ Served["TransactionFlow"] = Chart("sankey", "links", {"nodes", "value"})
    /\ Served["PerformanceTrends"] = Orders("line")
    /\ \A g \in {"RealTimeMetrics", "SystemHealth", "ResourceUtilization"} : Served[g] = Orders("gauge")
    /\ Served["RevenueAnalysis"] = Business3("bar")
    /\ Served["HierarchicalData"] = Business3("treemap")
    /\ \A g \in {"FinancialAnalytics", "ForecastData", "TrendPredictions"} : Served[g] = Business3("combo")
BY DEF Served, Getters

\* The status counts, of several statuses or of one.
LEMMA StatusFields ==
    ASSUME NEW c \in {StatusCounts, [StatusCounts EXCEPT !.rows = "single"]}
    PROVE  /\ IsChart(c) /\ c.type = "sankey" /\ c.rows \in StatusRows
           /\ c.links = {} /\ c.points = <<>>
           /\ \A k \in Keys : c.key[k] = IF k \in {"nodes", "value"} THEN "field" ELSE "none"
<1> DEFINE s == StatusCounts
<1>1. /\ IsChart(s) /\ s.type = "sankey" /\ s.rows = "status" /\ s.links = {} /\ s.points = <<>>
      /\ \A k \in Keys : s.key[k] = IF k \in {"nodes", "value"} THEN "field" ELSE "none"
  BY NamedFields DEF StatusCounts, Chart
<1> HIDE DEF s
<1>2. LET d == [s EXCEPT !.rows = "single"]
      IN  /\ IsChart(d) /\ d.type = s.type /\ d.rows = "single" /\ d.links = s.links
          /\ d.points = s.points /\ d.key = s.key
  BY <1>1 DEF IsChart
<1>3. c = s \/ c = [s EXCEPT !.rows = "single"]
  BY DEF s
<1>4. CASE c = s
  BY <1>1, <1>4 DEF StatusRows
<1>5. CASE c = [s EXCEPT !.rows = "single"]
  BY <1>1, <1>2, <1>5 DEF StatusRows
<1>6. QED
  BY <1>3, <1>4, <1>5

\* What the getters of the orders page make of status counts.
LEMMA StatusReady ==
    ASSUME NEW c \in {StatusCounts, [StatusCounts EXCEPT !.rows = "single"]}
    PROVE  LET r == Answer(c, FALSE, TRUE)
           IN  /\ Drawn(getOrderVolumeTrends(r))
               /\ Drawn(getOrderValueDistribution(r))
               /\ Drawn(getOrderPeakTimes(r))
               /\ c.rows = "status" => Drawn(getOrderFlow(r))
<1> DEFINE r == Answer(c, FALSE, TRUE)
<1>1. /\ r.kind = "answer" /\ r.chart = c /\ r.flat = FALSE
      /\ DOMAIN r = {"kind", "chart", "flat", "whole"} /\ body(r) = c
  BY DEF Answer, body
<1>2. /\ IsChart(c) /\ c.type = "sankey" /\ c.rows \in StatusRows
      /\ \A k \in Keys : c.key[k] = IF k \in {"nodes", "value"} THEN "field" ELSE "none"
  BY StatusFields
<1> HIDE DEF r
<1>3. ASSUME NEW d, NEW m
      PROVE  validated([r EXCEPT !.chart = IF r.flat THEN @ ELSE d], m) = validateChartData(d)
  BY <1>1 DEF validated, body
<1>4. ASSUME NEW t \in {"pie", "line"}, NEW rows, NEW ks, "nodes" \notin ks, "value" \notin ks
      PROVE  LET d == Replaced(c, t, rows, ks)
             IN  /\ IsChart(d) /\ d.type = t /\ d.rows = rows
                 /\ \A k \in Keys : d.key[k] =
                      IF k \in ks THEN "field" ELSE "none"
  <2> DEFINE f == [k \in Keys |-> CASE k \in ks -> "field"
                                    [] k \in {"nodes", "value"} -> "none"
                                    [] OTHER -> c.key[k]]
             d == [c EXCEPT !.type = t, !.rows = rows, !.key = f]
  <2>1. Replaced(c, t, rows, ks) = d
    BY <1>2 DEF Replaced
  <2>2. DOMAIN f = Keys /\ \A k \in Keys : f[k] = IF k \in ks THEN "field" ELSE "none"
    <3>1. ASSUME NEW k \in Keys PROVE f[k] = IF k \in ks THEN "field" ELSE "none"
      <4>1. CASE k \in ks
        <5>1. k \notin {"nodes", "value"}
          BY <1>4, <4>1
        <5>2. QED
          BY <4>1, <5>1
      <4>2. CASE k \notin ks /\ k \in {"nodes", "value"}
        BY <4>2
      <4>3. CASE k \notin ks /\ k \notin {"nodes", "value"}
        <5>1. f[k] = c.key[k]
          BY <4>3
        <5>2. QED
          BY <1>2, <4>3, <5>1
      <4>4. QED
        BY <4>1, <4>2, <4>3
    <3>2. QED
      BY <3>1
  <2> HIDE DEF f
  <2>3. IsChart(d) /\ d.type = t /\ d.rows = rows /\ d.key = f
    BY <1>2, <2>2 DEF IsChart
  <2>4. QED
    BY <2>1, <2>2, <2>3
<1>5. Drawn(getOrderValueDistribution(r))
  <2> DEFINE d == Replaced(c, "pie", "table", {"dimension", "metric"})
  <2>1. getOrderValueDistribution(r) = validateChartData(d)
    BY <1>1, <1>3 DEF getOrderValueDistribution
  <2>2. Ready(d)
    BY <1>4 DEF Ready, Names, Keys
  <2>3. QED
    BY <2>1, <2>2, ReadyDrawn
<1>6. Drawn(getOrderPeakTimes(r))
  <2> DEFINE d == Replaced(c, "line", "dated", {"xAxis", "yAxis"})
  <2>1. getOrderPeakTimes(r) = validateChartData(d)
    BY <1>1, <1>3 DEF getOrderPeakTimes
  <2>2. Ready(d)
    BY <1>4 DEF Ready, Names, Keys
  <2>3. QED
    BY <2>1, <2>2, ReadyDrawn
<1>7. Drawn(getOrderVolumeTrends(r))
  <2> DEFINE d == [c EXCEPT !.type = "line",
                     !.key["xAxis"] = IF ~Has(c, "xAxis") /\ c.rows = "dated" THEN "field" ELSE @,
                     !.key["yAxis"] = IF ~Has(c, "yAxis") /\ c.rows \in StatusRows THEN "field" ELSE @]
  <2>1. getOrderVolumeTrends(r) = validateChartData(d)
    BY <1>1, <1>2, <1>3 DEF getOrderVolumeTrends
  <2>2. c.rows # "dated" /\ ~Has(c, "yAxis")
    BY <1>2 DEF Has, StatusRows, Keys
  <2>3. /\ IsChart(d) /\ d.type = "line" /\ d.rows = c.rows
        /\ d.key["xAxis"] = "none" /\ d.key["yAxis"] = "field" /\ d.key["metrics"] = "none"
    BY <1>2, <2>2 DEF IsChart, Keys
  <2> HIDE DEF d
  <2>4. d.type # "none" /\ d.type # "sankey"
    BY <2>3
  <2> DEFINE v == validateChartData(d)
  <2>5. v.type = "line" /\ v.rows = c.rows /\ \A k \in Keys : v.key[k] = Repaired(d, k)
    BY <2>3, <2>4, Validated, ValidateKeeps DEF SameRows
  <2>6. textColumn(d.rows) = "field"
    BY <1>2, <2>3 DEF textColumn, StatusRows
  <2>7. v.key["xAxis"] = "field" /\ v.key["yAxis"] = "field" /\ v.key["metrics"] = "none"
    BY <2>3, <2>5, <2>6, MissingKeys DEF Repaired, Keys
  <2>8. v.rows # "empty"
    BY <1>2, <2>5 DEF StatusRows
  <2> HIDE DEF v
  <2>9. Drawn(v)
    BY <2>5, <2>7, <2>8, DrawnPictures DEF Fits
  <2>10. QED
    BY <2>1, <2>9 DEF v
<1>8. ASSUME c.rows = "status" PROVE Drawn(getOrderFlow(r))
  <2> DEFINE f == [k \in Keys |-> CASE k \in {"source", "target", "value"} -> "field"
                                    [] k \in {"dimension", "metric"} -> "none"
                                    [] OTHER -> c.key[k]]
             d == [c EXCEPT !.type = "sankey",
                     !.rows = IF c.rows = "single" THEN "empty" ELSE "links",
                     !.links = IF c.rows = "single" THEN {} ELSE chain(3),
                     !.key = f]
  <2>1. getOrderFlow(r) = validateChartData(d)
    BY <1>1, <1>2, <1>3 DEF getOrderFlow
  <2>2. DOMAIN f = Keys /\ f["source"] = "field" /\ f["target"] = "field"
    BY DEF Keys
  <2> HIDE DEF f
  <2>3. IsChart(d) /\ d.type = "sankey" /\ d.rows = "links" /\ d.links = chain(3) /\ d.key = f
    BY <1>2, <1>8, <2>2 DEF IsChart
  <2> HIDE DEF d
  <2>4. WellPlaced(chain(3))
    BY ChainPlaced
  <2>5. Ready(d)
    BY <2>2, <2>3, <2>4 DEF Ready, Names, StatusRows
  <2>6. QED
    BY <2>1, <2>5, ReadyDrawn
<1>9. QED
  BY <1>5, <1>6, <1>7, <1>8 DEF r

\* The charts an endpoint serves, by getter.
LEMMA ServedChartsAre ==
    ASSUME NEW g \in Getters, NEW c \in ServedCharts(g)
    PROVE  /\ g = "TransactionVolume" => \E v \in Volumes : c = [Served[g] EXCEPT !.points = v]
           /\ g = "TransactionFlow" => \E n \in 1..MaxPaths : c = [Served[g] EXCEPT !.links = paths(n)]
           /\ g \in {"OrderFlow", "OrderVolumeTrends", "OrderValueDistribution", "OrderPeakTimes"}
                => c \in {StatusCounts, [StatusCounts EXCEPT !.rows = "single"]}
           /\ g \notin {"TransactionVolume", "TransactionFlow", "OrderFlow", "OrderVolumeTrends",
                        "OrderValueDistribution", "OrderPeakTimes"} => c = Served[g]
<1>0. Served["TransactionVolume"].rows # "status" /\ Served["TransactionFlow"].rows # "status"
  BY NamedFields, ServedIs DEF Axes, Chart
<1>1. ASSUME g = "TransactionVolume"
      PROVE  \E v \in Volumes : c = [Served[g] EXCEPT !.points = v]
  <2>1. ServedCharts(g) = {[Served[g] EXCEPT !.points = v] : v \in Volumes}
    BY <1>0, <1>1 DEF ServedCharts
  <2>2. QED
    BY <2>1
<1>2. ASSUME g = "TransactionFlow"
      PROVE  \E n \in 1..MaxPaths : c = [Served[g] EXCEPT !.links = paths(n)]
  <2>1. ServedCharts(g) = {[Served[g] EXCEPT !.links = paths(n)] : n \in 1..MaxPaths}
    BY <1>0, <1>2 DEF ServedCharts
  <2>2. QED
    BY <2>1
<1>3. ASSUME g \in {"OrderFlow", "OrderVolumeTrends", "OrderValueDistribution", "OrderPeakTimes"}
      PROVE  c \in {StatusCounts, [StatusCounts EXCEPT !.rows = "single"]}
  <2>1. Served[g] = StatusCounts /\ StatusCounts.rows = "status"
    BY <1>3, ServedIs, NamedFields DEF StatusCounts, Chart
  <2>2. ServedCharts(g) = {Served[g], [Served[g] EXCEPT !.rows = "single"]}
    BY <1>3, <2>1 DEF ServedCharts
  <2>3. QED
    BY <2>1, <2>2
<1>4. ASSUME g \notin {"TransactionVolume", "TransactionFlow", "OrderFlow", "OrderVolumeTrends",
                       "OrderValueDistribution", "OrderPeakTimes"}
      PROVE  c = Served[g]
  <2>1. Served[g].rows # "status"
    <3>1. \A t, r, ks, n : Named(t, r, ks, n).rows = r
      BY NamedFields
    <3>2. \A t : Business3(t).rows = "stages"
      BY <3>1, NamedFields DEF Business3, Axes, IsChart
    <3>3. Served["StockMovements"].rows = "stages"
      BY <3>1, NamedFields, ServedIs DEF Axes, IsChart
    <3>4. /\ \A t, r, ks : Axes(t, r, ks).rows = r /\ Chart(t, r, ks).rows = r
          /\ \A t : Orders(t).rows = "orders"
      BY <3>1 DEF Axes, Chart, Orders
    <3>5. CASE g \in {"StockLevelTrends", "InventoryDistribution", "WarehouseDistribution",
                      "ReorderPoints", "OrderPipeline", "OrderLifecycle"}
      <4>1. /\ Served["StockLevelTrends"].rows = "dated"
            /\ Served["InventoryDistribution"].rows = "table"
            /\ Served["WarehouseDistribution"].rows = "table"
            /\ Served["ReorderPoints"].rows = "stages"
            /\ Served["OrderPipeline"].rows = "stages" /\ Served["OrderLifecycle"].rows = "stages"
        BY <3>4, ServedIs
      <4>2. QED
        BY <3>5, <4>1
    <3>6. CASE g \in {"TransactionMetrics", "TransactionPatterns", "TransactionClusters"}
      BY <3>4, <3>6, ServedIs
    <3>7. CASE g \in {"RealTimeMetrics", "PerformanceTrends", "SystemHealth", "ResourceUtilization"}
      BY <3>4, <3>7, ServedIs
    <3>8. CASE g \in Business
      BY <3>2, <3>8, ServedIs DEF Business
    <3>9. QED
      BY <1>4, <3>3, <3>5, <3>6, <3>7, <3>8 DEF Getters, Business
  <2>2. ServedCharts(g) = {Served[g]}
    BY <1>4, <2>1 DEF ServedCharts
  <2>3. QED
    BY <2>2
<1>5. QED
  BY <1>1, <1>2, <1>3, <1>4

\* The volume chart, whatever its points.
LEMMA VolumeFields ==
    ASSUME NEW points
    PROVE  LET c == transformTransactionVolumeData(points)
           IN  /\ Ready(c) /\ c.links = {}
               /\ LET sorted == inTimeOrder(points)
                  IN  c.points = aggregateTimeSeries(sorted, aggregationPeriod(sorted))
<1> DEFINE b == Chart("line", "table", {"xAxis", "yAxis"})
           sorted == inTimeOrder(points)
           p == aggregateTimeSeries(sorted, aggregationPeriod(sorted))
           c == [b EXCEPT !.points = p]
<1>1. transformTransactionVolumeData(points) = c
  BY DEF transformTransactionVolumeData
<1> HIDE DEF p
<1>2. /\ IsChart(b) /\ b.type = "line" /\ b.rows = "table" /\ b.links = {}
      /\ b.key["xAxis"] = "field" /\ b.key["yAxis"] = "field" /\ b.key["metrics"] = "none"
  BY NamedFields DEF Chart, Keys
<1> HIDE DEF b
<1>3. /\ IsChart(c) /\ c.type = b.type /\ c.rows = b.rows /\ c.links = b.links
      /\ c.key = b.key /\ c.points = p
  BY <1>2 DEF IsChart
<1>4. Ready(c)
  <2> HIDE DEF c
  <2> QED
    BY <1>2, <1>3 DEF Ready, Names
<1>5. QED
  BY <1>1, <1>2, <1>3, <1>4 DEF p

\* What the engine answers today is drawn.
LEMMA LiveDrawn ==
    ASSUME NEW g \in Getters \ Business, NEW c \in ServedCharts(g),
           "stray" \notin Range(c.key), ~(g = "OrderFlow" /\ c.rows = "single")
    PROVE  Drawn(Get(g, Answer(c, Flat(g), TRUE)))
<1> DEFINE r == Answer(c, Flat(g), TRUE)
<1>1. /\ r.kind = "answer" /\ r.chart = c /\ r.flat = Flat(g)
      /\ DOMAIN r = {"kind", "chart", "flat", "whole"}
      /\ ~Flat(g) => body(r) = c
  BY DEF Answer, body
<1>2. \A t, rows, ks, n :
        LET d == Named(t, rows, ks, n)
        IN  /\ IsChart(d) /\ d.type = t /\ d.rows = rows
            /\ \A k \in Keys : d.key[k] = IF k \in ks THEN n ELSE "none"
  BY NamedFields
<1>3. CASE g \in {"StockLevelTrends", "InventoryDistribution", "WarehouseDistribution",
                  "ReorderPoints", "OrderPipeline", "OrderLifecycle"}
  <2>1. c = Served[g] /\ ~Flat(g)
    BY <1>3, ServedChartsAre DEF Flat
  <2>2. \A m : validated(r, m) = validateChartData(c)
    BY <1>1, <2>1 DEF validated
  <2>3. Ready(c)
    BY <1>2, <1>3, <2>1, ServedIs DEF Axes, Chart, Ready, Names, Keys
  <2> HIDE DEF r
  <2>4. Get(g, r) = validateChartData(c)
    BY <1>3, <2>2, GetIs
       DEF getStockLevelTrends, getInventoryDistribution, getWarehouseDistribution,
           getReorderPoints, getOrderPipeline, getOrderLifecycle
  <2>5. QED
    BY <2>3, <2>4, ReadyDrawn DEF r
<1>4. CASE g \in {"OrderFlow", "OrderVolumeTrends", "OrderValueDistribution", "OrderPeakTimes"}
  <2>1. c \in {StatusCounts, [StatusCounts EXCEPT !.rows = "single"]}
    BY <1>4, ServedChartsAre
  <2>2. c.rows \in StatusRows
    BY <2>1, StatusFields
  <2>3. r = Answer(c, FALSE, TRUE)
    <3>1. Flat(g) = FALSE
      BY <1>4 DEF Flat
    <3>2. QED
      BY <3>1
  <2> HIDE DEF r
  <2>4. /\ Drawn(getOrderVolumeTrends(r)) /\ Drawn(getOrderValueDistribution(r))
        /\ Drawn(getOrderPeakTimes(r)) /\ (c.rows = "status" => Drawn(getOrderFlow(r)))
    BY <2>1, <2>3, StatusReady
  <2>5. QED
    BY <1>4, <2>2, <2>4, GetIs DEF r, StatusRows
<1>5. CASE g = "TransactionVolume"
  <2>1. PICK v \in Volumes : c = [Served[g] EXCEPT !.points = v]
    BY <1>5, ServedChartsAre
  <2>2. c.rows = "dated"
    <3>1. IsChart(Served[g]) /\ Served[g].rows = "dated"
      BY <1>2, <1>5, ServedIs DEF Axes
    <3>2. QED
      BY <2>1, <3>1 DEF IsChart
  <2>3. Get(g, r) = validateChartData(transformTransactionVolumeData(c.points))
    <3> HIDE DEF r
    <3> QED
      BY <1>1, <1>5, <2>2, GetIs DEF getTransactionVolume
  <2>4. Ready(transformTransactionVolumeData(c.points))
    BY VolumeFields
  <2>5. QED
    BY <2>3, <2>4, ReadyDrawn
<1>6. CASE g = "StockMovements"
  <2>1. c = Served[g]
    BY <1>6, ServedChartsAre
  <2>2. c.key["yAxis"] = "stray" /\ "yAxis" \in DOMAIN c.key
    <3> DEFINE a == Axes("stacked-bar", "stages", {"xAxis"})
    <3>1. IsChart(a)
      BY <1>2 DEF Axes
    <3> HIDE DEF a
    <3>2. LET d == [a EXCEPT !.key["yAxis"] = "stray", !.key["groupBy"] = "stray"]
          IN  d.key["yAxis"] = "stray" /\ "yAxis" \in DOMAIN d.key
      BY <3>1 DEF IsChart, Keys
    <3>3. c = [a EXCEPT !.key["yAxis"] = "stray", !.key["groupBy"] = "stray"]
      BY <1>6, <2>1, ServedIs DEF a
    <3>4. QED
      BY <3>2, <3>3
  <2>3. QED
    BY <2>2 DEF Range
<1>7. CASE g \in {"TransactionMetrics", "TransactionPatterns", "TransactionClusters"}
  <2>1. c = Served[g] /\ Flat(g)
    BY <1>7, ServedChartsAre DEF Flat
  <2>2. IsChart(c)
    BY <1>2, <1>7, <2>1, ServedIs DEF Axes, Chart
  <2> DEFINE ks == IF g = "TransactionPatterns" THEN {"xAxis", "yAxis"} ELSE {"dimension", "metric"}
             f == [k \in Keys |-> IF k \in ks THEN camelCase(c).key[k] ELSE "none"]
             d == [c EXCEPT !.key = f]
  <2>3. \A m : rewrapped(r, m, ks) = validateChartData(d)
    BY <1>1, <2>1 DEF rewrapped
  <2>4. Get(g, r) = validateChartData(d)
    <3> HIDE DEF r, d
    <3> QED
      BY <1>7, <2>3, GetIs DEF getTransactionMetrics, getTransactionPatterns, getTransactionClusters
  <2>5. /\ DOMAIN f = Keys
        /\ \A k \in Keys : f[k] = IF k \in ks THEN camelCase(c).key[k] ELSE "none"
    OBVIOUS
  <2> HIDE DEF f
  <2>6. IsChart(d) /\ d.type = c.type /\ d.rows = c.rows /\ d.key = f
    BY <2>2, <2>5, NewKeys DEF SameRows
  <2> HIDE DEF d
  <2>7. \A k \in Keys : c.key[k] \in {"snake", "field"} => camelCase(c).key[k] = "field"
    BY <2>2, CamelCased
  <2>8. Names(c, ks) /\ ks \subseteq Keys /\ "metrics" \in Keys /\ "metrics" \notin ks
    BY <1>2, <1>7, <2>1, ServedIs DEF Axes, Chart, Names, Keys
  <2>9. Names(d, ks) /\ d.key["metrics"] = "none"
    BY <2>5, <2>6, <2>7, <2>8 DEF Names
  <2>10. /\ c.type = IF g = "TransactionPatterns" THEN "line" ELSE "pie"
         /\ c.rows # "empty"
    BY <1>2, <1>7, <2>1, ServedIs DEF Axes, Chart
  <2>11. Ready(d)
    BY <2>6, <2>9, <2>10 DEF Ready
  <2>12. QED
    BY <2>4, <2>11, ReadyDrawn
<1>8. CASE g = "TransactionFlow"
  <2>1. PICK n \in 1..MaxPaths : c = [Served[g] EXCEPT !.links = paths(n)]
    BY <1>8, ServedChartsAre
  <2>2. /\ IsChart(c) /\ c.type = "sankey" /\ c.rows = "links" /\ c.links = paths(n)
        /\ \A k \in Keys : c.key[k] = IF k \in {"nodes", "value"} THEN "field" ELSE "none"
    <3> DEFINE s == Served[g]
    <3>1. /\ IsChart(s) /\ s.type = "sankey" /\ s.rows = "links"
          /\ \A k \in Keys : s.key[k] = IF k \in {"nodes", "value"} THEN "field" ELSE "none"
      BY <1>2, <1>8, ServedIs DEF Chart
    <3> HIDE DEF s
    <3>2. LET d == [s EXCEPT !.links = paths(n)]
          IN  /\ IsChart(d) /\ d.type = s.type /\ d.rows = s.rows /\ d.links = paths(n)
              /\ d.key = s.key
      BY <3>1 DEF IsChart
    <3>3. c = [s EXCEPT !.links = paths(n)]
      BY <2>1 DEF s
    <3>4. QED
      BY <3>1, <3>2, <3>3
  <2>3. WellPlaced(paths(n))
    BY PathsPlaced, ChartsAssumption
  <2> DEFINE named == [k \in Keys |->
                         IF k \in {"source", "target", "value"} /\ c.key[k] = "none"
                         THEN linkColumn(c.rows) ELSE c.key[k]]
             q == [r EXCEPT !.chart.key = named]
             ks == {"nodes", "source", "target", "value"}
             w == Linked(ks, chain(5))
             e == [c EXCEPT !.key = named]
             f == [k \in Keys |-> IF k \in ks THEN camelCase(e).key[k] ELSE "none"]
             d == [e EXCEPT !.key = f]
  <2>4. Flat(g)
    BY <1>8 DEF Flat
  <2>5. DOMAIN named = Keys /\ named["source"] = "field" /\ named["target"] = "field"
    BY <2>2 DEF Keys, linkColumn
  <2>6. q.kind = "answer" /\ q.flat /\ q.chart = e
    BY <1>1, <2>4
  <2>7. Get(g, r) = rewrapped(q, w, ks)
    <3>1. r.flat = TRUE
      BY <1>1, <1>8 DEF Flat
    <3> HIDE DEF r
    <3>2. getTransactionFlow(r) = rewrapped(q, w, ks)
      BY <1>1, <3>1 DEF getTransactionFlow
    <3>3. QED
      BY <1>8, <3>2, GetIs DEF r
  <2> HIDE DEF named, w
  <2>8. IsChart(e) /\ SameRows(c, e) /\ e.type = c.type /\ e.key = named
    BY <2>2, <2>5, NewKeys
  <2>9. rewrapped(q, w, ks) = validateChartData(d)
    <3> HIDE DEF q, e
    <3> QED
      BY <2>6 DEF rewrapped
  <2> HIDE DEF e
  <2>10. DOMAIN f = Keys /\ f["source"] = "field" /\ f["target"] = "field"
    BY <2>5, <2>8, CamelCased DEF Keys
  <2> HIDE DEF f
  <2>11. IsChart(d) /\ SameRows(e, d) /\ d.type = e.type /\ d.key = f
    BY <2>8, <2>10, NewKeys
  <2> HIDE DEF d
  <2>12. Ready(d)
    BY <2>2, <2>3, <2>8, <2>10, <2>11 DEF Ready, Names, SameRows, StatusRows
  <2>13. QED
    BY <2>7, <2>9, <2>12, ReadyDrawn
<1>9. CASE g \in {"RealTimeMetrics", "PerformanceTrends", "SystemHealth", "ResourceUtilization"}
  <2>1. c = Served[g]
    BY <1>9, ServedChartsAre
  <2>2. c.rows = "orders"
    BY <1>2, <1>9, <2>1, ServedIs DEF Orders, Chart
  <2>3. /\ Drawn(Chart("gauge", "orders", {"metrics"}))
        /\ Drawn(Chart("line", "dated", {"xAxis", "yAxis", "metrics"}))
        /\ Drawn(Chart("stacked-bar", "resource", {"xAxis", "yAxis", "groupBy"}))
    BY NamedFields, DrawnPictures DEF Chart, Fits, Keys
  <2> HIDE DEF r
  <2>4. /\ getRealTimeMetrics(r) = Chart("gauge", "orders", {"metrics"})
        /\ getSystemHealth(r) = Chart("gauge", "orders", {"metrics"})
        /\ getPerformanceTrends(r) = Chart("line", "dated", {"xAxis", "yAxis", "metrics"})
        /\ getResourceUtilization(r) = Chart("stacked-bar", "resource", {"xAxis", "yAxis", "groupBy"})
    BY <1>1, <2>2 DEF getRealTimeMetrics, getSystemHealth, getPerformanceTrends, getResourceUtilization
  <2>5. QED
    BY <1>9, <2>3, <2>4, GetIs DEF r
<1>10. QED
  BY <1>3, <1>4, <1>5, <1>6, <1>7, <1>8, <1>9 DEF Getters, Business

-----------------------------------------------------------------------------
(* The links of every chart a getter returns.                              *)

\* A chart without links, or whose links are placed well.
Placeable(c) == IsChart(c) /\ (c.links = {} \/ WellPlaced(c.links))

\* Validation keeps it so.
LEMMA PlaceableKept == ASSUME NEW c, Placeable(c) PROVE Placeable(validateChartData(c))
<1>1. IsChart(validateChartData(c)) /\ validateChartData(c).links = c.links
  BY ValidateKeeps DEF Placeable, SameRows
<1>2. QED
  BY <1>1 DEF Placeable

\* Every chart an endpoint can answer with.
LEMMA ServedPlaceable == ASSUME NEW g \in Getters PROVE Placeable(Served[g]) /\ Served[g].links = {}
<1>1. \A t, rows, ks, n : IsChart(Named(t, rows, ks, n)) /\ Named(t, rows, ks, n).links = {}
  BY NamedFields
<1>2. \A t, rows, ks : /\ IsChart(Axes(t, rows, ks)) /\ Axes(t, rows, ks).links = {}
                       /\ IsChart(Chart(t, rows, ks)) /\ Chart(t, rows, ks).links = {}
  BY <1>1 DEF Axes, Chart
<1>3. IsChart(StatusCounts) /\ StatusCounts.links = {} /\ \A t : IsChart(Orders(t)) /\ Orders(t).links = {}
  BY <1>2 DEF StatusCounts, Orders
<1>4. \A t : IsChart(Business3(t)) /\ Business3(t).links = {}
  <2>1. TAKE t
  <2> DEFINE a == Axes(t, "stages", {"xAxis"})
  <2>2. IsChart(a) /\ a.links = {}
    BY <1>2
  <2> HIDE DEF a
  <2>3. IsChart([a EXCEPT !.key["metrics"] = "field"]) /\ [a EXCEPT !.key["metrics"] = "field"].links = {}
    BY <2>2 DEF IsChart
  <2>4. QED
    BY <2>3 DEF a, Business3
<1>5. IsChart(Served["StockMovements"]) /\ Served["StockMovements"].links = {}
  <2> DEFINE a == Axes("stacked-bar", "stages", {"xAxis"})
             d == [a EXCEPT !.key["yAxis"] = "stray", !.key["groupBy"] = "stray"]
  <2>1. IsChart(a) /\ a.links = {}
    BY <1>2
  <2>2. Served["StockMovements"] = d
    BY ServedIs
  <2> HIDE DEF a
  <2>3. IsChart(d) /\ d.links = {}
    BY <2>1 DEF IsChart
  <2>4. QED
    BY <2>2, <2>3
<1>6. CASE g \in {"StockLevelTrends", "InventoryDistribution", "WarehouseDistribution",
                  "ReorderPoints", "OrderPipeline", "OrderLifecycle"}
  BY <1>2, <1>6, ServedIs DEF Placeable
<1>7. CASE g \in {"OrderFlow", "OrderVolumeTrends", "OrderValueDistribution", "OrderPeakTimes"}
  BY <1>3, <1>7, ServedIs DEF Placeable
<1>8. CASE g \in {"TransactionVolume", "TransactionMetrics", "TransactionPatterns",
                  "TransactionClusters", "TransactionFlow"}
  BY <1>2, <1>8, ServedIs DEF Placeable
<1>9. CASE g \in {"RealTimeMetrics", "PerformanceTrends", "SystemHealth", "ResourceUtilization"}
  BY <1>3, <1>9, ServedIs DEF Placeable
<1>10. CASE g \in Business
  BY <1>4, <1>10, ServedIs DEF Placeable, Business
<1>11. QED
  BY <1>5, <1>6, <1>7, <1>8, <1>9, <1>10 DEF Getters, Business, Placeable

\* The form of a response.
IsResponse(r) ==
    /\ DOMAIN r = {"kind", "chart", "flat", "whole"}
    /\ r.kind \in {"error", "empty", "answer"}
    /\ Placeable(r.chart)

\* So are the charts of the rows the tables can give.
LEMMA ServedChartsPlaceable ==
    ASSUME NEW g \in Getters, NEW c \in ServedCharts(g)
    PROVE  Placeable(c)
<1> DEFINE s == Served[g]
<1>1. IsChart(s) /\ s.links = {}
  BY ServedPlaceable DEF Placeable
<1> HIDE DEF s
<1>2. CASE g = "TransactionVolume"
  <2>1. PICK v \in Volumes : c = [s EXCEPT !.points = v]
    BY <1>2, ServedChartsAre DEF s
  <2>2. QED
    BY <1>1, <2>1 DEF Placeable, IsChart
<1>3. CASE g = "TransactionFlow"
  <2>1. PICK n \in 1..MaxPaths : c = [s EXCEPT !.links = paths(n)]
    BY <1>3, ServedChartsAre DEF s
  <2>2. WellPlaced(paths(n))
    BY PathsPlaced, ChartsAssumption
  <2>3. QED
    BY <1>1, <2>1, <2>2 DEF Placeable, IsChart
<1>4. CASE g \in {"OrderFlow", "OrderVolumeTrends", "OrderValueDistribution", "OrderPeakTimes"}
  <2>1. c \in {StatusCounts, [StatusCounts EXCEPT !.rows = "single"]}
    BY <1>4, ServedChartsAre
  <2>2. QED
    BY <2>1, StatusFields DEF Placeable
<1>5. CASE g \notin {"TransactionVolume", "TransactionFlow", "OrderFlow", "OrderVolumeTrends",
                     "OrderValueDistribution", "OrderPeakTimes"}
  BY <1>1, <1>5, ServedChartsAre DEF s, Placeable
<1>6. QED
  BY <1>2, <1>3, <1>4, <1>5

\* An answer that lacks the key k.
Lacking(g, c, k) == Answer([c EXCEPT !.key[k] = "none"], Flat(g), FALSE)

\* The responses, case by case.
LEMMA ResponseCases ==
    ASSUME NEW g, NEW r \in Responses(g)
    PROVE  \/ r \in {NoAnswer("error"), NoAnswer("empty")}
           \/ \E c \in ServedCharts(g) : r = Answer(c, Flat(g), TRUE)
           \/ r = Answer([Served[g] EXCEPT !.rows = "empty"], Flat(g), TRUE)
           \/ \E c \in ServedCharts(g), k \in Keys : r = Lacking(g, c, k)
<1> DEFINE A == {Answer(c, Flat(g), TRUE) : c \in ServedCharts(g)}
           B == {Answer([Served[g] EXCEPT !.rows = "empty"], Flat(g), TRUE)}
           N == {j \in Keys : Served[g].key[j] # "none"}
           C == {Lacking(g, c, k) : c \in ServedCharts(g), k \in N}
<1>1. Responses(g) = {NoAnswer("error"), NoAnswer("empty")} \cup A \cup B \cup C
  BY DEF Responses, Lacking
<1>2. ASSUME r \in C PROVE \E c \in ServedCharts(g), k \in Keys : r = Lacking(g, c, k)
  <2>1. N \subseteq Keys
    OBVIOUS
  <2> HIDE DEF N
  <2>2. QED
    BY <1>2, <2>1
<1>3. r \in A => \E c \in ServedCharts(g) : r = Answer(c, Flat(g), TRUE)
  OBVIOUS
<1>4. r \in B => r = Answer([Served[g] EXCEPT !.rows = "empty"], Flat(g), TRUE)
  OBVIOUS
<1> HIDE DEF A, B, C
<1>5. QED
  BY <1>1, <1>2, <1>3, <1>4

\* Every response has its fields, and a chart whose links can be placed.
LEMMA ResponsesAre ==
    ASSUME NEW g \in Getters, NEW r \in Responses(g)
    PROVE  IsResponse(r)
<1>1. Placeable(NoChart)
  BY NamedFields DEF NoChart, Chart, Placeable
<1>2. CASE r \in {NoAnswer("error"), NoAnswer("empty")}
  BY <1>1, <1>2 DEF NoAnswer, IsResponse
<1>3. ASSUME NEW c, Placeable(c), NEW w, r = Answer(c, Flat(g), w) PROVE IsResponse(r)
  BY <1>3 DEF Answer, IsResponse
<1>4. CASE \E c \in ServedCharts(g) : r = Answer(c, Flat(g), TRUE)
  BY <1>3, <1>4, ServedChartsPlaceable
<1>5. CASE r = Answer([Served[g] EXCEPT !.rows = "empty"], Flat(g), TRUE)
  <2> DEFINE s == Served[g]
  <2>1. IsChart(s) /\ s.links = {}
    BY ServedPlaceable DEF Placeable
  <2> HIDE DEF s
  <2>2. Placeable([s EXCEPT !.rows = "empty"])
    BY <2>1 DEF Placeable, IsChart
  <2>3. QED
    BY <1>3, <1>5, <2>2 DEF s
<1>6. ASSUME NEW c \in ServedCharts(g), NEW k \in Keys, r = Lacking(g, c, k)
      PROVE  IsResponse(r)
  <2>1. Placeable(c)
    BY ServedChartsPlaceable
  <2>2. Placeable([c EXCEPT !.key[k] = "none"])
    BY <2>1 DEF Placeable, IsChart
  <2>3. QED
    BY <1>3, <1>6, <2>2 DEF Lacking
<1>7. QED
  BY <1>2, <1>4, <1>5, <1>6, ResponseCases

\* The charts a getter is made of.
LEMMA PlaceableParts ==
    /\ \A t, rows, ks : Placeable(Chart(t, rows, ks))
    /\ Placeable(NoChart)
    /\ \A ks : Placeable(Linked(ks, chain(5))) /\ Placeable(Linked(ks, Tree))
<1>1. \A t, rows, ks : Placeable(Chart(t, rows, ks))
  BY NamedFields DEF Chart, Placeable
<1>2. \A ks, links : WellPlaced(links) => Placeable(Linked(ks, links))
  BY LinkedFields DEF Placeable
<1>3. WellPlaced(chain(5)) /\ WellPlaced(Tree)
  BY ChainPlaced, TreePlaced
<1>4. QED
  BY <1>1, <1>2, <1>3 DEF NoChart

\* What is read of a response, validated, rewrapped or as it is.
LEMMA PlaceableBody ==
    ASSUME NEW r, IsResponse(r)
    PROVE  /\ Placeable(body(r))
           /\ \A m : Placeable(m) => Placeable(validated(r, m)) /\ Placeable(raw(r, m))
           /\ \A m, ks : Placeable(m) => Placeable(rewrapped(r, m, ks))
<1>1. Placeable(r.chart)
  BY DEF IsResponse
<1>2. Placeable(body(r))
  <2> DEFINE c == r.chart
             f == NoChart.key
             d == [c EXCEPT !.type = "none", !.key = f]
  <2>1. DOMAIN f = Keys
    BY PlaceableParts DEF Placeable, IsChart
  <2>2. body(r) = IF r.flat THEN d ELSE c
    BY DEF body
  <2> HIDE DEF f, c
  <2>3. Placeable(c)
    BY <1>1 DEF c
  <2>4. Placeable(d)
    BY <2>1, <2>3 DEF Placeable, IsChart
  <2>5. QED
    BY <2>2, <2>3, <2>4
<1>3. ASSUME NEW m, Placeable(m) PROVE Placeable(validated(r, m)) /\ Placeable(raw(r, m))
  <2>1. Placeable(validated(r, m))
    BY <1>2, <1>3, PlaceableKept DEF validated
  <2>2. raw(r, m) \in {m, NoChart, body(r)}
    BY DEF raw, IsResponse
  <2>3. QED
    BY <1>2, <1>3, <2>1, <2>2, PlaceableParts
<1>4. ASSUME NEW m, NEW ks, Placeable(m) PROVE Placeable(rewrapped(r, m, ks))
  <2> DEFINE f == [k \in Keys |-> IF k \in ks THEN camelCase(r.chart).key[k] ELSE "none"]
             d == [r.chart EXCEPT !.key = f]
  <2>1. DOMAIN f = Keys
    OBVIOUS
  <2>2. rewrapped(r, m, ks) \in {validateChartData(m), NoChart, validateChartData(d), validateChartData(r.chart)}
    BY DEF rewrapped, IsResponse
  <2> HIDE DEF f
  <2>3. Placeable(d)
    BY <1>1, <2>1 DEF Placeable, IsChart
  <2> HIDE DEF d
  <2>4. /\ Placeable(validateChartData(m)) /\ Placeable(validateChartData(d))
        /\ Placeable(validateChartData(r.chart))
    BY <1>1, <1>4, <2>3, PlaceableKept
  <2>5. QED
    BY <2>2, <2>4, PlaceableParts
<1>5. QED
  BY <1>2, <1>3, <1>4

\* Whatever an endpoint answers, its chart has no links or links placed well.
LEMMA GetPlaceable ==
    ASSUME NEW g \in Getters, NEW r \in Responses(g)
    PROVE  Placeable(Get(g, r))
<1>1. IsResponse(r)
  BY ResponsesAre
<1>2. ASSUME NEW c, Placeable(c), NEW m, Placeable(m)
      PROVE  Placeable(validated([r EXCEPT !.chart = IF r.flat THEN @ ELSE c], m))
  <2> DEFINE b == IF r.flat THEN r.chart ELSE c
             q == [r EXCEPT !.chart = b]
  <2>1. [r EXCEPT !.chart = IF r.flat THEN @ ELSE c] = q
    OBVIOUS
  <2>2. Placeable(b)
    BY <1>1, <1>2 DEF IsResponse
  <2> HIDE DEF b
  <2>3. q.chart = b /\ q.kind = r.kind /\ DOMAIN q = DOMAIN r
    BY <1>1 DEF IsResponse
  <2> HIDE DEF q
  <2>4. IsResponse(q)
    BY <1>1, <2>2, <2>3 DEF IsResponse
  <2>5. Placeable(validated(q, m))
    BY <1>2, <2>4, PlaceableBody
  <2>6. QED
    BY <2>1, <2>5
<1>3. Placeable(body(r)) /\ Placeable(r.chart)
  BY <1>1, PlaceableBody DEF IsResponse
<1>4. CASE g \in {"StockLevelTrends", "InventoryDistribution", "WarehouseDistribution",
                  "ReorderPoints", "OrderPipeline", "OrderLifecycle"}
  BY <1>1, <1>4, GetIs, PlaceableBody, PlaceableParts
     DEF getStockLevelTrends, getInventoryDistribution, getWarehouseDistribution,
         getReorderPoints, getOrderPipeline, getOrderLifecycle
<1>5. CASE g = "OrderFlow"
  <2> DEFINE c == body(r)
             f == [k \in Keys |-> CASE k \in {"source", "target", "value"} -> "field"
                                    [] k \in {"dimension", "metric"} -> "none"
                                    [] OTHER -> c.key[k]]
             links == IF c.rows = "single" THEN {} ELSE chain(3)
             rows == IF c.rows = "single" THEN "empty" ELSE "links"
             d == [c EXCEPT !.type = "sankey", !.rows = rows, !.links = links, !.key = f]
             flow == IF c.type # "none" /\ c.rows \in StatusRows THEN d ELSE c
             m == Linked({"source", "target", "value"}, chain(5))
  <2>1. getOrderFlow(r) = validated([r EXCEPT !.chart = IF r.flat THEN @ ELSE flow], m)
    BY DEF getOrderFlow
  <2>2. DOMAIN f = Keys
    OBVIOUS
  <2>3. links = {} \/ WellPlaced(links)
    BY ChainPlaced
  <2> HIDE DEF f, c, links, rows
  <2>4. Placeable(c)
    BY <1>3 DEF c
  <2>5. Placeable(d)
    BY <2>2, <2>3, <2>4 DEF Placeable, IsChart
  <2>6. Placeable(flow)
    BY <2>4, <2>5
  <2>7. Placeable(m)
    BY PlaceableParts
  <2> HIDE DEF flow, m
  <2>8. QED
    BY <1>2, <1>5, <2>1, <2>6, <2>7, GetIs
<1>6. CASE g = "OrderVolumeTrends"
  <2> DEFINE c == body(r)
             d == [c EXCEPT !.type = "line",
                     !.key["xAxis"] = IF ~Has(c, "xAxis") /\ c.rows = "dated" THEN "field" ELSE @,
                     !.key["yAxis"] = IF ~Has(c, "yAxis") /\ c.rows \in StatusRows THEN "field" ELSE @]
             line == IF c.type \notin {"none", "line"} THEN d ELSE c
             m == Chart("line", "dated", {"xAxis", "yAxis"})
  <2>1. getOrderVolumeTrends(r) = validated([r EXCEPT !.chart = IF r.flat THEN @ ELSE line], m)
    BY DEF getOrderVolumeTrends
  <2> HIDE DEF c
  <2>2. Placeable(c)
    BY <1>3 DEF c
  <2>3. Placeable(d)
    BY <2>2 DEF Placeable, IsChart
  <2>4. Placeable(line)
    BY <2>2, <2>3
  <2>5. Placeable(m)
    BY PlaceableParts
  <2> HIDE DEF line, m
  <2>6. QED
    BY <1>2, <1>6, <2>1, <2>4, <2>5, GetIs
<1>7. CASE g \in {"OrderValueDistribution", "OrderPeakTimes"}
  <2>1. ASSUME NEW t, NEW rows, NEW ks PROVE Placeable(Replaced(r.chart, t, rows, ks))
    <3> DEFINE c == r.chart
               f == [k \in Keys |-> CASE k \in ks -> "field"
                                      [] k \in {"nodes", "value"} -> "none"
                                      [] OTHER -> c.key[k]]
               d == [c EXCEPT !.type = t, !.rows = rows, !.key = f]
    <3>1. Replaced(c, t, rows, ks) \in {c, d}
      BY DEF Replaced
    <3>2. DOMAIN f = Keys
      OBVIOUS
    <3> HIDE DEF f, c
    <3>3. Placeable(c)
      BY <1>3 DEF c
    <3>4. Placeable(d)
      BY <3>2, <3>3 DEF Placeable, IsChart
    <3>5. Placeable(Replaced(c, t, rows, ks))
      BY <3>1, <3>3, <3>4
    <3>6. QED
      BY <3>5 DEF c
  <2> DEFINE p == Chart("pie", "table", {"dimension", "metric"})
             l == Chart("line", "dated", {"xAxis", "yAxis"})
             a == Replaced(r.chart, "pie", "table", {"dimension", "metric"})
             b == Replaced(r.chart, "line", "dated", {"xAxis", "yAxis"})
  <2>2. Placeable(p) /\ Placeable(l) /\ Placeable(a) /\ Placeable(b)
    BY <2>1, PlaceableParts
  <2>3. /\ getOrderValueDistribution(r) = validated([r EXCEPT !.chart = IF r.flat THEN @ ELSE a], p)
        /\ getOrderPeakTimes(r) = validated([r EXCEPT !.chart = IF r.flat THEN @ ELSE b], l)
    BY DEF getOrderValueDistribution, getOrderPeakTimes
  <2> HIDE DEF a, b, p, l
  <2>4. QED
    BY <1>2, <1>7, <2>2, <2>3, GetIs
<1>8. CASE g = "TransactionVolume"
  <2>1. Placeable(transformTransactionVolumeData(r.chart.points))
    BY VolumeFields DEF Placeable, Ready
  <2>2. Placeable(getTransactionVolume(r))
    <3> DEFINE v == transformTransactionVolumeData(r.chart.points)
               m == Chart("line", "table", {"xAxis", "yAxis"})
    <3>1. Placeable(v) /\ Placeable(m)
      BY <2>1, PlaceableParts
    <3>2. getTransactionVolume(r) \in {validateChartData(v), validateChartData(m)}
      BY DEF getTransactionVolume
    <3> HIDE DEF v, m
    <3>3. QED
      BY <3>1, <3>2, PlaceableKept
  <2>3. QED
    BY <1>8, <2>2, GetIs
<1>9. CASE g \in {"StockMovements", "TransactionMetrics", "TransactionPatterns", "TransactionClusters"}
  BY <1>1, <1>9, GetIs, PlaceableBody, PlaceableParts
     DEF getStockMovements, getTransactionMetrics, getTransactionPatterns, getTransactionClusters
<1>10. CASE g = "TransactionFlow"
  <2> DEFINE c == r.chart
             f == [k \in Keys |-> IF k \in {"source", "target", "value"} /\ c.key[k] = "none"
                                  THEN linkColumn(c.rows) ELSE c.key[k]]
             h == IF r.flat THEN f ELSE c.key
             ks == {"nodes", "source", "target", "value"}
             m == Linked(ks, chain(5))
             q == [r EXCEPT !.chart.key = h]
  <2>1. [r EXCEPT !.chart.key = IF r.flat THEN f ELSE @] = q
    OBVIOUS
  <2>2. getTransactionFlow(r) = rewrapped(q, m, ks)
    BY <2>1 DEF getTransactionFlow
  <2>3. DOMAIN h = Keys
    BY <1>3 DEF Placeable, IsChart
  <2> HIDE DEF h
  <2>4. q.chart = [r.chart EXCEPT !.key = h] /\ q.kind = r.kind /\ DOMAIN q = DOMAIN r
    BY <1>1 DEF IsResponse
  <2>5. Placeable([r.chart EXCEPT !.key = h])
    BY <1>3, <2>3 DEF Placeable, IsChart
  <2> HIDE DEF q, m
  <2>6. IsResponse(q)
    BY <1>1, <2>4, <2>5 DEF IsResponse
  <2>7. Placeable(m)
    BY PlaceableParts DEF m
  <2>8. QED
    BY <1>10, <2>2, <2>6, <2>7, GetIs, PlaceableBody
<1>11. CASE g \in {"RealTimeMetrics", "PerformanceTrends", "SystemHealth", "ResourceUtilization"}
  BY <1>11, GetIs, PlaceableParts
     DEF getRealTimeMetrics, getPerformanceTrends, getSystemHealth, getResourceUtilization
<1>12. CASE g \in Business
  <2>1. getHierarchicalData(r) = raw(r, Linked({"nodes", "source", "target", "value"}, Tree))
    BY DEF getHierarchicalData, Tree
  <2>2. QED
    BY <1>1, <1>12, <2>1, GetIs, PlaceableBody, PlaceableParts
       DEF Business, getFinancialAnalytics, getRevenueAnalysis, getForecastData, getTrendPredictions
<1>13. QED
  BY <1>4, <1>5, <1>6, <1>7, <1>8, <1>9, <1>10, <1>11, <1>12 DEF Getters, Business

-----------------------------------------------------------------------------
(* One chart: the effect, its timer and the picture.                       *)

\* The chart is what the getter made of the last answer.
ChartOK ==
    \/ response = NoAnswer("none") /\ chart = NoChart
    \/ response \in Responses(getter) /\ chart = Get(getter, response)

\* At most one timer is pending, and it was set for the chart at hand.
TimerOK ==
    \/ timers = <<>>
    \/ timers = <<chart>> /\ chart # NoChart /\ status = "loading"

\* A settled status is the outcome of the timer of the chart at hand.
SettledOK ==
    Settled => /\ status = "success" <=> CanDraw(chart)
               /\ status = "success" => shown = Drawing(chart)

\* The picture may be that of an earlier answer, but of an answer it is.
ShownOK ==
    \/ shown = Blank
    \/ \E r \in Responses(getter) :
          CanDraw(Get(getter, r)) /\ shown = Drawing(Get(getter, r))

\* Inductive.
IInv == getter \in Getters /\ ChartOK /\ TimerOK /\ SettledOK /\ ShownOK

\* An answer replaces the chart and, with it, the timer.
LEMMA ReceiveInv == ASSUME IInv, Receive PROVE IInv'
<1>1. PICK r \in Responses(getter) :
        /\ response' = r /\ chart' = Get(getter, r)
        /\ IF Get(getter, r) = NoChart
           THEN timers' = <<>> /\ status' = "idle" /\ shown' = Blank
           ELSE timers' = <<Get(getter, r)>> /\ status' = "loading" /\ UNCHANGED shown
  BY DEF Receive
<1>2. getter' = getter
  BY DEF Receive
<1>3. ChartOK'
  BY <1>1, <1>2 DEF ChartOK
<1>4. TimerOK'
  BY <1>1 DEF TimerOK
<1>5. SettledOK'
  BY <1>1 DEF SettledOK, Settled
<1>6. ShownOK'
  BY <1>1, <1>2 DEF ShownOK, IInv
<1>7. QED
  BY <1>2, <1>3, <1>4, <1>5, <1>6 DEF IInv

\* A timer that fires was set for the chart at hand.
LEMMA FireInv == ASSUME IInv, Fire PROVE IInv'
<1>1. /\ timers = <<chart>> /\ chart # NoChart
      /\ UNCHANGED <<getter, response, chart>>
  BY DEF Fire, IInv, TimerOK
<1>2. Head(timers) = chart /\ timers' = <<>>
  BY <1>1 DEF Fire
<1>3. IF CanDraw(chart) THEN status' = "success" /\ shown' = Drawing(chart)
                        ELSE status' = "error" /\ shown' \in {shown, Blank}
  <2>1. "none" \notin Drawable
    BY DEF Drawable
  <2>2. QED
    BY <1>2, <2>1 DEF Fire, CanDraw, Drawing
<1>4. response \in Responses(getter) /\ chart = Get(getter, response)
  BY <1>1 DEF IInv, ChartOK
<1>5. ChartOK'
  BY <1>1 DEF ChartOK, IInv
<1>6. TimerOK'
  BY <1>2 DEF TimerOK
<1>7. SettledOK'
  BY <1>1, <1>3 DEF SettledOK, Settled, CanDraw, Drawing
<1>8. ShownOK'
  <2>1. CASE CanDraw(chart)
    BY <1>1, <1>3, <1>4, <2>1 DEF ShownOK
  <2>2. CASE ~CanDraw(chart)
    BY <1>1, <1>3, <2>2 DEF ShownOK, IInv
  <2>3. QED
    BY <2>1, <2>2
<1>9. QED
  BY <1>1, <1>5, <1>6, <1>7, <1>8 DEF IInv

\* The invariant of one chart holds whatever its endpoint answers, and when.
THEOREM ChartsInvariance == ChartSpec => []IInv
<1>1. ChartInit => IInv
  BY DEF ChartInit, IInv, ChartOK, TimerOK, SettledOK, Settled, ShownOK
<1>2. IInv /\ [ChartNext]_chartVars => IInv'
  <2> SUFFICES ASSUME IInv, [ChartNext]_chartVars PROVE IInv'
    OBVIOUS
  <2>1. CASE Unmount
    BY <2>1 DEF Unmount, IInv, ChartOK, TimerOK, SettledOK, Settled, ShownOK
  <2>2. CASE UNCHANGED chartVars
    BY <2>2 DEF chartVars, IInv, ChartOK, TimerOK, SettledOK, Settled, ShownOK
  <2>3. QED
    BY <2>1, <2>2, ReceiveInv, FireInv DEF ChartNext
<1>3. QED
  BY <1>1, <1>2, PTL DEF ChartSpec

\* A success status is never shown over the picture of earlier data.
THEOREM AlwaysSuccessIsCurrent == ChartSpec => []SuccessIsCurrent
<1>1. IInv => SuccessIsCurrent
  BY DEF IInv, SettledOK, Settled, SuccessIsCurrent, Drawing
<1>2. QED
  BY <1>1, ChartsInvariance, PTL

-----------------------------------------------------------------------------
(* What the screen shows.                                                  *)

\* The kinds of response, apart from each other.
LEMMA ResponseKinds ==
    ASSUME NEW g \in Getters, NEW r \in Responses(g)
    PROVE  /\ r.kind = "error" => r = NoAnswer("error")
           /\ r.kind = "answer" /\ r.whole /\ r.chart.rows # "empty" =>
                \E c \in ServedCharts(g) : r = Answer(c, Flat(g), TRUE)
<1>1. CASE r \in {NoAnswer("error"), NoAnswer("empty")}
  <2>1. NoAnswer("error").kind = "error" /\ NoAnswer("empty").kind = "empty"
    BY DEF NoAnswer
  <2>2. QED
    BY <1>1, <2>1
<1>2. CASE \E c \in ServedCharts(g) : r = Answer(c, Flat(g), TRUE)
  <2>1. r.kind = "answer"
    BY <1>2 DEF Answer
  <2>2. QED
    BY <1>2, <2>1
<1>3. CASE r = Answer([Served[g] EXCEPT !.rows = "empty"], Flat(g), TRUE)
  <2> DEFINE c == [Served[g] EXCEPT !.rows = "empty"]
  <2>1. r.kind = "answer" /\ r.chart = c
    BY <1>3 DEF Answer
  <2>2. c.rows = "empty"
    BY ServedPlaceable DEF Placeable, IsChart
  <2>3. QED
    BY <2>1, <2>2
<1>4. CASE \E c \in ServedCharts(g), k \in Keys : r = Lacking(g, c, k)
  <2>1. PICK c \in ServedCharts(g), k \in Keys : r = Lacking(g, c, k)
    BY <1>4
  <2>2. r.kind = "answer" /\ r.whole = FALSE
    BY <2>1 DEF Lacking, Answer
  <2>3. QED
    BY <2>2
<1>5. QED
  BY <1>1, <1>2, <1>3, <1>4, ResponseCases

\* A response there was came from the endpoint of the chart at hand.
LEMMA ResponseOf ==
    ASSUME IInv, response.kind # "none"
    PROVE  response \in Responses(getter) /\ chart = Get(getter, response)
BY DEF IInv, ChartOK, NoAnswer

\* A drawn chart is shown as such once its timer has fired.
LEMMA DrawnIsShown ==
    ASSUME IInv, Settled, Drawn(chart)
    PROVE  status = "success" /\ shown.picture = "drawn"
BY DEF IInv, SettledOK, Drawn, Drawing

\* A failing endpoint always ends in the picture of its getter's mock data,
\* but for the financial chart.
THEOREM AlwaysFallbackDraws == ChartSpec => []FallbackDraws
<1>1. IInv => FallbackDraws
  <2> SUFFICES ASSUME IInv, Settled, response.kind = "error", getter # "FinancialAnalytics"
               PROVE  status = "success" /\ shown.picture = "drawn"
    BY DEF FallbackDraws
  <2>1. getter \in Getters /\ response \in Responses(getter) /\ chart = Get(getter, response)
    BY ResponseOf DEF IInv
  <2>2. response = NoAnswer("error")
    BY <2>1, ResponseKinds
  <2>3. Drawn(chart)
    BY <2>1, <2>2, FallbackDrawn
  <2>4. QED
    BY <2>3, DrawnIsShown
<1>2. QED
  BY <1>1, ChartsInvariance, PTL

\* What the server answers today is drawn, for every volume and number of paths.
THEOREM AlwaysLiveAnswerDraws == ChartSpec => []LiveAnswerDraws
<1>1. IInv => LiveAnswerDraws
  <2> SUFFICES ASSUME IInv, Settled, response.kind = "answer", response.whole,
                      response.chart.rows # "empty",
                      "stray" \notin Range(response.chart.key),
                      getter \notin Business,
                      ~(getter = "OrderFlow" /\ response.chart.rows = "single")
               PROVE  status = "success" /\ shown.picture = "drawn"
    BY DEF LiveAnswerDraws
  <2>1. getter \in Getters /\ response \in Responses(getter) /\ chart = Get(getter, response)
    BY ResponseOf DEF IInv
  <2>2. PICK c \in ServedCharts(getter) : response = Answer(c, Flat(getter), TRUE)
    BY <2>1, ResponseKinds
  <2>3. response.chart = c
    BY <2>2 DEF Answer
  <2>4. Drawn(Get(getter, Answer(c, Flat(getter), TRUE)))
    BY <2>1, <2>3, LiveDrawn
  <2>5. QED
    BY <2>1, <2>2, <2>4, DrawnIsShown
<1>2. QED
  BY <1>1, ChartsInvariance, PTL

\* Every link of a sankey diagram on the screen leads to a later layer, whatever
\* the number of its paths.
THEOREM AlwaysSankeyPlaced == ChartSpec => []SankeyPlaced
<1>1. IInv => SankeyPlaced
  <2> SUFFICES ASSUME IInv, shown.picture = "drawn"
               PROVE  shown.of.links = {} \/ WellPlaced(shown.of.links)
    BY DEF SankeyPlaced, WellPlaced
  <2>1. shown # Blank
    BY DEF Blank
  <2>2. PICK r \in Responses(getter) : shown = Drawing(Get(getter, r))
    BY <2>1 DEF IInv, ShownOK
  <2>3. Placeable(Get(getter, r))
    BY GetPlaceable DEF IInv
  <2>4. QED
    BY <2>2, <2>3 DEF Drawing, Placeable
<1>2. QED
  BY <1>1, ChartsInvariance, PTL

\* The counts of an answer with rows are counts the endpoint can send.
LEMMA AnsweredVolume ==
    ASSUME NEW r \in Responses("TransactionVolume"), r.kind = "answer", r.chart.rows # "empty"
    PROVE  IsVolume(r.chart.points)
<1> DEFINE g == "TransactionVolume"
<1>1. g \in Getters
  BY DEF Getters
<1>2. ASSUME NEW c \in ServedCharts(g) PROVE IsChart(c) /\ IsVolume(c.points)
  <2>1. PICK v \in Volumes : c = [Served[g] EXCEPT !.points = v]
    BY <1>1, <1>2, ServedChartsAre
  <2>2. IsChart(Served[g])
    BY <1>1, ServedPlaceable DEF Placeable
  <2>3. IsChart(c) /\ c.points = v
    BY <2>1, <2>2 DEF IsChart
  <2>4. QED
    BY <2>3, ChartsAssumption DEF IsVolume
<1>3. CASE r \in {NoAnswer("error"), NoAnswer("empty")}
  <2>1. NoAnswer("error").kind = "error" /\ NoAnswer("empty").kind = "empty"
    BY DEF NoAnswer
  <2>2. QED
    BY <1>3, <2>1
<1>4. CASE \E c \in ServedCharts(g) : r = Answer(c, Flat(g), TRUE)
  <2>1. PICK c \in ServedCharts(g) : r = Answer(c, Flat(g), TRUE)
    BY <1>4
  <2>2. r.chart = c
    BY <2>1 DEF Answer
  <2>3. QED
    BY <1>2, <2>2
<1>5. CASE r = Answer([Served[g] EXCEPT !.rows = "empty"], Flat(g), TRUE)
  <2> DEFINE c == [Served[g] EXCEPT !.rows = "empty"]
  <2>1. r.chart = c
    BY <1>5 DEF Answer
  <2>2. c.rows = "empty"
    BY <1>1, ServedPlaceable DEF Placeable, IsChart
  <2>3. QED
    BY <2>1, <2>2
<1>6. CASE \E c \in ServedCharts(g), k \in Keys : r = Lacking(g, c, k)
  <2>1. PICK c \in ServedCharts(g), k \in Keys : r = Lacking(g, c, k)
    BY <1>6
  <2>2. r.chart = [c EXCEPT !.key[k] = "none"]
    BY <2>1 DEF Lacking, Answer
  <2>3. IsChart(c) /\ IsVolume(c.points)
    BY <1>2
  <2>4. r.chart.points = c.points
    BY <2>2, <2>3 DEF IsChart
  <2>5. QED
    BY <2>3, <2>4
<1>7. QED
  BY <1>3, <1>4, <1>5, <1>6, ResponseCases

\* No transaction is lost or counted twice, however many hours the endpoint
\* counts and in whatever order it sends them, and the periods are in order.
THEOREM AlwaysVolumeConserved == ChartSpec => []VolumeConserved
<1>1. IInv => VolumeConserved
  <2> DEFINE points == response.chart.points
             sorted == inTimeOrder(points)
             c == transformTransactionVolumeData(points)
  <2> SUFFICES ASSUME IInv, getter = "TransactionVolume", response.kind = "answer",
                      response.chart.rows # "empty"
               PROVE  /\ Total(chart.points) = Total(points)
                      /\ \A i, j \in DOMAIN chart.points :
                            i < j => chart.points[i][1] < chart.points[j][1]
    BY DEF VolumeConserved
  <2>1. response \in Responses(getter) /\ chart = Get("TransactionVolume", response)
    BY ResponseOf
  <2>2. chart = validateChartData(c)
    BY <2>1, GetIs DEF getTransactionVolume
  <2> HIDE DEF c
  <2>3. IsChart(c) /\ c.points = aggregateTimeSeries(sorted, aggregationPeriod(sorted))
    BY VolumeFields DEF Ready, c
  <2>4. chart.points = aggregateTimeSeries(sorted, aggregationPeriod(sorted))
    BY <2>2, <2>3, ValidateKeeps DEF SameRows
  <2>5. IsVolume(points)
    BY <2>1, AnsweredVolume
  <2> HIDE DEF points
  <2>6. IsVolume(sorted) /\ Total(sorted) = Total(points)
    BY <2>5, TimeOrdered
  <2> HIDE DEF sorted
  <2>7. Length(aggregationPeriod(sorted)) \in Nat \ {0}
    BY PeriodLength
  <2>8. QED
    BY <2>4, <2>6, <2>7, Aggregated
<1>2. QED
  BY <1>1, ChartsInvariance, PTL

-----------------------------------------------------------------------------
(* The pages, and the requests of the mounted one.                          *)

\* Between two views nothing is left of the first.
Cleared ==
    view = "none" => /\ calls = {} /\ answered = {} /\ filled = {}
                     /\ models = FALSE /\ generated = {}

\* On an analytics page every getter has answered or is in flight, and the
\* panels are set together, by the last answer.
PageOK ==
    view \in AnalyticsPages =>
        /\ answered \subseteq Analytics[view]
        /\ \A c \in calls : c.op \in Analytics[view]
        /\ \A g \in Analytics[view] : g \in answered \/ \E c \in calls : c.op = g
        /\ filled = IF answered = Analytics[view] THEN answered ELSE {}

\* The first page of predictions is the only request until it is answered:
\* models are requested after it, and predictions after models.
FirstPageFirst ==
    /\ view \in AIPages
    /\ \E c \in calls : c.op = "getPredictions"
    => calls = {Call("getPredictions", 0)} /\ models = FALSE /\ generated = {}

\* A request is in flight that the loading flag is for.
LoadingFor(cs) == \E c \in cs : c.op # "generatePrediction"

LoadingOK == loading = FALSE \/ LoadingFor(calls)

\* Inductive.
PagesIInv ==
    /\ TypeOK /\ Cleared /\ PageOK
    /\ FirstPageFirst /\ LoadingOK /\ GeneratedStays /\ PageOK

-----------------------------------------------------------------------------
(* Names *)

\* The kinds of views are disjoint.
LEMMA ViewKinds ==
    /\ AnalyticsPages = {"inventory", "orders", "transactions", "performance", "business"}
    /\ DOMAIN Hooks = {"useInventory", "useOrders", "useShipping", "usePayments", "useCustomers"}
    /\ AIPages = {"ai", "predictions"}
<1>1. AnalyticsPages = {"inventory", "orders", "transactions", "performance", "business"}
  BY DEF AnalyticsPages, Analytics
<1>2. DOMAIN Hooks = {"useInventory", "useOrders", "useShipping", "usePayments", "useCustomers"}
  BY DEF Hooks
<1>3. QED
  BY <1>1, <1>2 DEF AIPages

\* An operation of a hook or of a page is neither a prediction's nor a model's.
AIOps == {"getPredictions", "getModels", "generatePrediction"}

\* Every operation that a view starts is a known one.
LEMMA OpNames ==
    /\ \A h \in DOMAIN Hooks : \A op \in Hooks[h] : op \in Ops /\ op \notin AIOps
    /\ \A p \in AnalyticsPages : \A op \in Analytics[p] : op \in Ops /\ op \notin AIOps
    /\ \A p \in AnalyticsPages : Analytics[p] # {}
    /\ "RealTimeMetrics" \in Ops
    /\ AIOps \subseteq Ops
<1>1. \A h \in DOMAIN Hooks : Hooks[h] \subseteq Ops
  BY DEF Ops
<1>2. \A p \in AnalyticsPages : Analytics[p] \subseteq Ops
  BY DEF Ops
<1>3. \A h \in DOMAIN Hooks : \A op \in Hooks[h] : op \notin AIOps
  <2>1. /\ Hooks["useInventory"] = useInventory /\ Hooks["useOrders"] = useOrders
        /\ Hooks["useShipping"] = useShipping /\ Hooks["usePayments"] = usePayments
        /\ Hooks["useCustomers"] = useCustomers
    BY DEF Hooks
  <2>2. \A op \in useInventory \cup useOrders \cup useShipping \cup usePayments \cup useCustomers :
           op \notin AIOps
    BY DEF useInventory, useOrders, useShipping, usePayments, useCustomers, AIOps
  <2>3. QED
    BY <2>1, <2>2, ViewKinds
<1>4. /\ Analytics["inventory"] = inventoryPage /\ Analytics["orders"] = ordersPage
      /\ Analytics["transactions"] = transactionsPage
      /\ Analytics["performance"] = performancePage /\ Analytics["business"] = businessPage
  BY DEF Analytics
<1>5. \A p \in AnalyticsPages : Analytics[p] # {} /\ \A op \in Analytics[p] : op \notin AIOps
  <2>1. \A op \in inventoryPage \cup ordersPage \cup transactionsPage \cup performancePage
                    \cup businessPage : op \notin AIOps
    BY DEF inventoryPage, ordersPage, transactionsPage, performancePage, businessPage, AIOps
  <2>2. /\ inventoryPage # {} /\ ordersPage # {} /\ transactionsPage # {}
        /\ performancePage # {} /\ businessPage # {}
    BY DEF inventoryPage, ordersPage, transactionsPage, performancePage, businessPage
  <2>3. QED
    BY <1>4, <2>1, <2>2, ViewKinds
<1>6. "RealTimeMetrics" \in Ops
  <2>1. "RealTimeMetrics" \in Analytics["performance"]
    BY <1>4 DEF performancePage
  <2>2. QED
    BY <1>2, <2>1, ViewKinds
<1>7. AIOps \subseteq Ops
  BY DEF AIOps, Ops
<1>8. QED
  BY <1>1, <1>2, <1>3, <1>5, <1>6, <1>7

\* Numbers of requests.
LEMMA StartsBound ==
    0 \in 0..MaxStarts /\ \A k \in 0..MaxStarts : k < MaxStarts => k + 1 \in 0..MaxStarts
BY PagesAssumption

\* LoadingOK is what the flag promises.
LEMMA LoadingIff == loading \in BOOLEAN => (LoadingOK <=> IdleNotLoading)
<1>1. {c \in calls : c.op # "generatePrediction"} = {} <=> ~LoadingFor(calls)
  BY Zenon DEF LoadingFor
<1>2. QED
  BY <1>1 DEF IdleNotLoading, LoadingOK

-----------------------------------------------------------------------------
(* Every step keeps the invariant *)

\* The requests a view starts when it is mounted.
LEMMA FirstCalls ==
    ASSUME NEW v \in Views, Open(v)
    PROVE  /\ \A c \in calls' : c.op \in Ops /\ c.n = 0 /\ c.op # "generatePrediction"
           /\ v \notin DOMAIN Hooks => calls' # {}
           /\ v \in AIPages => calls' = {Call("getPredictions", 0)}
           /\ v \in AnalyticsPages =>
                /\ \A c \in calls' : c.op \in Analytics[v]
                /\ \A g \in Analytics[v] : \E c \in calls' : c.op = g
<1>1. CASE v \in AnalyticsPages
  <2>1. calls' = {Call(g, 0) : g \in Analytics[v]}
    BY <1>1, ViewKinds DEF Open
  <2>2. v \notin AIPages
    BY <1>1, ViewKinds
  <2>3. Analytics[v] # {} /\ \A g \in Analytics[v] : g \in Ops /\ g # "generatePrediction"
    BY <1>1, OpNames DEF AIOps
  <2>4. calls' # {}
    BY <2>1, <2>3
  <2>5. \A c \in calls' : c.op \in Ops /\ c.n = 0 /\ c.op # "generatePrediction"
    <3>1. TAKE c \in calls'
    <3>2. PICK g \in Analytics[v] : c = Call(g, 0)
      BY <2>1
    <3>3. QED
      BY <2>3, <3>2 DEF Call
  <2>6. \A c \in calls' : c.op \in Analytics[v]
    BY <2>1 DEF Call
  <2>7. \A g \in Analytics[v] : \E c \in calls' : c.op = g
    <3> TAKE g \in Analytics[v]
    <3>1. Call(g, 0) \in calls'
      BY <2>1
    <3>2. Call(g, 0).op = g
      BY DEF Call
    <3>3. QED
      BY <3>1, <3>2
  <2>8. QED
    BY <2>2, <2>4, <2>5, <2>6, <2>7
<1>2. CASE v = "realtime"
  <2>1. calls' = {Call("RealTimeMetrics", 0)}
    BY <1>2, ViewKinds DEF Open
  <2>2. QED
    BY <1>2, <2>1, OpNames, ViewKinds DEF Call
<1>3. CASE v \in AIPages
  <2>1. calls' = {Call("getPredictions", 0)}
    BY <1>3, ViewKinds DEF Open
  <2>2. QED
    BY <1>3, <2>1, OpNames, ViewKinds DEF Call, AIOps
<1>4. CASE v \in DOMAIN Hooks
  <2>1. calls' = {}
    BY <1>4, ViewKinds DEF Open
  <2>2. QED
    BY <1>4, <2>1, ViewKinds
<1>5. QED
  BY <1>1, <1>2, <1>3, <1>4 DEF Views

\* Mounting.
LEMMA OpenInv == ASSUME PagesIInv, NEW v \in Views, Open(v) PROVE PagesIInv'
<1>1. /\ view = "none" /\ view' = v /\ v # "none"
      /\ UNCHANGED <<starts, error, answered, filled, predictions, models, generated>>
      /\ loading' \in BOOLEAN
  BY ViewKinds DEF Open, Views
<1>2. models' = FALSE /\ generated' = {} /\ answered' = {} /\ filled' = {}
  BY <1>1 DEF PagesIInv, Cleared
<1>3. intervals' = (IF view' = "realtime" THEN 1 ELSE 0)
  BY <1>1 DEF Open, PagesIInv, TypeOK
<1>4. TypeOK'
  BY <1>1, <1>3, FirstCalls, StartsBound DEF PagesIInv, TypeOK
<1>5. Cleared' /\ GeneratedStays'
  BY <1>1, <1>2 DEF Cleared, GeneratedStays
<1>6. FirstPageFirst'
  BY <1>1, <1>2, FirstCalls DEF FirstPageFirst
<1>7. LoadingOK'
  <2>1. CASE v \in DOMAIN Hooks
    BY <2>1 DEF Open, LoadingOK
  <2>2. CASE v \notin DOMAIN Hooks
    BY <2>2, FirstCalls DEF LoadingOK, LoadingFor
  <2>3. QED
    BY <2>1, <2>2
<1>8. PageOK'
  <2>1. v \in AnalyticsPages => Analytics[v] # {}
    BY OpNames
  <2>2. QED
    BY <1>1, <1>2, <2>1, FirstCalls DEF PageOK
<1>9. QED
  BY <1>1, <1>4, <1>5, <1>6, <1>7, <1>8 DEF PagesIInv

\* Leaving.
LEMMA LeaveInv == ASSUME PagesIInv, Leave PROVE PagesIInv'
<1>1. TypeOK'
  BY StartsBound DEF Leave, TypeOK
<1>2. QED
  BY <1>1, ViewKinds
  DEF Leave, PagesIInv, Cleared, PageOK, FirstPageFirst, LoadingOK, GeneratedStays

\* An answer of an analytics page, of the panel or of a hook ends the loading
\* state; none of these views has predictions.
LEMMA PlainAnswer ==
    ASSUME PagesIInv, NEW c \in calls, AnswerGetter(c) \/ AnswerRefresh(c) \/ AnswerHook(c)
    PROVE  PagesIInv'
<1>1. /\ view' = view /\ view # "none" /\ view \notin AIPages
      /\ calls' = calls \ {c} /\ loading' = FALSE
      /\ UNCHANGED <<starts, intervals, predictions, models, generated>>
  BY ViewKinds DEF AnswerGetter, AnswerRefresh, AnswerHook
<1>2. error' \in Ops \cup {"none"} /\ answered' \subseteq Ops /\ filled' \subseteq Ops
  BY DEF AnswerGetter, AnswerRefresh, AnswerHook, PagesIInv, TypeOK
<1>3. TypeOK'
  BY <1>1, <1>2 DEF PagesIInv, TypeOK
<1>4. PageOK'
  <2> SUFFICES ASSUME view \in AnalyticsPages PROVE PageOK'
    BY <1>1 DEF PageOK
  <2> DEFINE G == Analytics[view]
  <2>1. /\ answered' = answered \cup {c.op}
        /\ filled' = IF answered' = G THEN answered' ELSE filled
    BY ViewKinds DEF AnswerGetter, AnswerRefresh, AnswerHook
  <2>2. /\ answered \subseteq G /\ \A d \in calls : d.op \in G
        /\ \A g \in G : g \in answered \/ \E d \in calls : d.op = g
        /\ filled = IF answered = G THEN answered ELSE {}
    BY DEF PagesIInv, PageOK
  <2> HIDE DEF G
  <2>3. /\ answered' \subseteq G /\ \A d \in calls' : d.op \in G
        /\ filled' = IF answered' = G THEN answered' ELSE {}
    BY <1>1, <2>1, <2>2
  <2>4. \A g \in G : g \in answered' \/ \E d \in calls' : d.op = g
    BY <1>1, <2>1, <2>2
  <2>5. QED
    BY <1>1, <2>3, <2>4 DEF PageOK, G
<1>5. QED
  BY <1>1, <1>3, <1>4, ViewKinds DEF PagesIInv, Cleared, FirstPageFirst, LoadingOK, GeneratedStays

\* A refresh of the panel or an operation of a hook starts.
LEMMA PlainStart ==
    ASSUME PagesIInv, Refresh \/ \E op : Start(op)
    PROVE  PagesIInv'
<1>1. /\ view' = view /\ view # "none" /\ view \notin AIPages \cup AnalyticsPages
      /\ starts < MaxStarts /\ starts' = starts + 1
      /\ UNCHANGED <<intervals, answered, filled, predictions, models, generated>>
      /\ loading' = TRUE /\ error' \in {error, "none"}
  BY ViewKinds DEF Refresh, Start
<1>2. \E op \in Ops \ AIOps : calls' = calls \cup {Call(op, starts')}
  <2>1. CASE Refresh
    <3>1. "RealTimeMetrics" \in Ops \ AIOps
      BY OpNames DEF AIOps
    <3>2. QED
      BY <2>1, <3>1 DEF Refresh
  <2>2. ASSUME NEW op, Start(op) PROVE \E o \in Ops \ AIOps : calls' = calls \cup {Call(o, starts')}
    BY <2>2, OpNames DEF Start
  <2>3. QED
    BY <2>1, <2>2
<1>3. PICK op \in Ops \ AIOps : calls' = calls \cup {Call(op, starts')}
  BY <1>2
<1>4. Call(op, starts').op = op /\ Call(op, starts').n = starts' /\ starts' \in 0..MaxStarts
  BY <1>1, StartsBound DEF Call, PagesIInv, TypeOK
<1>5. \A c \in calls' : c.op \in Ops /\ c.n \in 0..MaxStarts
  BY <1>3, <1>4 DEF PagesIInv, TypeOK
<1>6. TypeOK'
  BY <1>1, <1>4, <1>5 DEF PagesIInv, TypeOK
<1>7. LoadingFor(calls')
  BY <1>3, <1>4 DEF LoadingFor, AIOps
<1>8. QED
  BY <1>1, <1>6, <1>7, ViewKinds DEF PagesIInv, Cleared, PageOK, FirstPageFirst, LoadingOK, GeneratedStays

\* The first page of predictions arrives, or fails.
LEMMA PredictionsInv ==
    ASSUME PagesIInv, NEW c \in calls, AnswerPredictions(c)
    PROVE  PagesIInv'
<1>1. /\ view' = view /\ view \in AIPages /\ c.op = "getPredictions"
      /\ UNCHANGED <<starts, answered, filled, intervals, models, generated>>
  BY DEF AnswerPredictions
<1>2. /\ calls = {Call("getPredictions", 0)} /\ models = FALSE /\ generated = {}
      /\ calls \ {c} = {}
  BY <1>1 DEF PagesIInv, FirstPageFirst
<1>3. CASE predictions' = {0} /\ calls' = {Call("getModels", 0)} /\ UNCHANGED <<loading, error>>
  <2>1. Call("getModels", 0).op = "getModels" /\ Call("getModels", 0).n = 0
    BY DEF Call
  <2>2. TypeOK'
    BY <1>1, <1>3, <2>1, StartsBound, OpNames DEF PagesIInv, TypeOK, AIOps
  <2>3. FirstPageFirst' /\ LoadingOK'
    BY <1>3, <2>1 DEF FirstPageFirst, LoadingOK, LoadingFor
  <2>4. QED
    BY <1>1, <1>2, <2>2, <2>3, ViewKinds DEF PagesIInv, Cleared, PageOK, GeneratedStays
<1>4. CASE error' = "getPredictions" /\ loading' = FALSE /\ calls' = {} /\ UNCHANGED predictions
  <2>1. TypeOK'
    BY <1>1, <1>4, OpNames DEF PagesIInv, TypeOK, AIOps
  <2>2. QED
    BY <1>1, <1>2, <1>4, <2>1, ViewKinds
    DEF PagesIInv, Cleared, PageOK, FirstPageFirst, LoadingOK, GeneratedStays
<1>5. QED
  BY <1>2, <1>3, <1>4 DEF AnswerPredictions

\* The models arrive, or fail: no first page is awaited any more.
LEMMA ModelsInv ==
    ASSUME PagesIInv, NEW c \in calls, AnswerModels(c)
    PROVE  PagesIInv'
<1>1. /\ view' = view /\ view \in AIPages /\ c.op = "getModels"
      /\ calls' = calls \ {c} /\ loading' = FALSE
      /\ UNCHANGED <<starts, answered, filled, intervals, predictions, generated>>
  BY DEF AnswerModels
<1>2. models' \in BOOLEAN /\ error' \in Ops \cup {"none"}
  BY OpNames DEF AnswerModels, PagesIInv, TypeOK, AIOps
<1>3. \A d \in calls : d.op # "getPredictions"
  <2>1. Call("getPredictions", 0).op = "getPredictions"
    BY DEF Call
  <2>2. QED
    BY <1>1, <2>1 DEF PagesIInv, FirstPageFirst
<1>4. TypeOK'
  BY <1>1, <1>2 DEF PagesIInv, TypeOK
<1>5. QED
  BY <1>1, <1>3, <1>4, ViewKinds DEF PagesIInv, Cleared, PageOK, FirstPageFirst, LoadingOK, GeneratedStays

\* A prediction is requested: models are loaded, so the first page is.
LEMMA GenerateInv == ASSUME PagesIInv, Generate PROVE PagesIInv'
<1>1. /\ view' = view /\ view = "predictions" /\ starts < MaxStarts /\ starts' = starts + 1
      /\ models = TRUE /\ loading = FALSE
      /\ calls' = calls \cup {Call("generatePrediction", starts')}
      /\ UNCHANGED <<loading, error, answered, filled, intervals, predictions, models, generated>>
  BY DEF Generate, PagesIInv, TypeOK
<1>2. /\ Call("generatePrediction", starts').op = "generatePrediction"
      /\ Call("generatePrediction", starts').n = starts' /\ starts' \in 0..MaxStarts
  BY <1>1, StartsBound DEF Call, PagesIInv, TypeOK
<1>3. \A d \in calls : d.op # "getPredictions"
  BY <1>1, ViewKinds DEF PagesIInv, FirstPageFirst
<1>4. TypeOK'
  BY <1>1, <1>2, OpNames DEF PagesIInv, TypeOK, AIOps
<1>5. FirstPageFirst'
  BY <1>1, <1>2, <1>3 DEF FirstPageFirst
<1>6. QED
  BY <1>1, <1>4, <1>5, ViewKinds DEF PagesIInv, Cleared, PageOK, LoadingOK, GeneratedStays

\* The service has generated a prediction, or failed.
LEMMA AnswerGenerateInv ==
    ASSUME PagesIInv, NEW c \in calls, AnswerGenerate(c)
    PROVE  PagesIInv'
<1>1. /\ view' = view /\ view = "predictions" /\ c.op = "generatePrediction"
      /\ calls' = calls \ {c}
      /\ UNCHANGED <<starts, loading, answered, filled, intervals, models>>
  BY DEF AnswerGenerate
<1>2. /\ predictions' \subseteq 0..MaxStarts /\ error' \in Ops \cup {"none"}
      /\ generated' \subseteq predictions'
  BY <1>1, OpNames DEF AnswerGenerate, PagesIInv, TypeOK, GeneratedStays, AIOps
<1>3. \A d \in calls : d.op # "getPredictions"
  <2>1. Call("getPredictions", 0).op = "getPredictions"
    BY DEF Call
  <2>2. QED
    BY <1>1, <2>1, ViewKinds DEF PagesIInv, FirstPageFirst
<1>4. TypeOK'
  BY <1>1, <1>2 DEF PagesIInv, TypeOK
<1>5. LoadingOK'
  BY <1>1 DEF PagesIInv, LoadingOK, LoadingFor
<1>6. QED
  BY <1>1, <1>2, <1>3, <1>4, <1>5, ViewKinds DEF PagesIInv, Cleared, PageOK, FirstPageFirst, GeneratedStays

\* Every step of every view keeps the invariant.
LEMMA PagesNextInv == PagesIInv /\ [Next]_vars => PagesIInv'
<1> SUFFICES ASSUME PagesIInv, [Next]_vars PROVE PagesIInv'
  OBVIOUS
<1>1. CASE UNCHANGED vars
  BY <1>1 DEF vars, PagesIInv, TypeOK, Cleared, PageOK, FirstPageFirst, LoadingOK, GeneratedStays
<1>2. ASSUME NEW c \in calls, AnswerCall(c) PROVE PagesIInv'
  BY <1>2, PlainAnswer, PredictionsInv, ModelsInv, AnswerGenerateInv DEF AnswerCall
<1>3. QED
  BY <1>1, <1>2, OpenInv, LeaveInv, PlainStart, GenerateInv DEF Next

\* The inductive invariant holds whatever views are opened and left.
THEOREM PagesInvariance == Spec => []PagesIInv
<1>1. Init => PagesIInv
  <2>1. ASSUME Init PROVE TypeOK
    BY <2>1, StartsBound DEF Init, TypeOK
  <2>2. QED
    BY <2>1, ViewKinds DEF Init, PagesIInv, Cleared, PageOK, FirstPageFirst, LoadingOK, GeneratedStays
<1>2. QED
  BY <1>1, PagesNextInv, PTL DEF Spec

\* The state of every view keeps its type, and the panel's interval exists
\* exactly while the panel is mounted, for any number of refreshes.
THEOREM PagesTypeCorrect == Spec => []TypeOK
<1>1. PagesIInv => TypeOK
  BY DEF PagesIInv
<1>2. QED
  BY <1>1, PagesInvariance, PTL

\* No view keeps its loading state when all its requests have ended, whichever
\* concurrent ones failed and in whichever order they ended.
THEOREM AlwaysIdleNotLoading == Spec => []IdleNotLoading
<1>1. PagesIInv => IdleNotLoading
  BY LoadingIff DEF PagesIInv, TypeOK
<1>2. QED
  BY <1>1, PagesInvariance, PTL

\* A generated prediction is never overwritten by the first page.
THEOREM AlwaysGeneratedStays == Spec => []GeneratedStays
<1>1. PagesIInv => GeneratedStays
  BY DEF PagesIInv
<1>2. QED
  BY <1>1, PagesInvariance, PTL

\* An analytics page sets none of its panels or all, and has set all of them
\* when no request is in flight: what PageFills says short of liveness.
PageWhole ==
    view \in AnalyticsPages =>
        /\ filled \in {{}, Analytics[view]}
        /\ calls = {} => filled = Analytics[view]

\* Whichever getters fail and in whichever order they end, no page is left with
\* some of its panels.
THEOREM AlwaysPageWhole == Spec => []PageWhole
<1>1. PagesIInv => PageWhole
  <2> SUFFICES ASSUME PagesIInv, view \in AnalyticsPages
               PROVE  /\ filled \in {{}, Analytics[view]}
                      /\ calls = {} => filled = Analytics[view]
    BY DEF PageWhole
  <2>1. /\ answered \subseteq Analytics[view]
        /\ \A g \in Analytics[view] : g \in answered \/ \E c \in calls : c.op = g
        /\ filled = IF answered = Analytics[view] THEN answered ELSE {}
    BY DEF PagesIInv, PageOK
  <2> DEFINE G == Analytics[view]
  <2>2. calls = {} => answered = G
    BY <2>1
  <2>3. filled \in {{}, G} /\ (answered = G => filled = G)
    <3> HIDE DEF G
    <3>1. filled = IF answered = G THEN answered ELSE {}
      BY <2>1 DEF G
    <3>2. QED
      BY <3>1
  <2>4. QED
    BY <2>2, <2>3
<1>2. QED
  BY <1>1, PagesInvariance, PTL

\* Every panel of an analytics page is fetched by a getter of Charts.
LEMMA PanelGetters == \A p \in AnalyticsPages : Analytics[p] \subseteq Getters
<1>1. /\ Analytics["inventory"] = inventoryPage /\ Analytics["orders"] = ordersPage
      /\ Analytics["transactions"] = transactionsPage
      /\ Analytics["performance"] = performancePage
      /\ Analytics["business"] = businessPage
  BY DEF Analytics
<1>2. inventoryPage \subseteq Getters /\ ordersPage \subseteq Getters
  BY DEF inventoryPage, ordersPage, Getters
<1>3. transactionsPage \subseteq Getters
  BY DEF transactionsPage, Getters
<1>4. performancePage \subseteq Getters /\ businessPage \subseteq Getters
  BY DEF performancePage, businessPage, Getters
<1>5. QED
  BY <1>1, <1>2, <1>3, <1>4, ViewKinds

\* An analytics page whose requests have ended has data in every panel, and the
\* mock data that stand in for a failed endpoint are drawn there, in every panel
\* but that of the financial chart.
PanelsDraw ==
    view \in AnalyticsPages /\ calls = {} =>
        \A g \in Analytics[view] :
            g \in filled /\ (g # "FinancialAnalytics" => Drawn(Get(g, NoAnswer("error"))))

\* With the whole engine down, no panel of any analytics page stays empty, the
\* financial chart of the business page excepted.
THEOREM AlwaysPanelsDraw == Spec => []PanelsDraw
<1>1. PageWhole => PanelsDraw
  BY PanelGetters, FallbackDrawn DEF PageWhole, PanelsDraw
<1>2. QED
  BY <1>1, AlwaysPageWhole, PTL
=============================================================================
