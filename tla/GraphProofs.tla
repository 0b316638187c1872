------------------------------ MODULE GraphProofs ------------------------------
(***************************************************************************)
(* Facts about Graph that the proofs of both routing programs share.  The  *)
(* cost of a shortest path is stated twice in Graph: as the largest        *)
(* estimate from below, which needs no recursion, and by the textbook, as  *)
(* the cheapest walk of at most NumNodes - 1 edges.  WithinIsShortest says *)
(* that these are the same.                                                *)
(***************************************************************************)
EXTENDS Graph, FiniteSetTheorems, WellFoundedInduction, TLAPS

\* The bounds are positive numbers.
LEMMA Sizes == NumNodes \in Nat \ {0} /\ INF \in Nat \ {0}
BY GraphAssumption

\* The nodes are numbers.
LEMMA NodeRange == \A n : n \in Node <=> n \in Nat /\ 1 <= n /\ n <= NumNodes
BY Sizes DEF Node

-----------------------------------------------------------------------------
(* Sets of numbers.                                                        *)

\* A nonempty set of numbers has a smallest one, which is its Cheapest.
LEMMA CheapestFact ==
  ASSUME NEW S, S \subseteq Nat, S # {}
  PROVE  Cheapest(S) \in S /\ \A b \in S : Cheapest(S) <= b
<1> DEFINE R == OpToRel(<, Nat)
<1>1. IsWellFoundedOn(R, Nat)
  BY NatLessThanWellFounded
<1>2. \A x, y \in Nat : x < y => <<x, y>> \in R
  BY DEF OpToRel
<1> HIDE DEF R
<1>3. PICK x \in S : \A y \in S : ~ (<<y, x>> \in R)
  BY <1>1, WFMin
<1>4. \A b \in S : x <= b
  <2> TAKE b \in S
  <2>1. x \in Nat /\ b \in Nat /\ ~ (b < x)
    BY <1>2, <1>3
  <2> QED
    BY <2>1
<1> QED
  BY <1>3, <1>4 DEF Cheapest

\* A set that has 0, and with every number the next, has all numbers.
LEMMA Induction ==
  ASSUME NEW S, 0 \in S, \A n \in Nat : n \in S => n + 1 \in S
  PROVE  \A n \in Nat : n \in S
<1> DEFINE T == {n \in Nat : n \notin S}
<1> SUFFICES ASSUME T # {} PROVE FALSE
  OBVIOUS
<1>1. PICK c : c \in T /\ \A b \in T : c <= b
  BY CheapestFact
<1>2. c \in Nat /\ c \notin S /\ c # 0
  BY <1>1
<1>3. c - 1 \in Nat /\ ~ (c <= c - 1) /\ (c - 1) + 1 = c
  BY <1>2
<1>4. c - 1 \in S
  BY <1>1, <1>3
<1>5. (c - 1) + 1 \in S
  BY <1>3, <1>4
<1> QED
  BY <1>2, <1>3, <1>5

-----------------------------------------------------------------------------
(* Within is what its definition says.                                     *)

\* The first n + 1 values of Within.
IsChain(f, n) ==
  f = [k \in 0..n |-> IF k = 0 THEN NoEdges ELSE OneEdgeMore(f[k - 1])]

\* There are chains of any length, ...
LEMMA ChainExists == \A n \in Nat : \E f : IsChain(f, n)
<1> DEFINE S == {n \in Nat : \E f : IsChain(f, n)}
<1>1. 0 \in S
  <2> DEFINE f == [k \in 0..0 |-> NoEdges]
  <2>1. f = [k \in 0..0 |-> IF k = 0 THEN NoEdges ELSE OneEdgeMore(f[k - 1])]
    OBVIOUS
  <2>2. IsChain(f, 0)
    BY <2>1 DEF IsChain
  <2> QED
    BY <2>2
<1>2. ASSUME NEW n \in Nat, n \in S PROVE n + 1 \in S
  <2>1. PICK f : IsChain(f, n)
    BY <1>2
  <2>2. f = [k \in 0..n |-> IF k = 0 THEN NoEdges ELSE OneEdgeMore(f[k - 1])]
    BY <2>1 DEF IsChain
  <2>3. \A k \in 0..n : f[k] = IF k = 0 THEN NoEdges ELSE OneEdgeMore(f[k - 1])
    BY <2>2
  <2> DEFINE g == [k \in 0..(n + 1) |-> IF k = n + 1 THEN OneEdgeMore(f[n]) ELSE f[k]]
  <2>4. ASSUME NEW k \in 0..(n + 1)
        PROVE  g[k] = IF k = 0 THEN NoEdges ELSE OneEdgeMore(g[k - 1])
    <3>1. CASE k = n + 1
      <4>1. k # 0 /\ k - 1 = n /\ n \in 0..(n + 1) /\ n # n + 1
        BY <3>1
      <4>2. g[k - 1] = f[n] /\ g[k] = OneEdgeMore(f[n])
        BY <3>1, <4>1
      <4> QED
        BY <4>1, <4>2
    <3>2. CASE k # n + 1 /\ k # 0
      <4>1. k \in 0..n /\ k - 1 \in 0..(n + 1) /\ k - 1 # n + 1
        BY <3>2
      <4>2. g[k] = f[k] /\ g[k - 1] = f[k - 1]
        BY <3>2, <4>1
      <4> QED
        BY <2>3, <3>2, <4>1, <4>2
    <3>3. CASE k = 0
      <4>1. k # n + 1 /\ k \in 0..n
        BY <3>3
      <4> QED
        BY <2>3, <3>3, <4>1
    <3> QED
      BY <3>1, <3>2, <3>3
  <2>5. g = [k \in 0..(n + 1) |-> g[k]]
    OBVIOUS
  <2> HIDE DEF g
  <2>6. IsChain(g, n + 1)
    BY <2>4, <2>5 DEF IsChain
  <2> QED
    BY <2>6
<1> HIDE DEF S
<1>3. \A n \in Nat : n \in S
  BY <1>1, <1>2, Induction
<1> QED
  BY <1>3 DEF S

\* ... and what they have in common is the same.
LEMMA ChainsAgree ==
  ASSUME NEW f, NEW g, NEW m \in Nat, NEW n \in Nat, m <= n, IsChain(f, m), IsChain(g, n)
  PROVE  \A k \in 0..m : f[k] = g[k]
<1> DEFINE S == {k \in Nat : k <= m => f[k] = g[k]}
<1>1. \A k \in 0..m : f[k] = IF k = 0 THEN NoEdges ELSE OneEdgeMore(f[k - 1])
  <2>1. f = [k \in 0..m |-> IF k = 0 THEN NoEdges ELSE OneEdgeMore(f[k - 1])]
    BY DEF IsChain
  <2> QED
    BY <2>1
<1>2. \A k \in 0..n : g[k] = IF k = 0 THEN NoEdges ELSE OneEdgeMore(g[k - 1])
  <2>1. g = [k \in 0..n |-> IF k = 0 THEN NoEdges ELSE OneEdgeMore(g[k - 1])]
    BY DEF IsChain
  <2> QED
    BY <2>1
<1>3. 0 \in S
  BY <1>1, <1>2
<1>4. ASSUME NEW k \in Nat, k \in S PROVE k + 1 \in S
  <2> SUFFICES ASSUME k + 1 <= m PROVE f[k + 1] = g[k + 1]
    OBVIOUS
  <2>1. f[k] = g[k]
    BY <1>4
  <2>2. k + 1 \in 0..m /\ k + 1 \in 0..n /\ k + 1 # 0 /\ (k + 1) - 1 = k
    OBVIOUS
  <2>3. f[k + 1] = OneEdgeMore(f[k]) /\ g[k + 1] = OneEdgeMore(g[k])
    BY <1>1, <1>2, <2>2
  <2> QED
    BY <2>1, <2>3
<1> HIDE DEF S
<1>5. \A k \in Nat : k \in S
  BY <1>3, <1>4, Induction
<1> QED
  BY <1>5 DEF S

\* The recursion of Within.
LEMMA WithinFact ==
  /\ Within[0] = NoEdges
  /\ \A k \in Nat : Within[k + 1] = OneEdgeMore(Within[k])
<1> DEFINE chain(n) == CHOOSE f : IsChain(f, n)
           w == [n \in Nat |-> chain(n)[n]]
<1>1. \A n \in Nat : IsChain(chain(n), n)
  BY ChainExists
<1> HIDE DEF chain
<1>2. ASSUME NEW n \in Nat
      PROVE  \A k \in 0..n : chain(n)[k] = IF k = 0 THEN NoEdges ELSE OneEdgeMore(chain(n)[k - 1])
  <2>1. chain(n) = [k \in 0..n |-> IF k = 0 THEN NoEdges ELSE OneEdgeMore(chain(n)[k - 1])]
    BY <1>1 DEF IsChain
  <2> QED
    BY <2>1
<1>3. ASSUME NEW n \in Nat
      PROVE  w[n] = IF n = 0 THEN NoEdges ELSE OneEdgeMore(w[n - 1])
  <2>1. w[n] = IF n = 0 THEN NoEdges ELSE OneEdgeMore(chain(n)[n - 1])
    BY <1>2
  <2>2. CASE n # 0
    <3>1. n - 1 \in Nat /\ n - 1 <= n /\ n - 1 \in 0..(n - 1)
      BY <2>2
    <3>2. IsChain(chain(n - 1), n - 1) /\ IsChain(chain(n), n)
      BY <1>1, <3>1
    <3>3. chain(n - 1)[n - 1] = chain(n)[n - 1]
      BY <3>1, <3>2, ChainsAgree
    <3> QED
      BY <2>1, <2>2, <3>1, <3>3
  <2> QED
    BY <2>1, <2>2
<1>4. w = [n \in Nat |-> w[n]]
  OBVIOUS
<1> HIDE DEF w
<1>5. w = [k \in Nat |-> IF k = 0 THEN NoEdges ELSE OneEdgeMore(w[k - 1])]
  BY <1>3, <1>4
<1>6. Within = [k \in Nat |-> IF k = 0 THEN NoEdges ELSE OneEdgeMore(Within[k - 1])]
  BY <1>5 DEF Within
<1>7. \A k \in Nat : Within[k] = IF k = 0 THEN NoEdges ELSE OneEdgeMore(Within[k - 1])
  BY <1>6
<1>8. ASSUME NEW k \in Nat PROVE Within[k + 1] = OneEdgeMore(Within[k])
  <2>1. k + 1 \in Nat /\ k + 1 # 0 /\ (k + 1) - 1 = k
    OBVIOUS
  <2> QED
    BY <1>7, <2>1
<1> QED
  BY <1>7, <1>8

-----------------------------------------------------------------------------
(* The walks.                                                              *)

Matrices == [Node -> [Node -> 0..INF]]

\* What is left of the definition once the set is gone.
LEMMA OneEdgeMoreFact ==
  ASSUME edge \in Matrices, NEW w \in Matrices, NEW i \in Node, NEW d \in Node
  PROVE  LET c == OneEdgeMore(w)[i][d]
         IN  /\ c \in 0..INF
             /\ c <= w[i][d]
             /\ \A n \in Node : edge[i][n] < INF => c <= edge[i][n] + w[n][d]
<1> USE Sizes
<1> DEFINE S == {w[i][d]} \cup {edge[i][n] + w[n][d] : n \in {m \in Node : edge[i][m] < INF}}
           c == Cheapest(S)
<1>1. \A n \in Node : edge[i][n] \in 0..INF /\ w[n][d] \in 0..INF
  BY DEF Matrices
<1>2. w[i][d] \in 0..INF /\ w[i][d] \in S
  BY <1>1
<1>3. \A n \in Node : edge[i][n] < INF => edge[i][n] + w[n][d] \in S
  OBVIOUS
<1>4. S \subseteq Nat
  BY <1>1, <1>2
<1>5. OneEdgeMore(w)[i][d] = c
  BY DEF OneEdgeMore
<1> HIDE DEF S
<1>6. c \in S /\ \A b \in S : c <= b
  BY <1>2, <1>4, CheapestFact
<1>7. c \in Nat /\ c <= w[i][d]
  BY <1>2, <1>4, <1>6
<1> HIDE DEF c
<1>8. c \in 0..INF
  BY <1>2, <1>7
<1>9. \A n \in Node : edge[i][n] < INF => c <= edge[i][n] + w[n][d]
  <2> SUFFICES ASSUME NEW n \in Node, edge[i][n] < INF PROVE c <= edge[i][n] + w[n][d]
    OBVIOUS
  <2>1. edge[i][n] + w[n][d] \in S
    BY <1>3
  <2> QED
    BY <1>6, <2>1 DEF c
<1> QED
  BY <1>5, <1>7, <1>8, <1>9

\* Another edge is no better than an estimate that the walks so far are not.
LEMMA OneEdgeMoreIsLeast ==
  ASSUME edge \in Matrices, NEW w \in Matrices, NEW i \in Node, NEW d \in Node, NEW x \in Nat,
         x <= w[i][d], \A n \in Node : edge[i][n] < INF => x <= edge[i][n] + w[n][d]
  PROVE  x <= OneEdgeMore(w)[i][d]
<1> USE Sizes
<1> DEFINE S == {w[i][d]} \cup {edge[i][n] + w[n][d] : n \in {m \in Node : edge[i][m] < INF}}
<1>1. \A n \in Node : edge[i][n] \in 0..INF /\ w[n][d] \in 0..INF
  BY DEF Matrices
<1>2. S # {} /\ S \subseteq Nat
  BY <1>1
<1>3. \A b \in S : x <= b
  OBVIOUS
<1>4. OneEdgeMore(w)[i][d] = Cheapest(S)
  BY DEF OneEdgeMore
<1> HIDE DEF S
<1>5. Cheapest(S) \in S
  BY <1>2, CheapestFact
<1> QED
  BY <1>3, <1>4, <1>5

\* The walks of each length have costs of 0..INF.
LEMMA WithinType ==
  ASSUME edge \in Matrices
  PROVE  \A k \in Nat : Within[k] \in Matrices
<1> DEFINE S == {k \in Nat : Within[k] \in Matrices}
<1>1. 0 \in S
  BY WithinFact, Sizes DEF NoEdges, Matrices
<1>2. ASSUME NEW k \in Nat, k \in S PROVE k + 1 \in S
  <2>1. Within[k] \in Matrices
    BY <1>2
  <2>2. \A i, d \in Node : OneEdgeMore(Within[k])[i][d] \in 0..INF
    BY <2>1, OneEdgeMoreFact
  <2>3. OneEdgeMore(Within[k])
          = [i \in Node |-> [d \in Node |-> OneEdgeMore(Within[k])[i][d]]]
    BY DEF OneEdgeMore
  <2>4. OneEdgeMore(Within[k]) \in Matrices
    BY <2>2, <2>3 DEF Matrices
  <2> QED
    BY <2>4, WithinFact
<1> HIDE DEF S
<1>3. \A k \in Nat : k \in S
  BY <1>1, <1>2, Induction
<1> QED
  BY <1>3 DEF S

\* The walks of k + 1 edges are a walk of k edges and an edge in front of it.
LEMMA WithinStep ==
  ASSUME edge \in Matrices, NEW k \in Nat, NEW i \in Node, NEW d \in Node
  PROVE  /\ Within[k][i][d] \in 0..INF
         /\ Within[k + 1][i][d] \in 0..INF
         /\ Within[k + 1][i][d] <= Within[k][i][d]
         /\ \A n \in Node : /\ Within[k][n][d] \in 0..INF
                            /\ edge[i][n] < INF =>
                                 Within[k + 1][i][d] <= edge[i][n] + Within[k][n][d]
<1>1. Within[k] \in Matrices /\ Within[k + 1] \in Matrices
  BY WithinType
<1>2. Within[k + 1] = OneEdgeMore(Within[k])
  BY WithinFact
<1>3. \A x \in Node : Within[k][x][d] \in 0..INF /\ Within[k + 1][x][d] \in 0..INF
  BY <1>1 DEF Matrices
<1> QED
  BY <1>1, <1>2, <1>3, OneEdgeMoreFact

\* No walk is cheaper than an estimate from below.
LEMMA WalksCostTheEstimate ==
  ASSUME edge \in Matrices, NEW d \in Node, NEW p \in [Node -> 0..INF], Estimate(p, d)
  PROVE  \A k \in Nat : \A i \in Node : p[i] <= Within[k][i][d]
<1> USE Sizes
<1> DEFINE S == {k \in Nat : \A i \in Node : p[i] <= Within[k][i][d]}
<1>1. \A i \in Node : p[i] \in 0..INF
  OBVIOUS
<1>2. 0 \in S
  <2>1. \A i \in Node : Within[0][i][d] = IF i = d THEN 0 ELSE INF
    BY WithinFact DEF NoEdges
  <2>2. p[d] = 0
    BY DEF Estimate
  <2> QED
    BY <1>1, <2>1, <2>2
<1>3. ASSUME NEW k \in Nat, k \in S PROVE k + 1 \in S
  <2> SUFFICES ASSUME NEW i \in Node PROVE p[i] <= Within[k + 1][i][d]
    OBVIOUS
  <2>1. Within[k] \in Matrices
    BY WithinType
  <2>2. p[i] <= Within[k][i][d]
    BY <1>3
  <2>3. ASSUME NEW n \in Node, edge[i][n] < INF PROVE p[i] <= edge[i][n] + Within[k][n][d]
    <3>1. p[i] <= edge[i][n] + p[n]
      BY <2>3 DEF Estimate
    <3>2. p[n] <= Within[k][n][d]
      BY <1>3
    <3>3. edge[i][n] \in 0..INF /\ Within[k][n][d] \in 0..INF
      BY <2>1 DEF Matrices
    <3> QED
      BY <1>1, <3>1, <3>2, <3>3
  <2>4. p[i] \in Nat
    BY <1>1
  <2>5. p[i] <= OneEdgeMore(Within[k])[i][d]
    BY <2>1, <2>2, <2>3, <2>4, OneEdgeMoreIsLeast
  <2> QED
    BY <2>5, WithinFact
<1> HIDE DEF S
<1>4. \A k \in Nat : k \in S
  BY <1>2, <1>3, Induction
<1> QED
  BY <1>4 DEF S

-----------------------------------------------------------------------------
(* Walks of any length, and how many edges they need.                      *)

Least(d) == [i \in Node |-> Cheapest({Within[k][i][d] : k \in Nat})]

\* Least is a lower bound of the walks, and is the cost of one of them.
LEMMA LeastFact ==
  ASSUME edge \in Matrices, NEW d \in Node
  PROVE  /\ Least(d) \in [Node -> 0..INF]
         /\ \A i \in Node, k \in Nat : Least(d)[i] <= Within[k][i][d]
         /\ \A i \in Node : \E k \in Nat : Least(d)[i] = Within[k][i][d]
<1> USE Sizes
<1>1. ASSUME NEW i \in Node
      PROVE  /\ Least(d)[i] \in 0..INF
             /\ \A k \in Nat : Least(d)[i] <= Within[k][i][d]
             /\ \E k \in Nat : Least(d)[i] = Within[k][i][d]
  <2> DEFINE S == {Within[k][i][d] : k \in Nat}
  <2>1. \A k \in Nat : Within[k][i][d] \in 0..INF
    BY WithinStep
  <2>2. S # {}
    <3>1. Within[0][i][d] \in S
      OBVIOUS
    <3> QED
      BY <3>1
  <2>3. S \subseteq 0..INF /\ S \subseteq Nat
    BY <2>1
  <2>4. \A k \in Nat : Within[k][i][d] \in S
    OBVIOUS
  <2>5. \A x \in S : \E k \in Nat : x = Within[k][i][d]
    OBVIOUS
  <2>6. Least(d)[i] = Cheapest(S)
    BY DEF Least
  <2> HIDE DEF S
  <2>7. Cheapest(S) \in S /\ \A b \in S : Cheapest(S) <= b
    BY <2>2, <2>3, CheapestFact
  <2> QED
    BY <2>3, <2>4, <2>5, <2>6, <2>7
<1>2. Least(d) = [i \in Node |-> Least(d)[i]]
  BY DEF Least
<1>3. Least(d) \in [Node -> 0..INF]
  BY <1>1, <1>2
<1> QED
  BY <1>1, <1>3

\* The cheapest walks of any length are an estimate from below, the largest.
LEMMA LeastIsEstimate ==
  ASSUME edge \in Matrices, NEW d \in Node
  PROVE  /\ Estimate(Least(d), d)
         /\ \A p \in [Node -> 0..INF] : Estimate(p, d) => \A i \in Node : p[i] <= Least(d)[i]
<1> USE Sizes
<1>1. \A i \in Node : Least(d)[i] \in 0..INF
  BY LeastFact
<1>2. Least(d)[d] = 0
  <2>1. Within[0][d][d] = 0
    BY WithinFact DEF NoEdges
  <2>2. Least(d)[d] <= Within[0][d][d]
    BY LeastFact
  <2> QED
    BY <1>1, <2>1, <2>2
<1>3. ASSUME NEW i \in Node, NEW n \in Node, edge[i][n] < INF
      PROVE  Least(d)[i] <= edge[i][n] + Least(d)[n]
  <2>1. PICK k \in Nat : Least(d)[n] = Within[k][n][d]
    BY LeastFact
  <2>2. Within[k + 1][i][d] <= edge[i][n] + Within[k][n][d]
    BY <1>3, WithinStep
  <2>3. Least(d)[i] <= Within[k + 1][i][d]
    BY LeastFact
  <2>4. /\ Within[k + 1][i][d] \in 0..INF /\ Within[k][n][d] \in 0..INF
        /\ edge[i][n] \in 0..INF
    BY WithinStep DEF Matrices
  <2> QED
    BY <1>1, <2>1, <2>2, <2>3, <2>4
<1>4. ASSUME NEW p \in [Node -> 0..INF], Estimate(p, d), NEW i \in Node
      PROVE  p[i] <= Least(d)[i]
  <2>1. PICK k \in Nat : Least(d)[i] = Within[k][i][d]
    BY LeastFact
  <2> QED
    BY <1>4, <2>1, WalksCostTheEstimate
<1> QED
  BY <1>2, <1>3, <1>4 DEF Estimate

\* The nodes that need no more than k edges.
Exact(k, d) == {i \in Node : Within[k][i][d] = Least(d)[i]}

\* As long as some nodes need more edges, one of them needs just one more.
LEMMA OneNodeMore ==
  ASSUME edge \in Matrices, NEW d \in Node, NEW k \in Nat
  PROVE  /\ Exact(k, d) \subseteq Exact(k + 1, d)
         /\ Exact(k, d) # Node => Exact(k + 1, d) # Exact(k, d)
<1> USE Sizes
<1>1. \A i \in Node : /\ Least(d)[i] \in 0..INF
                      /\ Least(d)[i] <= Within[k][i][d]
                      /\ Least(d)[i] <= Within[k + 1][i][d]
  BY LeastFact
<1>2. \A i \in Node : /\ Within[k][i][d] \in 0..INF
                      /\ Within[k + 1][i][d] \in 0..INF
                      /\ Within[k + 1][i][d] <= Within[k][i][d]
  BY WithinStep
<1>3. Exact(k, d) \subseteq Exact(k + 1, d)
  BY <1>1, <1>2 DEF Exact
<1>4. ASSUME Exact(k + 1, d) = Exact(k, d), NEW j \in Node, j \notin Exact(k, d)
      PROVE  FALSE
  <2> DEFINE p == [i \in Node |-> IF i \in Exact(k, d) THEN Least(d)[i] ELSE Least(d)[i] + 1]
  <2>1. ASSUME NEW i \in Node
        PROVE  /\ i \in Exact(k, d) => p[i] = Least(d)[i] /\ Least(d)[i] = Within[k][i][d]
               /\ i \notin Exact(k, d) => /\ p[i] = Least(d)[i] + 1
                                          /\ Least(d)[i] < Within[k][i][d]
                                          /\ Least(d)[i] < Within[k + 1][i][d]
    BY <1>1, <1>2, <1>4 DEF Exact
  <2>2. p = [i \in Node |-> p[i]]
    OBVIOUS
  <2> HIDE DEF p
  <2>3. \A i \in Node : p[i] \in 0..INF
    BY <1>1, <1>2, <2>1
  <2>4. p \in [Node -> 0..INF]
    BY <2>2, <2>3
  <2>5. d \in Exact(k, d)
    <3>1. Within[k][d][d] <= Within[0][d][d]
      <4> DEFINE S == {n \in Nat : Within[n][d][d] <= Within[0][d][d]}
      <4>1. \A n \in Nat : /\ Within[n][d][d] \in 0..INF
                           /\ Within[n + 1][d][d] <= Within[n][d][d]
                           /\ Within[n + 1][d][d] \in 0..INF
        BY WithinStep
      <4>2. 0 \in S
        BY <4>1
      <4>3. ASSUME NEW n \in Nat, n \in S PROVE n + 1 \in S
        <5>1. Within[0][d][d] \in 0..INF
          BY <4>1
        <5>2. Within[n][d][d] <= Within[0][d][d]
          BY <4>3
        <5> QED
          BY <4>1, <5>1, <5>2
      <4> HIDE DEF S
      <4>4. k \in S
        BY <4>2, <4>3, Induction
      <4> QED
        BY <4>4 DEF S
    <3>2. Within[0][d][d] = 0
      BY WithinFact DEF NoEdges
    <3> QED
      BY <1>1, <1>2, <3>1, <3>2 DEF Exact
  <2>6. ASSUME NEW i \in Node, NEW n \in Node, edge[i][n] < INF
        PROVE  p[i] <= edge[i][n] + p[n]
    <3>1. Least(d)[i] <= edge[i][n] + Least(d)[n]
      BY <2>6, LeastIsEstimate DEF Estimate
    <3>2. Within[k + 1][i][d] <= edge[i][n] + Within[k][n][d]
      BY <2>6, WithinStep
    <3>3. edge[i][n] \in 0..INF
      BY DEF Matrices
    <3>4. /\ Least(d)[i] \in Nat /\ Least(d)[n] \in Nat
          /\ Within[k + 1][i][d] \in Nat /\ Within[k][n][d] \in Nat
      BY <1>1, <1>2
    <3>5. CASE i \in Exact(k, d)
      BY <2>1, <3>1, <3>3, <3>4, <3>5
    <3>6. CASE i \notin Exact(k, d) /\ n \notin Exact(k, d)
      BY <2>1, <3>1, <3>3, <3>4, <3>6
    <3>7. CASE i \notin Exact(k, d) /\ n \in Exact(k, d)
      BY <2>1, <3>2, <3>3, <3>4, <3>7
    <3> QED
      BY <3>5, <3>6, <3>7
  <2>7. p[d] = 0
    BY <2>1, <2>5, LeastIsEstimate DEF Estimate
  <2>8. Estimate(p, d)
    BY <2>6, <2>7 DEF Estimate
  <2>9. p[j] <= Least(d)[j]
    BY <2>4, <2>8, LeastIsEstimate
  <2> QED
    BY <1>1, <1>4, <2>1, <2>9
<1>5. Exact(k, d) \subseteq Node
  BY DEF Exact
<1> QED
  BY <1>3, <1>4, <1>5

\* Walks of k edges suffice for more than k nodes, or for all.
LEMMA ExactNodes ==
  ASSUME edge \in Matrices, NEW d \in Node
  PROVE  \A k \in Nat : Exact(k, d) = Node \/ Cardinality(Exact(k, d)) > k
<1> USE Sizes
<1> DEFINE S == {k \in Nat : Exact(k, d) = Node \/ Cardinality(Exact(k, d)) > k}
<1>1. IsFiniteSet(Node)
  BY FS_Interval DEF Node
<1>2. \A k \in Nat : Exact(k, d) \subseteq Node
  BY DEF Exact
<1>3. \A k \in Nat : IsFiniteSet(Exact(k, d))
  BY <1>1, <1>2, FS_Subset
<1>4. \A k \in Nat : Cardinality(Exact(k, d)) \in Nat
  BY <1>3, FS_CardinalityType
<1>5. 0 \in S
  <2>1. Least(d)[d] = 0 /\ Within[0][d][d] = 0
    BY LeastIsEstimate, WithinFact DEF Estimate, NoEdges
  <2>2. Exact(0, d) # {}
    BY <2>1 DEF Exact
  <2>3. Cardinality(Exact(0, d)) # 0
    BY <1>3, <2>2, FS_EmptySet
  <2> QED
    BY <1>4, <2>3
<1>6. ASSUME NEW k \in Nat, k \in S PROVE k + 1 \in S
  <2>1. /\ Exact(k, d) \subseteq Exact(k + 1, d)
        /\ Exact(k, d) # Node => Exact(k + 1, d) # Exact(k, d)
    BY OneNodeMore
  <2>2. CASE Exact(k, d) = Node
    BY <1>2, <2>1, <2>2
  <2>3. CASE Exact(k, d) # Node
    <3>1. Cardinality(Exact(k, d)) > k
      BY <1>6, <2>3
    <3>2. IsFiniteSet(Exact(k + 1, d)) /\ Cardinality(Exact(k + 1, d)) \in Nat
          /\ Cardinality(Exact(k, d)) \in Nat
      BY <1>3, <1>4
    <3>3. Cardinality(Exact(k, d)) < Cardinality(Exact(k + 1, d))
      BY <2>1, <2>3, <3>2, FS_Subset
    <3> QED
      BY <3>1, <3>2, <3>3
  <2> QED
    BY <2>2, <2>3
<1> HIDE DEF S
<1>7. \A k \in Nat : k \in S
  BY <1>5, <1>6, Induction
<1> QED
  BY <1>7 DEF S

-----------------------------------------------------------------------------
\* The cheapest walks of at most NumNodes - 1 edges are the largest estimate from
\* below: the two definitions of the cost of a shortest path say the same.
THEOREM WithinIsShortest ==
  ASSUME edge \in [Node -> [Node -> 0..INF]], NEW d \in Node
  PROVE  LET w == [i \in Node |-> Within[NumNodes - 1][i][d]]
         IN  /\ w \in [Node -> 0..INF]
             /\ Estimate(w, d)
             /\ \A p \in [Node -> 0..INF] : Estimate(p, d) => \A i \in Node : p[i] <= w[i]
<1> USE Sizes
<1> DEFINE w == [i \in Node |-> Within[NumNodes - 1][i][d]]
<1>1. edge \in Matrices
  BY DEF Matrices
<1>2. NumNodes - 1 \in Nat
  OBVIOUS
<1>3. Exact(NumNodes - 1, d) = Node
  <2>1. Exact(NumNodes - 1, d) \subseteq Node
    BY DEF Exact
  <2>2. IsFiniteSet(Node)
    BY FS_Interval DEF Node
  <2>3. ASSUME Exact(NumNodes - 1, d) # Node PROVE FALSE
    <3>1. Cardinality(Exact(NumNodes - 1, d)) > NumNodes - 1
      BY <1>1, <1>2, <2>3, ExactNodes
    <3>2. Cardinality(Exact(NumNodes - 1, d)) <= Cardinality(Node)
          /\ Cardinality(Exact(NumNodes - 1, d)) # Cardinality(Node)
      BY <2>1, <2>2, <2>3, FS_Subset
    <3>3. Cardinality(Exact(NumNodes - 1, d)) \in Nat
      BY <2>1, <2>2, FS_Subset, FS_CardinalityType
    <3>4. Cardinality(Node) = NumNodes
      BY FS_Interval DEF Node
    <3> DEFINE c == Cardinality(Exact(NumNodes - 1, d))
    <3>5. c \in Nat /\ c > NumNodes - 1 /\ c <= NumNodes /\ c # NumNodes
      BY ONLY <3>1, <3>2, <3>3, <3>4
    <3> HIDE DEF c
    <3> QED
      BY <3>5
  <2> QED
    BY <2>3
<1>4. \A i \in Node : w[i] = Least(d)[i]
  BY <1>3 DEF Exact
<1>5. Least(d) \in [Node -> 0..INF]
  BY <1>1, LeastFact
<1>6. w = Least(d)
  BY <1>4, <1>5
<1> HIDE DEF w
<1>7. /\ w \in [Node -> 0..INF]
      /\ Estimate(w, d)
      /\ \A p \in [Node -> 0..INF] : Estimate(p, d) => \A i \in Node : p[i] <= w[i]
  BY <1>1, <1>5, <1>6, LeastIsEstimate
<1> QED
  BY <1>7 DEF w
================================================================================
