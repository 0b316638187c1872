-------------------------- MODULE DistanceVectorProofs --------------------------
(***************************************************************************)
(* Proofs about DistanceVector, for every number of nodes, every topology, *)
(* every list of messages and every sequence of changes.                   *)
(*                                                                         *)
(* RoundOK is the reason why a round without a change may end the search:  *)
(* the nodes it has passed are settled.  RouteOK is the reason why next    *)
(* hops fit the distances although they are set at different times: the    *)
(* distance of a next hop only falls, until the tables are cleared.        *)
(***************************************************************************)
EXTENDS DistanceVector, GraphProofs, WellFoundedInduction, TLAPS

Settled(i) == \A d \in Node : ~ Improves(i, d)

DiagonalOK == \A i \in Node : edge[i][i] = 0 /\ dist[i][i] = 0

RoundOK ==
  IF stage = "routes"
  THEN ~ change_flag => \A i \in Node : i < node => Settled(i)
  ELSE node = 1 /\ \A i \in Node : Settled(i)

RouteOK ==
  \A i, d \in Node :
    i # d /\ dist[i][d] < INF =>
      /\ nexthop[i][d] \in Neighbors(i)
      /\ edge[i][nexthop[i][d]] + dist[nexthop[i][d]][d] <= dist[i][d]

ForwardOK ==
  stage = "forward" =>
    /\ source \in Node
    /\ destination \in Node
    /\ dist[source][destination] < INF
    /\ CostOfPath

TablesOK == DiagonalOK /\ NeverTooShort /\ RouteOK

IInv == TypeOK /\ TablesOK /\ RoundOK /\ ForwardOK

-----------------------------------------------------------------------------
\* A set of nodes that is not empty has a last one.
LEMMA LastIsMember ==
  ASSUME NEW S, S \subseteq Node, S # {}
  PROVE  Last(S) \in S
<1> USE Sizes
<1> DEFINE R == OpToRel(<, Nat)
           T == {NumNodes - n : n \in S}
<1>1. IsWellFoundedOn(R, Nat)
  BY NatLessThanWellFounded
<1>2. T \subseteq Nat /\ T # {}
  <2>1. \A n \in S : NumNodes - n \in Nat
    BY DEF Node
  <2>2. T # {}
    OBVIOUS
  <2> QED
    BY <2>1, <2>2
<1>3. \A x, y \in Nat : x < y => <<x, y>> \in R
  BY DEF OpToRel
<1> HIDE DEF R
<1>4. PICK x \in T : \A y \in T : ~ (<<y, x>> \in R)
  BY <1>1, <1>2, WFMin
<1>5. PICK n \in S : x = NumNodes - n
  OBVIOUS
<1>6. \A m \in S : m <= n
  <2> TAKE m \in S
  <2>1. NumNodes - m \in T /\ NumNodes - m \in Nat /\ x \in Nat
    BY <1>2
  <2>2. ~ (NumNodes - m < x)
    BY <1>3, <1>4, <2>1
  <2> QED
    BY <1>5, <2>2 DEF Node
<1> QED
  BY <1>5, <1>6 DEF Last

\* The entries of the tables.
LEMMA Entries ==
  ASSUME TypeOK
  PROVE  /\ \A i, d \in Node : /\ edge[i][d] \in 0..INF
                               /\ dist[i][d] \in 0..INF
                               /\ nexthop[i][d] \in 0..NumNodes
         /\ \A i, n, d \in Node : new_dist(i, n, d) \in Nat
<1>1. \A i, d \in Node : /\ edge[i][d] \in 0..INF
                         /\ dist[i][d] \in 0..INF
                         /\ nexthop[i][d] \in 0..NumNodes
  BY DEF TypeOK
<1>2. \A i, n, d \in Node : new_dist(i, n, d) \in Nat
  BY <1>1, Sizes DEF new_dist
<1> QED
  BY <1>1, <1>2

\* A route has a next hop.
LEMMA HasNextHop ==
  ASSUME TypeOK, NEW i \in Node, NEW d \in Node, dist[i][d] < INF
  PROVE  nexthop[i][d] \in Node
<1>1. nexthop[i][d] \in 0..NumNodes /\ nexthop[i][d] # 0
  BY Sizes DEF TypeOK
<1> QED
  BY <1>1, Sizes DEF Node

\* The update of a node, entry by entry: a route that improves is the one by
\* some better neighbor.
LEMMA UpdateOfNode ==
  ASSUME TypeOK, NEW i \in Node, set_vector_DV(i)
  PROVE  /\ dist' \in [Node -> [Node -> 0..INF]]
         /\ nexthop' \in [Node -> [Node -> 0..NumNodes]]
         /\ \A a, d \in Node :
              \/ /\ dist'[a][d] = dist[a][d]
                 /\ nexthop'[a][d] = nexthop[a][d]
                 /\ a = i => ~ Improves(i, d)
              \/ /\ a = i
                 /\ d # i
                 /\ nexthop'[a][d] \in Better(i, d)
                 /\ dist'[a][d] = new_dist(i, nexthop'[a][d], d)
<1> USE Sizes
<1> DEFINE best(d) == Last(Better(i, d))
<1>1. \A d \in Node : Better(i, d) \subseteq Node
  BY DEF Better, Neighbors
<1>2. \A d \in Node : Improves(i, d) => d # i /\ best(d) \in Better(i, d)
  BY <1>1, LastIsMember DEF Improves
<1>3. \A d \in Node : Improves(i, d) => best(d) \in Node /\ new_dist(i, best(d), d) \in 0..INF
  <2> TAKE d \in Node
  <2> HAVE Improves(i, d)
  <2>1. best(d) \in Better(i, d) /\ best(d) \in Node
    BY <1>1, <1>2
  <2>2. \A n \in Better(i, d) : new_dist(i, n, d) < INF
    BY DEF Better
  <2>3. new_dist(i, best(d), d) \in Nat
    BY <2>1, Entries
  <2>4. new_dist(i, best(d), d) < INF
    BY <2>1, <2>2
  <2> QED
    BY <2>1, <2>3, <2>4
<1> DEFINE D == [d \in Node |-> IF Improves(i, d) THEN new_dist(i, best(d), d) ELSE dist[i][d]]
           N == [d \in Node |-> IF Improves(i, d) THEN best(d) ELSE nexthop[i][d]]
<1>4. dist' = [dist EXCEPT ![i] = D] /\ nexthop' = [nexthop EXCEPT ![i] = N]
  BY DEF set_vector_DV
<1>5. D \in [Node -> 0..INF] /\ N \in [Node -> 0..NumNodes]
  BY <1>3, Entries DEF Node
<1>6. \A d \in Node :
        \/ D[d] = dist[i][d] /\ N[d] = nexthop[i][d] /\ ~ Improves(i, d)
        \/ d # i /\ N[d] \in Better(i, d) /\ D[d] = new_dist(i, N[d], d)
  BY <1>2
<1> HIDE DEF D, N, best
<1>7. dist \in [Node -> [Node -> 0..INF]] /\ nexthop \in [Node -> [Node -> 0..NumNodes]]
  BY DEF TypeOK
<1>8. \A a \in Node : /\ dist'[a] = IF a = i THEN D ELSE dist[a]
                      /\ nexthop'[a] = IF a = i THEN N ELSE nexthop[a]
  BY <1>4, <1>7
<1>9. dist' \in [Node -> [Node -> 0..INF]] /\ nexthop' \in [Node -> [Node -> 0..NumNodes]]
  BY <1>4, <1>5, <1>7
<1> QED
  BY <1>6, <1>8, <1>9
\* Tables that hold the edges, as parsing and clearing leave them, are not
\* too short.
LEMMA EdgesAreNotTooShort ==
  ASSUME \A i, d \in Node : edge[i][d] \in 0..INF /\ dist[i][d] = edge[i][d]
  PROVE  NeverTooShort
<1> USE Sizes
<1> SUFFICES ASSUME NEW d \in Node, NEW p \in [Node -> 0..INF], Estimate(p, d),
                    NEW i \in Node
             PROVE  p[i] <= dist[i][d]
  BY DEF NeverTooShort
<1>1. edge[i][d] < INF => p[i] <= edge[i][d] + p[d]
  BY DEF Estimate
<1>2. p[d] = 0 /\ p[i] \in 0..INF
  BY DEF Estimate
<1> QED
  BY <1>1, <1>2

-----------------------------------------------------------------------------
\* The initial states satisfy the invariant.
LEMMA InitInv == Init => IInv
<1> SUFFICES ASSUME Init PROVE IInv
  OBVIOUS
<1> USE Sizes
<1>0. PICK named \in SUBSET Links : \E cost \in [named -> LinkCosts] :
        /\ edge = [i \in Node |-> [j \in Node |->
                    IF i = j THEN 0 ELSE IF {i, j} \in named THEN cost[{i, j}] ELSE INF]]
        /\ nexthop = Direct(named)
  BY DEF Init, GraphInit
<1>1. PICK cost \in [named -> LinkCosts] :
        /\ edge = [i \in Node |-> [j \in Node |->
                    IF i = j THEN 0 ELSE IF {i, j} \in named THEN cost[{i, j}] ELSE INF]]
        /\ nexthop = Direct(named)
  BY <1>0
<1>2. \A l \in named : cost[l] \in 0..INF
  <2>1. LinkCosts \subseteq 0..INF
    BY GraphAssumption DEF LinkCosts
  <2>2. \A l \in named : cost[l] \in LinkCosts
    BY <1>1
  <2> QED
    BY <2>1, <2>2
<1>3. /\ dist = edge /\ stage = "routes" /\ msg = 1 /\ cur_id = 1
      /\ walked = 0 /\ changes = 0 /\ node = 1 /\ change_flag = FALSE
  BY DEF Init, GraphInit
<1>5. \A i \in Node : edge[i][i] = 0
  BY <1>1
<1>4. /\ \A i, d \in Node : edge[i][d] \in 0..INF
      /\ \A i, d \in Node : /\ nexthop[i][d] \in {0, d}
                            /\ edge[i][d] < INF => nexthop[i][d] = d
  <2>1. \A i, d \in Node : edge[i][d] = IF i = d THEN 0
                                        ELSE IF {i, d} \in named THEN cost[{i, d}] ELSE INF
    BY <1>1
  <2>2. \A i, d \in Node : /\ nexthop[i][d] \in {0, d}
                           /\ edge[i][d] < INF => nexthop[i][d] = d
    <3> TAKE i, d \in Node
    <3>1. nexthop[i][d] = IF i = d \/ {i, d} \in named THEN d ELSE 0
      BY <1>1 DEF Direct
    <3> QED
      BY <2>1, <3>1
  <2>3. \A i, d \in Node : edge[i][d] \in 0..INF
    <3> TAKE i, d \in Node
    <3>1. CASE i = d
      BY <1>5, <3>1
    <3>2. CASE i # d /\ {i, d} \in named
      <4>1. edge[i][d] = cost[{i, d}]
        BY <2>1, <3>2
      <4> QED
        BY <1>2, <3>2, <4>1
    <3>3. CASE i # d /\ {i, d} \notin named
      <4>1. edge[i][d] = INF
        BY <2>1, <3>3
      <4> QED
        BY <4>1
    <3> QED
      BY <3>1, <3>2, <3>3
  <2> QED
    BY <2>2, <2>3
<1>6. TypeOK
  <2>1. edge \in [Node -> [Node -> 0..INF]]
    <3>1. \A i \in Node : edge[i] = [j \in Node |->
            IF i = j THEN 0 ELSE IF {i, j} \in named THEN cost[{i, j}] ELSE INF]
      BY <1>1
    <3>2. \A i \in Node : edge[i] \in [Node -> 0..INF]
      BY <1>4, <3>1
    <3> QED
      BY <1>1, <3>2
  <2>2. /\ nexthop \in [Node -> [Node -> 0..NumNodes]]
        /\ \A i, d \in Node : nexthop[i][d] = 0 => dist[i][d] = INF
    <3>1. nexthop \in [Node -> [Node -> 0..NumNodes]]
      BY <1>1 DEF Direct, Node
    <3>2. ASSUME NEW i \in Node, NEW d \in Node, nexthop[i][d] = 0 PROVE dist[i][d] = INF
      <4>1. d # 0 /\ dist[i][d] = edge[i][d]
        BY <1>3 DEF Node
      <4>2. ~ (edge[i][d] < INF) /\ edge[i][d] \in 0..INF
        BY <1>4, <3>2, <4>1
      <4> QED
        BY <4>1, <4>2
    <3> QED
      BY <3>1, <3>2
  <2>3. 1 \in Node
    BY DEF Node
  <2>4. dist \in [Node -> [Node -> 0..INF]]
    BY <1>3, <2>1
  <2>5. 1 \in 1..(NumNodes + 1)
    OBVIOUS
  <2>6. change_flag \in BOOLEAN
    BY <1>3
  <2>7. stage \in {"routes", "messages", "forward", "Finished"}
    BY <1>3
  <2>8. msg \in Nat \ {0} /\ walked \in Nat /\ changes \in Nat
    BY <1>3
  <2> QED
    BY <1>3, <2>1, <2>2, <2>3, <2>4, <2>5, <2>6, <2>7, <2>8 DEF TypeOK
<1>7. DiagonalOK
  BY <1>3, <1>5 DEF DiagonalOK
<1>8. NeverTooShort
  BY <1>3, <1>4, <1>5, EdgesAreNotTooShort
<1>9. RouteOK
  <2> SUFFICES ASSUME NEW i \in Node, NEW d \in Node, i # d, dist[i][d] < INF
               PROVE  /\ nexthop[i][d] \in Neighbors(i)
                      /\ edge[i][nexthop[i][d]] + dist[nexthop[i][d]][d] <= dist[i][d]
    BY DEF RouteOK
  <2>1. dist[i][d] = edge[i][d] /\ nexthop[i][d] = d /\ dist[d][d] = 0
    BY <1>3, <1>4, <1>5
  <2>2. edge[i][d] \in 0..INF
    BY <1>4
  <2> QED
    BY <2>1, <2>2 DEF Neighbors
<1>10. RoundOK
  BY <1>3 DEF RoundOK, Node
<1>11. ForwardOK
  BY <1>3 DEF ForwardOK
<1> QED
  BY <1>6, <1>7, <1>8, <1>9, <1>10, <1>11 DEF IInv, TablesOK

-----------------------------------------------------------------------------
\* The update of a node keeps the tables.
LEMMA UpdateKeepsTables ==
  ASSUME TypeOK, TablesOK, NEW i \in Node, set_vector_DV(i), UNCHANGED edge
  PROVE  TablesOK'
<1> USE Sizes
<1>a. PICK D, N : D = dist' /\ N = nexthop'
  OBVIOUS
<1>1. /\ \A a, d \in Node : /\ edge[a][d] \in 0..INF
                            /\ dist[a][d] \in 0..INF
      /\ \A a, n, d \in Node : new_dist(a, n, d) \in Nat
  BY Entries
<1>2. \A a, d \in Node :
        \/ /\ D[a][d] = dist[a][d]
           /\ N[a][d] = nexthop[a][d]
        \/ /\ a = i
           /\ d # i
           /\ N[a][d] \in Better(i, d)
           /\ D[a][d] = new_dist(i, N[a][d], d)
  BY <1>a, UpdateOfNode
<1>3. \A d \in Node : \A n \in Better(i, d) :
        /\ n \in Node
        /\ n # i
        /\ edge[i][n] < INF
        /\ new_dist(i, n, d) <= dist[i][d]
  BY <1>1 DEF Better, Neighbors
<1>4. \A a, d \in Node : D[a][d] <= dist[a][d] /\ D[a][d] \in Nat
  BY <1>1, <1>2, <1>3
<1>5. DiagonalOK'
  BY <1>a, <1>2 DEF TablesOK, DiagonalOK
<1>6. NeverTooShort'
  <2> SUFFICES ASSUME NEW d \in Node, NEW p \in [Node -> 0..INF], Estimate(p, d)',
                      NEW a \in Node
               PROVE  p[a] <= D[a][d]
    BY <1>a DEF NeverTooShort
  <2>1. Estimate(p, d)
    BY DEF Estimate
  <2>2. \A n \in Node : p[n] <= dist[n][d]
    BY <2>1 DEF TablesOK, NeverTooShort
  <2>3. CASE D[a][d] = dist[a][d]
    BY <2>2, <2>3
  <2>4. ASSUME a = i, NEW n \in Better(i, d), D[a][d] = new_dist(i, n, d)
        PROVE  p[a] <= D[a][d]
    <3>1. n \in Node /\ edge[i][n] < INF
      BY <1>3
    <3>2. p[i] <= edge[i][n] + p[n]
      BY <2>1, <3>1 DEF Estimate
    <3>3. p[n] <= dist[n][d]
      BY <2>2, <3>1
    <3>4. D[a][d] = edge[i][n] + dist[n][d]
      BY <2>4 DEF new_dist
    <3> QED
      BY <1>1, <2>4, <3>1, <3>2, <3>3, <3>4
  <2> QED
    BY <1>2, <2>3, <2>4
<1>7. RouteOK'
  <2> SUFFICES ASSUME NEW a \in Node, NEW d \in Node, a # d, D[a][d] < INF
               PROVE  /\ N[a][d] \in Neighbors(a)'
                      /\ edge[a][N[a][d]] + D[N[a][d]][d] <= D[a][d]
    BY <1>a DEF RouteOK
  <2>1. Neighbors(a)' = Neighbors(a)
    BY DEF Neighbors
  <2>2. CASE D[a][d] = dist[a][d] /\ N[a][d] = nexthop[a][d]
    <3> DEFINE n == nexthop[a][d]
    <3>1. n \in Neighbors(a) /\ edge[a][n] + dist[n][d] <= dist[a][d]
      BY <2>2 DEF TablesOK, RouteOK
    <3>2. n \in Node /\ D[n][d] <= dist[n][d] /\ D[n][d] \in Nat
      BY <1>4, <3>1 DEF Neighbors
    <3> QED
      BY <1>1, <2>1, <2>2, <3>1, <3>2
  <2>3. CASE a = i /\ N[a][d] \in Better(i, d) /\ D[a][d] = new_dist(i, N[a][d], d)
    <3> DEFINE n == N[a][d]
    <3>1. n \in Node /\ n # i /\ edge[i][n] < INF
      BY <1>3, <2>3
    <3>2. n \in Neighbors(a)
      BY <2>3, <3>1 DEF Neighbors
    <3>3. D[n][d] <= dist[n][d] /\ D[n][d] \in Nat
      BY <1>4, <3>1
    <3>4. D[a][d] = edge[i][n] + dist[n][d]
      BY <2>3 DEF new_dist
    <3> QED
      BY <1>1, <2>1, <2>3, <3>1, <3>2, <3>3, <3>4
  <2> QED
    BY <1>2, <2>2, <2>3
<1> QED
  BY <1>5, <1>6, <1>7 DEF TablesOK

\* The update of a node keeps the invariant.
LEMMA UpdateStep == IInv /\ Update => IInv'
<1> SUFFICES ASSUME IInv, Update PROVE IInv'
  OBVIOUS
<1> USE Sizes
<1>1. /\ stage = "routes" /\ stage' = "routes"
      /\ node' = node + 1
      /\ UNCHANGED <<edge, msg, cur_id, walked, changes>>
      /\ set_vector_DV(node)
      /\ change_flag' = (change_flag \/ \E d \in Node : Improves(node, d))
      /\ node \in Node
  BY DEF Update, forwarding, IInv, TypeOK, Node
<1>2. TypeOK /\ TablesOK
  BY DEF IInv
<1>a. PICK D, N : D = dist' /\ N = nexthop'
  OBVIOUS
<1>3. /\ D \in [Node -> [Node -> 0..INF]]
      /\ N \in [Node -> [Node -> 0..NumNodes]]
      /\ \A a, d \in Node : N[a][d] = 0 => D[a][d] = INF
      /\ \A a, d \in Node :
           \/ /\ D[a][d] = dist[a][d]
              /\ N[a][d] = nexthop[a][d]
              /\ a = node => ~ Improves(node, d)
           \/ Improves(node, d)
  <2>1. \A d \in Node : \A n \in Better(node, d) : d # node => Improves(node, d)
    BY DEF Improves
  <2>2. \A d \in Node : 0 \notin Better(node, d)
    BY DEF Better, Neighbors, Node
  <2>3. \A a, d \in Node : nexthop[a][d] = 0 => dist[a][d] = INF
    BY <1>2 DEF TypeOK
  <2>4. /\ D \in [Node -> [Node -> 0..INF]]
        /\ N \in [Node -> [Node -> 0..NumNodes]]
    BY <1>1, <1>2, <1>a, UpdateOfNode
  <2>5. \A a, d \in Node :
           \/ /\ D[a][d] = dist[a][d]
              /\ N[a][d] = nexthop[a][d]
              /\ a = node => ~ Improves(node, d)
           \/ d # node /\ N[a][d] \in Better(node, d)
    BY <1>1, <1>2, <1>a, UpdateOfNode
  <2>6. \A a, d \in Node : N[a][d] = 0 => D[a][d] = INF
    BY <2>2, <2>3, <2>5
  <2>7. \A a, d \in Node :
           \/ /\ D[a][d] = dist[a][d]
              /\ N[a][d] = nexthop[a][d]
              /\ a = node => ~ Improves(node, d)
           \/ Improves(node, d)
    BY <2>1, <2>5
  <2> QED
    BY <2>4, <2>6, <2>7
<1>4. TypeOK'
  <2>1. node' \in 1..(NumNodes + 1)
    BY <1>1 DEF Node
  <2>2. change_flag' \in BOOLEAN
    BY <1>1
  <2> QED
    BY <1>1, <1>2, <1>3, <1>a, <2>1, <2>2 DEF TypeOK
<1>5. TablesOK'
  BY <1>1, <1>2, UpdateKeepsTables
<1>6. RoundOK'
  <2> SUFFICES ASSUME ~ change_flag', NEW i \in Node, i < node'
               PROVE  Settled(i)'
    BY <1>1 DEF RoundOK
  <2>1. ~ change_flag /\ \A d \in Node : ~ Improves(node, d)
    BY <1>1
  <2>2. \A a, d \in Node : D[a][d] = dist[a][d] /\ N[a][d] = nexthop[a][d]
    BY <1>3, <2>1
  <2>3. D = dist /\ N = nexthop
    <3>1. \A a \in Node : /\ D[a] \in [Node -> 0..INF]
                          /\ dist[a] \in [Node -> 0..INF]
                          /\ N[a] \in [Node -> 0..NumNodes]
                          /\ nexthop[a] \in [Node -> 0..NumNodes]
      BY <1>2, <1>3 DEF TypeOK
    <3>2. \A a \in Node : D[a] = dist[a] /\ N[a] = nexthop[a]
      BY <2>2, <3>1
    <3> QED
      BY <1>2, <1>3, <3>2 DEF TypeOK
  <2>4. i < node \/ i = node
    BY <1>1, <1>2 DEF TypeOK, Node
  <2>5. Settled(i)
    BY <1>1, <2>1, <2>4 DEF IInv, RoundOK, Settled
  <2> QED
    BY <1>1, <1>a, <2>3, <2>5 DEF Settled, Improves, Better, Neighbors, new_dist
<1>7. ForwardOK'
  BY <1>1 DEF ForwardOK
<1> QED
  BY <1>4, <1>5, <1>6, <1>7 DEF IInv

\* A step that leaves the routes alone keeps the tables.
LEMMA SameRoutes ==
  TablesOK /\ UNCHANGED routes => TablesOK' /\ \A i \in Node : Settled(i)' = Settled(i)
<1> SUFFICES ASSUME TablesOK, UNCHANGED routes
             PROVE  TablesOK' /\ \A i \in Node : Settled(i)' = Settled(i)
  OBVIOUS
<1>1. UNCHANGED <<edge, dist, nexthop>>
  BY DEF routes
<1>2. TablesOK'
  BY <1>1 DEF TablesOK, DiagonalOK, NeverTooShort, Estimate, RouteOK, Neighbors
<1>3. \A i \in Node : Settled(i)' = Settled(i)
  BY <1>1 DEF Settled, Improves, Better, Neighbors, new_dist
<1> QED
  BY <1>2, <1>3

\* The end of a round keeps the invariant.
LEMMA EndRoundStep == IInv /\ EndRound => IInv'
<1> SUFFICES ASSUME IInv, EndRound PROVE IInv'
  OBVIOUS
<1> USE Sizes
<1>1. /\ stage = "routes" /\ node > NumNodes /\ node' = 1 /\ change_flag' = FALSE
      /\ stage' = IF change_flag THEN "routes" ELSE "messages"
      /\ UNCHANGED <<routes, edge, dist, nexthop, msg, cur_id, walked, changes>>
  BY DEF EndRound, routes, forwarding
<1>2. TypeOK /\ TablesOK
  BY DEF IInv
<1>3. TablesOK' /\ \A i \in Node : Settled(i)' = Settled(i)
  BY <1>1, <1>2, SameRoutes
<1>4. TypeOK'
  <2>1. 1 \in 1..(NumNodes + 1)
    OBVIOUS
  <2> QED
    BY <1>1, <1>2, <2>1 DEF TypeOK
<1>5. RoundOK'
  <2>1. CASE change_flag
    BY <1>1, <2>1 DEF RoundOK, Node
  <2>2. CASE ~ change_flag
    <3>1. \A i \in Node : i < node
      BY <1>1, <1>2 DEF TypeOK, Node
    <3>2. \A i \in Node : Settled(i)
      BY <1>1, <2>2, <3>1 DEF IInv, RoundOK
    <3> QED
      BY <1>1, <1>3, <2>2, <3>2 DEF RoundOK
  <2> QED
    BY <2>1, <2>2
<1>6. ForwardOK'
  BY <1>1 DEF ForwardOK
<1> QED
  BY <1>3, <1>4, <1>5, <1>6 DEF IInv

-----------------------------------------------------------------------------
\* Settled nodes have distances that no edge improves.
LEMMA SettledConverges ==
  TypeOK /\ TablesOK /\ (\A i \in Node : Settled(i)) =>
    \A d \in Node : Estimate([i \in Node |-> dist[i][d]], d)
<1> SUFFICES ASSUME TypeOK, TablesOK, \A i \in Node : Settled(i), NEW d \in Node
             PROVE  Estimate([i \in Node |-> dist[i][d]], d)
  OBVIOUS
<1> USE Sizes
<1>1. /\ \A i, n \in Node : /\ edge[i][n] \in 0..INF
                            /\ dist[i][n] \in 0..INF
      /\ \A i \in Node : edge[i][i] = 0 /\ dist[i][i] = 0
  BY Entries DEF TablesOK, DiagonalOK
<1>2. \A i, n \in Node : edge[i][n] < INF => dist[i][d] <= edge[i][n] + dist[n][d]
  <2> TAKE i, n \in Node
  <2> HAVE edge[i][n] < INF
  <2>1. CASE i = d \/ i = n
    BY <1>1, <2>1
  <2>2. CASE i # d /\ i # n
    <3>1. n \notin Better(i, d) /\ n \in Neighbors(i)
      BY <2>2 DEF Settled, Improves, Neighbors
    <3>2. ~ (new_dist(i, n, d) < INF /\ new_dist(i, n, d) < dist[i][d])
      BY <3>1 DEF Better
    <3> QED
      BY <1>1, <3>2 DEF new_dist
  <2> QED
    BY <2>1, <2>2
<1> QED
  BY <1>1, <1>2 DEF Estimate

\* ... and next hops whose distances fit exactly.
LEMMA NextHopFits ==
  IInv /\ stage # "routes" =>
    \A i, d \in Node : i # d /\ dist[i][d] < INF =>
      edge[i][nexthop[i][d]] + dist[nexthop[i][d]][d] = dist[i][d]
<1> SUFFICES ASSUME IInv, stage # "routes", NEW i \in Node, NEW d \in Node,
                    i # d, dist[i][d] < INF
             PROVE  edge[i][nexthop[i][d]] + dist[nexthop[i][d]][d] = dist[i][d]
  OBVIOUS
<1> USE Sizes
<1>1. TypeOK /\ TablesOK /\ \A k \in Node : Settled(k)
  BY DEF IInv, RoundOK
<1>2. /\ nexthop[i][d] \in Neighbors(i)
      /\ edge[i][nexthop[i][d]] + dist[nexthop[i][d]][d] <= dist[i][d]
  BY <1>1 DEF TablesOK, RouteOK
<1>3. PICK n \in Node : n = nexthop[i][d]
  BY <1>2 DEF Neighbors
<1>4. edge[i][n] < INF
  BY <1>2, <1>3 DEF Neighbors
<1>5. dist[i][d] <= edge[i][n] + dist[n][d]
  BY <1>1, <1>4, SettledConverges DEF Estimate
<1>6. edge[i][n] \in Nat /\ dist[n][d] \in Nat /\ dist[i][d] \in Nat
  BY <1>1, Entries
<1> QED
  BY <1>2, <1>3, <1>5, <1>6

-----------------------------------------------------------------------------
\* A change of a link clears the tables to the edges.
LEMMA ChangeStep ==
  IInv /\ Change /\ UNCHANGED <<node, change_flag>> => IInv'
<1> SUFFICES ASSUME IInv, Change, UNCHANGED <<node, change_flag>> PROVE IInv'
  OBVIOUS
<1> USE Sizes
<1>1. PICK i, j \in Node, cost \in LinkCosts : i # j /\ parseLineChange(i, j, cost, Node \X Node)
  BY DEF Change, ChangeLink
<1>2. TypeOK /\ TablesOK
  BY DEF IInv
<1>3. cost \in 0..INF
  BY GraphAssumption DEF LinkCosts
<1>4. PICK E, D, N : E = edge' /\ D = dist' /\ N = nexthop'
  OBVIOUS
<1> DEFINE hit(a, b) == (a = i /\ b = j) \/ (a = j /\ b = i)
           C1 == clear_Vectors(Node \X Node)[1]
           C2 == clear_Vectors(Node \X Node)[2]
<1>12. \A a \in Node : edge[a][a] = 0 /\ dist[a][a] = 0
  BY <1>2 DEF TablesOK, DiagonalOK
<1>5. /\ C1 = [a \in Node |-> [b \in Node |-> IF a = b THEN dist[a][b] ELSE edge[a][b]]]
      /\ C2 = [a \in Node |-> [b \in Node |-> IF a = b THEN nexthop[a][b] ELSE b]]
  BY DEF clear_Vectors
<1>6. \A a, d \in Node : /\ edge[a][d] \in 0..INF
                         /\ dist[a][d] \in 0..INF
                         /\ nexthop[a][d] \in 0..NumNodes
                         /\ d \in 0..NumNodes
  <2>1. \A d \in Node : d \in 0..NumNodes
    BY DEF Node
  <2>2. \A a, d \in Node : /\ edge[a][d] \in 0..INF
                           /\ dist[a][d] \in 0..INF
                           /\ nexthop[a][d] \in 0..NumNodes
    BY <1>2, Entries
  <2> QED
    BY <2>1, <2>2
<1>7. C1 \in [Node -> [Node -> 0..INF]] /\ C2 \in [Node -> [Node -> 0..NumNodes]]
  <2>1. \A a, b \in Node : /\ (IF a = b THEN dist[a][b] ELSE edge[a][b]) \in 0..INF
                           /\ (IF a = b THEN nexthop[a][b] ELSE b) \in 0..NumNodes
    BY <1>6
  <2>2. /\ \A a \in Node : [b \in Node |-> IF a = b THEN dist[a][b] ELSE edge[a][b]]
                              \in [Node -> 0..INF]
        /\ \A a \in Node : [b \in Node |-> IF a = b THEN nexthop[a][b] ELSE b]
                              \in [Node -> 0..NumNodes]
    BY <2>1
  <2> HIDE DEF C1, C2
  <2>3. /\ C1 = [a \in Node |-> [b \in Node |-> IF a = b THEN dist[a][b] ELSE edge[a][b]]]
        /\ C2 = [a \in Node |-> [b \in Node |-> IF a = b THEN nexthop[a][b] ELSE b]]
    BY <1>5
  <2> QED
    BY <2>2, <2>3
<1>8. edge \in [Node -> [Node -> 0..INF]]
  BY <1>2 DEF TypeOK
<1>9. /\ E \in [Node -> [Node -> 0..INF]]
      /\ \A a, b \in Node : E[a][b] = IF hit(a, b) THEN cost ELSE edge[a][b]
  <2>1. E = Both(edge, i, j, cost)
    BY <1>1, <1>4 DEF parseLineChange
  <2>2. i # j
    BY <1>1
  <2>3. /\ Both(edge, i, j, cost) \in [Node -> [Node -> 0..INF]]
        /\ \A a, b \in Node : Both(edge, i, j, cost)[a][b] = IF hit(a, b) THEN cost ELSE edge[a][b]
    BY <1>3, <1>8, <2>2 DEF Both
  <2> QED
    BY <2>1, <2>3
<1>10. /\ D \in [Node -> [Node -> 0..INF]]
       /\ \A a, b \in Node : D[a][b] = IF hit(a, b) THEN cost ELSE C1[a][b]
  <2>1. D = Both(C1, i, j, cost)
    BY <1>1, <1>4 DEF parseLineChange
  <2> HIDE DEF C1
  <2>2. i # j
    BY <1>1
  <2>3. /\ Both(C1, i, j, cost) \in [Node -> [Node -> 0..INF]]
        /\ \A a, b \in Node : Both(C1, i, j, cost)[a][b] = IF hit(a, b) THEN cost ELSE C1[a][b]
    BY <1>3, <1>7, <2>2 DEF Both
  <2> QED
    BY <2>1, <2>3
<1>11. /\ N \in [Node -> [Node -> 0..NumNodes]]
       /\ \A a, b \in Node : a # b => N[a][b] = b
       /\ \A a, b \in Node : N[a][b] # 0
  <2>1. N = [C2 EXCEPT ![i] = [@ EXCEPT ![j] = j], ![j] = [@ EXCEPT ![i] = i]]
    BY <1>1, <1>4 DEF parseLineChange
  <2>2. \A a, b \in Node : C2[a][b] = IF a = b THEN nexthop[a][b] ELSE b
    BY <1>5
  <2>3. \A a, b \in Node : b # 0 /\ (a = b => nexthop[a][b] # 0)
    <3>1. \A a \in Node : nexthop[a][a] = 0 => dist[a][a] = INF
      BY <1>2 DEF TypeOK
    <3>2. \A a \in Node : nexthop[a][a] # 0
      BY <1>12, <3>1
    <3>3. \A b \in Node : b # 0
      BY DEF Node
    <3> QED
      BY <3>2, <3>3
  <2>4. i \in 0..NumNodes /\ j \in 0..NumNodes
    BY DEF Node
  <2> HIDE DEF C2
  <2>5. /\ [C2[i] EXCEPT ![j] = j] \in [Node -> 0..NumNodes]
        /\ [C2[j] EXCEPT ![i] = i] \in [Node -> 0..NumNodes]
    BY <1>7, <2>4
  <2>6. N = [C2 EXCEPT ![i] = [C2[i] EXCEPT ![j] = j], ![j] = [C2[j] EXCEPT ![i] = i]]
    BY <1>1, <1>7, <2>1
  <2>7. /\ N \in [Node -> [Node -> 0..NumNodes]]
        /\ \A a \in Node : N[a] = IF a = j THEN [C2[j] EXCEPT ![i] = i]
                                  ELSE IF a = i THEN [C2[i] EXCEPT ![j] = j] ELSE C2[a]
    BY <1>1, <1>7, <2>5, <2>6
  <2>8. \A a, b \in Node : N[a][b] = b \/ N[a][b] = C2[a][b]
    <3>1. \A a \in Node : C2[a] \in [Node -> 0..NumNodes]
      BY <1>7
    <3> QED
      BY <1>1, <2>7, <3>1
  <2> QED
    BY <1>1, <2>2, <2>3, <2>7, <2>8
<1>13. \A a, b \in Node : C1[a][b] = edge[a][b]
  BY <1>5, <1>12
<1> HIDE DEF C1, C2
<1>14. \A a, b \in Node : D[a][b] = E[a][b] /\ E[a][b] \in 0..INF
  BY <1>9, <1>10, <1>13
<1>15. \A a \in Node : E[a][a] = 0
  BY <1>1, <1>9, <1>12
<1>16. /\ stage' = "routes" /\ msg' = 1 /\ changes' = changes + 1
       /\ UNCHANGED <<cur_id, walked, node, change_flag>>
       /\ stage = "messages"
  BY DEF Change, ChangeLink
<1>17. TypeOK'
  BY <1>2, <1>4, <1>9, <1>10, <1>11, <1>16 DEF TypeOK
<1>18. DiagonalOK'
  BY <1>4, <1>14, <1>15 DEF DiagonalOK
<1>19. NeverTooShort'
  <2> SUFFICES ASSUME NEW d \in Node, NEW p \in [Node -> 0..INF], Estimate(p, d)',
                      NEW a \in Node
               PROVE  p[a] <= D[a][d]
    BY <1>4 DEF NeverTooShort
  <2>1. p[d] = 0 /\ p[a] \in 0..INF /\ (E[a][d] < INF => p[a] <= E[a][d] + p[d])
    BY <1>4 DEF Estimate
  <2> QED
    BY <1>14, <2>1
<1>20. RouteOK'
  BY <1>4, <1>11, <1>14, <1>15 DEF RouteOK, Neighbors
<1>21. RoundOK'
  BY <1>16 DEF IInv, RoundOK, Node
<1>22. ForwardOK'
  BY <1>16 DEF ForwardOK
<1> QED
  BY <1>17, <1>18, <1>19, <1>20, <1>21, <1>22 DEF IInv, TablesOK

-----------------------------------------------------------------------------
\* The steps of output_message.
LEMMA OutputStep ==
  IInv /\ Output /\ UNCHANGED <<node, change_flag>> => IInv'
<1> SUFFICES ASSUME IInv, Output, UNCHANGED <<node, change_flag>> PROVE IInv'
  OBVIOUS
<1> USE Sizes
<1>1. TypeOK /\ TablesOK
  BY DEF IInv
<1>2. UNCHANGED <<edge, dist, nexthop, routes, changes>>
  BY DEF Output, Unreachable, ReadMessage, Hop, Arrive, Finish, routes
<1>3. TablesOK' /\ \A i \in Node : Settled(i)' = Settled(i)
  BY <1>1, <1>2, SameRoutes
<1>4. stage # "routes" /\ stage' \in {"messages", "forward", "Finished"}
  BY DEF Output, Unreachable, ReadMessage, Hop, Arrive, Finish
<1>5. RoundOK'
  BY <1>3, <1>4 DEF IInv, RoundOK
<1>6. \A i, d \in Node : edge[i][d] \in 0..INF /\ dist[i][d] \in 0..INF
  BY <1>1, Entries
<1>7. cur_id' \in Node /\ walked' \in Nat /\ msg' \in Nat \ {0} /\ ForwardOK'
  <2>1. cur_id \in Node /\ walked \in Nat /\ msg \in Nat \ {0}
    BY <1>1 DEF TypeOK
  <2>2. CASE Unreachable \/ Arrive \/ Finish
    <3>1. stage' # "forward" /\ cur_id' = cur_id /\ walked' = walked /\ msg' \in {msg, msg + 1}
      BY <2>2 DEF Unreachable, Arrive, Finish, forwarding
    <3> QED
      BY <2>1, <3>1 DEF ForwardOK
  <2>3. CASE ReadMessage
    <3>1. /\ cur_id' = source /\ walked' = 0 /\ msg' = msg
          /\ msg \in 1..Len(Messages) /\ Reachable
      BY <2>1, <2>3, GraphAssumption DEF ReadMessage
    <3>2. source \in Nat \ {0} /\ destination \in Nat \ {0}
      BY <3>1, GraphAssumption DEF source, destination
    <3>3. source \in Node /\ destination \in Node
      BY <3>1, <3>2 DEF Reachable, Node
    <3>4. dist[source][destination] < INF
      BY <1>6, <3>1, <3>3 DEF Reachable
    <3>5. UNCHANGED <<source, destination>>
      BY <3>1 DEF source, destination
    <3>6. CostOfPath'
      BY <1>2, <1>6, <3>1, <3>3, <3>5 DEF CostOfPath
    <3> QED
      BY <1>2, <2>1, <3>1, <3>3, <3>4, <3>5, <3>6 DEF ForwardOK
  <2>4. CASE Hop
    <3>1. /\ stage = "forward" /\ msg' = msg
          /\ cur_id # destination
          /\ cur_id' = nexthop[cur_id][destination]
          /\ walked' = walked + edge[cur_id][cur_id']
      BY <2>4 DEF Hop
    <3>2. /\ source \in Node /\ destination \in Node
          /\ dist[source][destination] < INF
          /\ walked + dist[cur_id][destination] = dist[source][destination]
      BY <3>1 DEF IInv, ForwardOK, CostOfPath
    <3>3. dist[cur_id][destination] < INF
      BY <1>6, <2>1, <3>2
    <3>4. PICK n \in Node : n = nexthop[cur_id][destination]
      BY <1>1, <2>1, <3>2, <3>3, HasNextHop
    <3>5. edge[cur_id][n] + dist[n][destination] = dist[cur_id][destination]
      BY <1>1, <1>4, <2>1, <3>1, <3>2, <3>3, <3>4, NextHopFits DEF IInv
    <3>6. UNCHANGED <<source, destination>>
      BY <3>1 DEF source, destination
    <3>7. walked' + dist[n][destination] = dist[source][destination]
      BY <1>6, <2>1, <3>1, <3>2, <3>4, <3>5
    <3>8. CostOfPath'
      BY <1>2, <3>1, <3>4, <3>6, <3>7 DEF CostOfPath
    <3>9. walked' \in Nat
      BY <1>6, <2>1, <3>1, <3>4
    <3> QED
      BY <1>2, <2>1, <3>1, <3>2, <3>4, <3>6, <3>8, <3>9 DEF ForwardOK
  <2> QED
    BY <2>2, <2>3, <2>4 DEF Output
<1>8. TypeOK'
  BY <1>1, <1>2, <1>4, <1>7 DEF TypeOK
<1> QED
  BY <1>3, <1>5, <1>7, <1>8 DEF IInv

\* Every step keeps the invariant.
LEMMA NextStep == IInv /\ [Next]_vars => IInv'
<1>1. IInv /\ UNCHANGED vars => IInv'
  <2> SUFFICES ASSUME IInv, UNCHANGED vars PROVE IInv'
    OBVIOUS
  <2>1. UNCHANGED <<routes, edge, dist, nexthop, stage, msg, cur_id, walked, changes, node,
                    change_flag>>
    BY DEF vars, routes, forwarding
  <2>2. TablesOK' /\ \A i \in Node : Settled(i)' = Settled(i)
    BY <2>1, SameRoutes DEF IInv
  <2>3. TypeOK'
    BY <2>1 DEF IInv, TypeOK
  <2>4. RoundOK'
    BY <2>1, <2>2 DEF IInv, RoundOK
  <2>5. ForwardOK'
    BY <2>1 DEF IInv, ForwardOK, CostOfPath, source, destination
  <2> QED
    BY <2>2, <2>3, <2>4, <2>5 DEF IInv
<1> QED
  BY <1>1, UpdateStep, EndRoundStep, ChangeStep, OutputStep DEF Next

\* The inductive invariant holds of every execution.
THEOREM Invariant == Spec => []IInv
BY InitInv, NextStep, PTL DEF Spec

\* The tables keep to their types, whatever the order of changes.
THEOREM TypeCorrectness == Spec => []TypeOK
<1>1. IInv => TypeOK
  BY DEF IInv
<1> QED
  BY <1>1, Invariant, PTL

\* No distance is ever below the shortest path: there is no count to
\* infinity to wait for.
THEOREM DistancesNeverTooShort == Spec => []NeverTooShort
<1>1. IInv => NeverTooShort
  BY DEF IInv, TablesOK
<1> QED
  BY <1>1, Invariant, PTL

\* When a round has changed nothing, every distance is at most the cost by
\* any neighbor; together with DistancesNeverTooShort: it is the cost of the
\* shortest path.
THEOREM TablesAreShortest == Spec => []RoutesConverged
<1>1. IInv => RoutesConverged
  BY SettledConverges DEF IInv, RoutesConverged, Stable, RoundOK
<1> QED
  BY <1>1, Invariant, PTL

\* The distances that are written are the costs of the shortest paths, by the
\* textbook definition: as they are an estimate from below and never below one.
THEOREM DistancesAreShortest == Spec => []ShortestPaths
<1>1. IInv => ShortestPaths
  <2> SUFFICES ASSUME IInv, Stable, NEW i \in Node, NEW d \in Node
               PROVE  dist[i][d] = Within[NumNodes - 1][i][d]
    BY DEF ShortestPaths
  <2> DEFINE w == [n \in Node |-> Within[NumNodes - 1][n][d]]
             t == [n \in Node |-> dist[n][d]]
  <2>1. TypeOK /\ NeverTooShort /\ RoutesConverged
    BY SettledConverges DEF IInv, TablesOK, RoutesConverged, Stable, RoundOK
  <2>2. edge \in [Node -> [Node -> 0..INF]]
    BY <2>1 DEF TypeOK
  <2>3. /\ w \in [Node -> 0..INF]
        /\ Estimate(w, d)
        /\ \A p \in [Node -> 0..INF] : Estimate(p, d) => \A n \in Node : p[n] <= w[n]
    BY <2>2, WithinIsShortest
  <2>4. \A n \in Node : dist[n][d] \in 0..INF
    BY <2>1 DEF TypeOK
  <2>5. t \in [Node -> 0..INF] /\ t[i] = dist[i][d] /\ w[i] = Within[NumNodes - 1][i][d]
    BY <2>4
  <2>6. Estimate(t, d)
    BY <2>1 DEF RoutesConverged
  <2> HIDE DEF w, t
  <2>7. t[i] <= w[i]
    BY <2>3, <2>5, <2>6
  <2>8. w[i] <= dist[i][d]
    BY <2>1, <2>3 DEF NeverTooShort
  <2>9. w[i] \in 0..INF /\ dist[i][d] \in 0..INF
    BY <2>3, <2>4
  <2> QED
    BY <2>5, <2>7, <2>8, <2>9
<1> QED
  BY <1>1, Invariant, PTL

\* The next hop is the smallest neighbor on a shortest path.
THEOREM NextHopsAreLowest == Spec => []LowestNextHop
<1>1. IInv => LowestNextHop
  <2> SUFFICES ASSUME IInv, Stable PROVE LowestNextHop
    BY DEF LowestNextHop
  <2>1. TypeOK /\ TablesOK /\ \A i \in Node : Settled(i)
    BY DEF IInv, RoundOK, Stable
  <2>2. ASSUME NEW i \in Node, NEW d \in Node, i # d, dist[i][d] < INF
        PROVE  /\ nexthop[i][d] \in Neighbors(i)
               /\ new_dist(i, nexthop[i][d], d) = dist[i][d]
    <3>1. nexthop[i][d] \in Neighbors(i)
      BY <2>1, <2>2 DEF TablesOK, RouteOK
    <3>2. edge[i][nexthop[i][d]] + dist[nexthop[i][d]][d] = dist[i][d]
      BY <2>2, NextHopFits DEF Stable
    <3> QED
      BY <3>1, <3>2 DEF new_dist
  <2>3. ASSUME NEW i \in Node, NEW d \in Node, i # d, dist[i][d] < INF,
               NEW n \in Neighbors(i), new_dist(i, n, d) = dist[i][d]
        PROVE  nexthop[i][d] <= n
    <3>1. nexthop[i][d] \in Node /\ n \in Node
      BY <2>1, <2>3, HasNextHop DEF Neighbors
    <3>2. ~ (n < nexthop[i][d])
      BY <2>1, <2>3 DEF Settled, Improves, Better
    <3> QED
      BY <3>1, <3>2 DEF Node
  <2> QED
    BY <2>2, <2>3 DEF LowestNextHop
<1> QED
  BY <1>1, Invariant, PTL

\* A message's path costs what was announced.
THEOREM MessagesCostTheirDistance == Spec => []CostOfPath
<1>1. IInv => CostOfPath
  BY DEF IInv, ForwardOK, CostOfPath
<1> QED
  BY <1>1, Invariant, PTL

-----------------------------------------------------------------------------
\* A topology is one the abstract program may start with.
LEMMA InitRefines == Init => Abstract!Init
<1> SUFFICES ASSUME Init PROVE Abstract!Init
  OBVIOUS
<1> USE Sizes
<1>1. stage = "routes" /\ msg = 1
  BY DEF Init, GraphInit
<1>2. edge \in [Node -> [Node -> 0..INF]]
  BY InitInv DEF IInv, TypeOK
<1>3. \A i, j \in Node : edge[i][j] = edge[j][i]
  <2>1. PICK named \in SUBSET Links : \E cost \in [named -> LinkCosts] :
          edge = [i \in Node |-> [j \in Node |->
                   IF i = j THEN 0 ELSE IF {i, j} \in named THEN cost[{i, j}] ELSE INF]]
    BY DEF Init, GraphInit
  <2>2. PICK cost \in [named -> LinkCosts] :
          edge = [i \in Node |-> [j \in Node |->
                   IF i = j THEN 0 ELSE IF {i, j} \in named THEN cost[{i, j}] ELSE INF]]
    BY <2>1
  <2> TAKE i, j \in Node
  <2>3. {j, i} = {i, j}
    OBVIOUS
  <2>4. /\ edge[i][j] = IF i = j THEN 0 ELSE IF {i, j} \in named THEN cost[{i, j}] ELSE INF
        /\ edge[j][i] = IF j = i THEN 0 ELSE IF {j, i} \in named THEN cost[{j, i}] ELSE INF
    BY <2>2
  <2> QED
    BY <2>3, <2>4
<1>4. Stable = FALSE /\ At = 0 /\ NumNodes \in 0..NumNodes
  BY <1>1 DEF Stable, At
<1> QED
  BY <1>1, <1>2, <1>3, <1>4 DEF Abstract!Init, Abstract!Node, Node

\* The tables are announced when they are shortest.
LEMMA SettledIsShortest == IInv /\ Stable => Abstract!Shortest(dist)
<1> SUFFICES ASSUME IInv, Stable, NEW d \in Node
             PROVE  /\ Estimate([i \in Node |-> dist[i][d]], d)
                    /\ \A p \in [Node -> 0..INF] :
                         Estimate(p, d) => \A i \in Node : p[i] <= dist[i][d]
  BY DEF Abstract!Shortest, Abstract!Estimate, Abstract!Node, Estimate, Node
<1>1. \A i \in Node : Settled(i)
  BY DEF IInv, RoundOK, Stable
<1>2. Estimate([i \in Node |-> dist[i][d]], d)
  BY <1>1, SettledConverges DEF IInv
<1> QED
  BY <1>2 DEF IInv, TablesOK, NeverTooShort

\* Every step is one of the abstract program or changes nothing it shows.
LEMMA StepRefines ==
  IInv /\ IInv' /\ [Next]_vars => [Abstract!Next]_(Abstract!vars)
<1> SUFFICES ASSUME IInv, IInv', [Next]_vars PROVE [Abstract!Next]_(Abstract!vars)
  OBVIOUS
<1> USE Sizes
<1>1. TypeOK
  BY DEF IInv
<1>2. cur_id \in Node /\ msg \in Nat \ {0}
  BY <1>1 DEF TypeOK
<1>3. CASE UNCHANGED vars
  BY <1>3 DEF vars, routes, forwarding, Abstract!vars, Stable, Announced, At
<1>4. CASE Update
  BY <1>4 DEF Update, forwarding, Abstract!vars, Stable, Announced, At
<1>5. CASE EndRound
  <2>1. /\ stage = "routes" /\ stage' \in {"routes", "messages"}
        /\ UNCHANGED <<edge, dist, msg, cur_id>>
    BY <1>5 DEF EndRound, routes, forwarding
  <2>2. CASE stage' = "routes"
    BY <2>1, <2>2 DEF Abstract!vars, Stable, Announced, At
  <2>3. CASE stage' = "messages"
    <3>1. ~ Stable /\ Stable' /\ At = 0 /\ At' = 0 /\ Announced' = dist'
      BY <2>1, <2>3 DEF Stable, At, Announced
    <3>2. Abstract!Shortest(dist)'
      BY <3>1, SettledIsShortest, PTL
    <3>3. Abstract!Shortest(dist')
      BY <2>1, <3>2 DEF Abstract!Shortest, Abstract!Estimate
    <3> QED
      BY <2>1, <3>1, <3>3 DEF Abstract!Next, Abstract!Announce
  <2> QED
    BY <2>1, <2>2, <2>3
<1>6. CASE Unreachable
  <2>1. /\ stage = "messages" /\ msg <= Len(Messages) /\ ~ Reachable
        /\ msg' = msg + 1 /\ UNCHANGED <<edge, dist, stage, cur_id>>
    BY <1>6 DEF Unreachable, routes
  <2>2. Stable /\ Stable' /\ At = 0 /\ At' = 0 /\ Announced = dist /\ Announced' = dist
    BY <2>1 DEF Stable, At, Announced
  <2>3. ~ Abstract!HasRoute
    BY <2>1, <2>2 DEF Abstract!HasRoute, Abstract!from, Abstract!to, Reachable, source, destination
  <2> QED
    BY <2>1, <2>2, <2>3 DEF Abstract!Next, Abstract!Refuse, Abstract!NextMessage
<1>7. CASE ReadMessage
  <2>1. /\ stage = "messages" /\ msg <= Len(Messages) /\ Reachable /\ stage' = "forward"
        /\ cur_id' = source /\ UNCHANGED <<edge, dist, msg>>
    BY <1>7 DEF ReadMessage, routes
  <2>2. Stable /\ Stable' /\ At = 0 /\ At' = source /\ Announced = dist /\ Announced' = dist
    BY <2>1 DEF Stable, At, Announced
  <2>3. Abstract!HasRoute
    BY <2>1, <2>2 DEF Abstract!HasRoute, Abstract!from, Abstract!to, Reachable, source, destination
  <2>4. source = Abstract!from
    BY DEF source, Abstract!from
  <2> QED
    BY <2>1, <2>2, <2>3, <2>4 DEF Abstract!Next, Abstract!Accept, Abstract!NextMessage
<1>8. CASE Hop
  <2>1. /\ stage = "forward" /\ stage' = "forward" /\ cur_id # destination
        /\ cur_id' = nexthop[cur_id][destination] /\ UNCHANGED <<edge, dist, msg>>
    BY <1>8 DEF Hop, routes
  <2>2. Stable /\ Stable' /\ At = cur_id /\ At' = cur_id' /\ Announced = dist /\ Announced' = dist
    BY <2>1 DEF Stable, At, Announced
  <2>3. /\ source \in Node /\ destination \in Node
        /\ dist[source][destination] < INF
        /\ walked + dist[cur_id][destination] = dist[source][destination]
    BY <2>1 DEF IInv, ForwardOK, CostOfPath
  <2>4. walked \in Nat /\ dist[cur_id][destination] \in 0..INF /\ dist[source][destination] \in 0..INF
    BY <1>1, <1>2, <2>3, Entries DEF TypeOK
  <2>5. dist[cur_id][destination] < INF
    BY <2>3, <2>4
  <2>6. PICK n \in Node : n = nexthop[cur_id][destination]
    BY <1>1, <1>2, <2>3, <2>5, HasNextHop
  <2>7. n \in Neighbors(cur_id)
    BY <1>2, <2>1, <2>3, <2>5, <2>6 DEF IInv, TablesOK, RouteOK
  <2>8. edge[cur_id][n] + dist[n][destination] = dist[cur_id][destination]
    BY <1>2, <2>1, <2>3, <2>5, <2>6, NextHopFits
  <2>9. destination = Abstract!to
    BY DEF destination, Abstract!to
  <2>10. cur_id # 0 /\ n \in Abstract!Node
    BY <1>2 DEF Node, Abstract!Node
  <2>11. edge[cur_id][n] < INF
    BY <2>7 DEF Neighbors
  <2>12. Abstract!Hop
    BY <2>1, <2>2, <2>6, <2>8, <2>9, <2>10, <2>11 DEF Abstract!Hop
  <2> QED
    BY <2>12 DEF Abstract!Next
<1>9. CASE Arrive
  <2>1. /\ stage = "forward" /\ cur_id = destination /\ stage' = "messages"
        /\ msg' = msg + 1 /\ UNCHANGED <<edge, dist>>
    BY <1>9 DEF Arrive, routes
  <2>2. Stable /\ Stable' /\ At = cur_id /\ At' = 0 /\ Announced = dist /\ Announced' = dist
    BY <2>1 DEF Stable, At, Announced
  <2>3. cur_id # 0 /\ destination = Abstract!to
    BY <1>2 DEF Node, destination, Abstract!to
  <2> QED
    BY <2>1, <2>2, <2>3 DEF Abstract!Next, Abstract!Deliver
<1>10. CASE Finish
  BY <1>10 DEF Finish, routes, forwarding, Abstract!vars, Stable, Announced, At
<1>11. CASE Change
  <2>1. PICK i, j \in Node, cost \in LinkCosts : i # j /\ ChangeLink(i, j, cost, Node \X Node)
    BY <1>11 DEF Change
  <2>2. /\ stage = "messages" /\ stage' = "routes" /\ msg > Len(Messages) /\ msg' = 1
        /\ edge' = Both(edge, i, j, cost)
    BY <2>1 DEF ChangeLink, parseLineChange
  <2>3. Stable /\ ~ Stable' /\ At = 0 /\ At' = 0
    BY <2>2 DEF Stable, At
  <2>4. cost \in 0..INF /\ i \in Abstract!Node /\ j \in Abstract!Node
    BY GraphAssumption DEF LinkCosts, Node, Abstract!Node
  <2>5. edge' = [edge EXCEPT ![i] = [@ EXCEPT ![j] = cost], ![j] = [@ EXCEPT ![i] = cost]]
    BY <2>2 DEF Both
  <2>6. Stable' = FALSE /\ NumNodes \in NumNodes..NumNodes
    BY <2>2 DEF Stable
  <2>7. Abstract!Change
    BY <2>1, <2>2, <2>3, <2>4, <2>5, <2>6 DEF Abstract!Change
  <2> QED
    BY <2>7 DEF Abstract!Next
<1> QED
  BY <1>3, <1>4, <1>5, <1>6, <1>7, <1>8, <1>9, <1>10, <1>11 DEF Next, Output

\* The distance vector program implements the abstract routing program.
THEOREM Refinement == Spec => Implements
<1>1. IInv /\ IInv' /\ [Next]_vars => [Abstract!Next]_(Abstract!vars)
  BY StepRefines
<1> QED
  BY <1>1, InitRefines, Invariant, PTL DEF Spec, Implements, Abstract!Spec
=============================================================================
