---------------------------- MODULE LinkStateProofs ----------------------------
(***************************************************************************)
(* Proofs about LinkState, for every number of nodes, every topology,      *)
(* every list of messages and every sequence of changes, those that add    *)
(* nodes included.                                                         *)
(*                                                                         *)
(* A row of the tables is either fresh, as parsing and clearing leave it,  *)
(* or done, or the one the search is at (SearchOK).  Distances are         *)
(* compared with every q that is nowhere above the cost of the paths from  *)
(* a node (Lower): the shortest paths are the largest such q.              *)
(***************************************************************************)
EXTENDS LinkState, GraphProofs, FiniteSetTheorems, WellFoundedInduction, TLAPS

\* A cost that NumNodes edges may have without reaching INF.
MaxCost == (INF - 1) \div NumNodes

\* Links have two directions, cost something of Costs, and join nodes that
\* are there, whose vectors reach as far as the links.
EdgesOK ==
  \A i, j \in Node :
    /\ edge[i][i] = 0
    /\ edge[i][j] = edge[j][i]
    /\ edge[i][j] < INF =>
         /\ j <= len[i]
         /\ i # j => i <= size /\ j <= size /\ edge[i][j] \in Costs

Lower(q, i) ==
  /\ q[i] = 0
  /\ \A n, d \in Node : edge[n][d] < INF => q[d] <= q[n] + edge[n][d]

NotTooShort(i) ==
  \A q \in [Node -> 0..INF] : Lower(q, i) => \A d \in Node : q[d] <= dist[i][d]

InVector(i) == \A d \in Node : dist[i][d] < INF => d <= len[i]

\* The own entry keeps the ancestor that an edge of cost zero may have given it.
OwnOK(i) == dist[i][i] = 0 /\ ancestor[i][i] \in 1..len[i]

\* The route to d comes from the neighbor of d with the smallest number of
\* those in S on a shortest path.
LastHopOK(i, d, S) ==
  LET a == ancestor[i][d]
  IN  /\ a \in S \cup {i}
      /\ a # d
      /\ edge[a][d] < INF
      /\ dist[i][d] = dist[i][a] + edge[a][d]
      /\ 0 \notin Costs =>
           \A t \in S : t # d /\ edge[t][d] < INF /\ dist[i][d] = dist[i][t] + edge[t][d]
                          => a <= t

\* The next hop is a neighbor from which what is left of the distance suffices.
NextHopOK(i, d) ==
  LET x == nexthop[i][d]
  IN  /\ x \in Node
      /\ edge[i][x] < INF
      /\ \A q \in [Node -> 0..INF] : Lower(q, x) => q[d] + edge[i][x] <= dist[i][d]

\* Parsing gives an entry without an edge the ancestor 0, and then the own entry
\* has itself for an ancestor.
RowFresh(i) ==
  /\ OwnOK(i)
  /\ ancestor[i][ancestor[i][i]] # 0
  /\ \A d \in Node \ {i} :
       /\ dist[i][d] = edge[i][d]
       /\ ancestor[i][d] \in {0, i}
       /\ edge[i][d] < INF => ancestor[i][d] = i

RowDone(i) ==
  /\ OwnOK(i)
  /\ InVector(i)
  /\ Lower(dist[i], i)
  /\ NotTooShort(i)
  /\ \A d \in Node \ {i} : dist[i][d] < INF => LastHopOK(i, d, Node) /\ NextHopOK(i, d)

IsDone(i) == IF stage = "routes" THEN i < node ELSE i <= size

RowsOK ==
  \A i \in Node :
    IF IsDone(i) THEN RowDone(i)
    ELSE phase = "start" \/ i # node => RowFresh(i)

-----------------------------------------------------------------------------
(* The search for the routes of node: Popped entries have left the heap,   *)
(* Passed ones have been visited.                                          *)

Popped == (1..len[node]) \ heap

Passed == IF phase = "climb" THEN Popped \ {temp_id} ELSE Popped

\* No distance is too short, what has left the heap is nearest and what was
\* visited is settled; the number of visits bounds the distances.
DistOK ==
  /\ OwnOK(node)
  /\ InVector(node)
  /\ NotTooShort(node)
  /\ \A v \in Popped : /\ dist[node][v] < INF
                       /\ \A d \in Node \ Popped : dist[node][v] <= dist[node][d]
  /\ \A t \in Passed, d \in Node :
       edge[t][d] < INF => dist[node][d] <= dist[node][t] + edge[t][d]
  /\ \A d \in Node :
       dist[node][d] < INF => dist[node][d] <= MaxCost * (Cardinality(Passed) + 1)

\* Ancestors were visited, and next hops are handed down from them.
RoutesOK ==
  /\ ancestor[node][ancestor[node][node]] # 0
  /\ \A d \in Node \ {node} :
       /\ ancestor[node][d] \in Passed \cup {0, node}
       /\ dist[node][d] < INF => LastHopOK(node, d, Passed)
       /\ d \in Passed =>
            /\ NextHopOK(node, d)
            /\ nexthop[node][d] = IF ancestor[node][d] = node THEN d
                                  ELSE nexthop[node][ancestor[node][d]]

\* The climb passes nodes that share the next hop that is looked for.
ClimbOK ==
  phase = "climb" =>
    /\ temp_id \in Popped
    /\ \A v \in Popped : dist[node][v] <= dist[node][temp_id]
    /\ temp_anc \in Node
    /\ ancestor[node][temp_anc] # 0
    /\ temp_id # node =>
         \/ temp_anc = temp_id
         \/ /\ ancestor[node][temp_id] # node
            /\ temp_anc \in Passed \ {node}
            /\ nexthop[node][temp_anc] = nexthop[node][ancestor[node][temp_id]]

SearchOK ==
  phase # "start" =>
    /\ node <= size
    /\ heap \subseteq 1..len[node]
    /\ DistOK
    /\ RoutesOK
    /\ ClimbOK

PlaceOK ==
  /\ node <= size + 1
  /\ stage # "routes" => node = 1 /\ phase = "start"
  /\ \A i \in Node : i <= len[i]

\* A message on its way is at a node that is there and has a route for it, and
\* has come on a shortest path.
ForwardOK ==
  stage = "forward" =>
    /\ source \in 1..size
    /\ destination \in 1..size
    /\ cur_id <= size
    /\ dist[cur_id][destination] < INF
    /\ walked + dist[cur_id][destination] = dist[source][destination]

IInv == TypeOK /\ EdgesOK /\ PlaceOK /\ RowsOK /\ SearchOK /\ ForwardOK

-----------------------------------------------------------------------------
\* NumNodes edges of any cost stay below INF.
LEMMA MaxCostFact ==
  /\ MaxCost \in Nat
  /\ MaxCost * NumNodes < INF
  /\ \A c \in Costs : c \in Nat /\ c <= MaxCost
<1> DEFINE M == (INF - 1) \div NumNodes
           R == (INF - 1) % NumNodes
<1>1. INF - 1 \in Nat
  BY Sizes
<1>2. M \in Nat /\ R \in 0..(NumNodes - 1) /\ INF - 1 = NumNodes * M + R
  BY <1>1, Sizes
<1> HIDE DEF M, R
<1>3. M * NumNodes < INF
  <2>1. NumNodes * M \in Nat /\ M * NumNodes = NumNodes * M
    BY <1>2, Sizes
  <2> QED
    BY <1>2, <2>1, Sizes
<1>4. ASSUME NEW c \in Costs PROVE c \in Nat /\ c <= M
  <2>1. c \in Nat /\ c * NumNodes < INF
    BY GraphAssumption, CostAssumption
  <2>2. ASSUME c >= M + 1 PROVE FALSE
    <3>1. PICK k \in Nat : c = M + 1 + k
      <4>1. c - M - 1 \in Nat /\ c = M + 1 + (c - M - 1)
        BY <1>2, <2>1, <2>2
      <4> QED
        BY <4>1
    <3>2. c * NumNodes = NumNodes * M + NumNodes + k * NumNodes
      BY <1>2, <3>1, Sizes
    <3>3. k * NumNodes \in Nat /\ NumNodes * M \in Nat
      BY <1>2, <3>1, Sizes
    <3> QED
      BY <1>2, <2>1, <3>2, <3>3, Sizes
  <2> QED
    BY <1>2, <2>1, <2>2
<1> QED
  BY <1>2, <1>3, <1>4 DEF M, MaxCost

\* The entries of the tables.
LEMMA Entries ==
  ASSUME TypeOK
  PROVE  \A i, d \in Node :
           /\ edge[i][d] \in 0..INF
           /\ dist[i][d] \in 0..INF
           /\ nexthop[i][d] \in 0..NumNodes
           /\ ancestor[i][d] \in 0..NumNodes
           /\ len[i] \in Node
BY DEF TypeOK

\* A link costs at most MaxCost.
LEMMA LinkCost ==
  ASSUME TypeOK, EdgesOK, NEW i \in Node, NEW j \in Node, edge[i][j] < INF
  PROVE  edge[i][j] \in Nat /\ edge[i][j] <= MaxCost
<1>1. CASE i = j
  BY <1>1, MaxCostFact DEF EdgesOK
<1>2. CASE i # j
  BY <1>2, MaxCostFact DEF EdgesOK
<1> QED
  BY <1>1, <1>2

\* A nonempty set of nodes has a smallest member by any measure.
LEMMA HasSmallest ==
  ASSUME NEW S, S \subseteq Node, S # {}, NEW f \in [S -> Nat]
  PROVE  \E t \in S : \A u \in S : f[t] <= f[u]
<1> DEFINE R == OpToRel(<, Nat)
           T == {f[n] : n \in S}
<1>1. IsWellFoundedOn(R, Nat)
  BY NatLessThanWellFounded
<1>2. T \subseteq Nat /\ T # {}
  OBVIOUS
<1>3. \A x, y \in Nat : x < y => <<x, y>> \in R
  BY DEF OpToRel
<1> HIDE DEF R
<1>4. PICK x \in T : \A y \in T : ~ (<<y, x>> \in R)
  BY <1>1, <1>2, WFMin
<1>5. PICK t \in S : x = f[t]
  OBVIOUS
<1>6. \A u \in S : f[t] <= f[u]
  <2> TAKE u \in S
  <2>1. f[u] \in T /\ f[u] \in Nat /\ f[t] \in Nat
    OBVIOUS
  <2>2. ~ (f[u] < f[t])
    BY <1>3, <1>4, <1>5, <2>1
  <2> QED
    BY <2>1, <2>2
<1> QED
  BY <1>6

-----------------------------------------------------------------------------
\* The tables that parsing creates are fresh.
LEMMA InitInv == Init => IInv
<1> SUFFICES ASSUME Init PROVE IInv
  OBVIOUS
<1> USE Sizes
<1>0. PICK named \in SUBSET Links : \E cost \in [named -> LinkCosts] :
        /\ edge = [i \in Node |-> [j \in Node |->
                    IF i = j THEN 0 ELSE IF {i, j} \in named THEN cost[{i, j}] ELSE INF]]
        /\ nexthop = Direct(named)
  BY DEF Init, GraphInit
<1>1. PICK cost \in [named -> LinkCosts] :
        /\ edge = [i \in Node |-> [j \in Node |->
                    IF i = j THEN 0 ELSE IF {i, j} \in named THEN cost[{i, j}] ELSE INF]]
        /\ nexthop = Direct(named)
  BY <1>0
<1>2. /\ \A i, j \in Node : edge[i][j] = IF i = j THEN 0
                                        ELSE IF {i, j} \in named THEN cost[{i, j}] ELSE INF
      /\ \A i, j \in Node : nexthop[i][j] = IF i = j \/ {i, j} \in named THEN j ELSE 0
      /\ \A i, j \in Node : {j, i} = {i, j}
  BY <1>1 DEF Direct
<1>3. \A i, j \in Node :
        /\ edge[i][j] \in 0..INF
        /\ i = j => edge[i][j] = 0
        /\ i # j => edge[i][j] \in LinkCosts
        /\ edge[i][j] = edge[j][i]
  <2>1. LinkCosts \subseteq 0..INF /\ INF \in LinkCosts /\ 0 \in 0..INF
    BY GraphAssumption DEF LinkCosts
  <2>2. \A l \in named : cost[l] \in LinkCosts
    BY <1>1
  <2> TAKE i, j \in Node
  <2>3. CASE i = j
    BY <1>2, <2>1, <2>3
  <2>4. CASE i # j
    <3>1. edge[i][j] = edge[j][i]
      <4>1. {j, i} = {i, j} /\ ~ (j = i)
        BY <2>4
      <4>2. edge[i][j] = IF {i, j} \in named THEN cost[{i, j}] ELSE INF
        BY <1>2, <2>4
      <4>3. edge[j][i] = IF {j, i} \in named THEN cost[{j, i}] ELSE INF
        BY <1>2, <4>1
      <4> QED
        BY <4>1, <4>2, <4>3
    <3>2. edge[i][j] \in LinkCosts
      BY <1>2, <2>1, <2>2, <2>4
    <3> QED
      BY <2>1, <2>4, <3>1, <3>2
  <2> QED
    BY <2>3, <2>4
<1>4. edge \in [Node -> [Node -> 0..INF]]
  <2>1. \A i \in Node : edge[i] = [j \in Node |->
          IF i = j THEN 0 ELSE IF {i, j} \in named THEN cost[{i, j}] ELSE INF]
    BY <1>1
  <2>2. \A i \in Node : edge[i] \in [Node -> 0..INF]
    BY <1>3, <2>1
  <2> QED
    BY <1>1, <2>2
<1>5. /\ size \in 0..NumNodes
      /\ len = [i \in Node |-> Larger(i, size)]
      /\ \A i \in Node : IsNamed(i) => i <= size
      /\ dist = edge
      /\ ancestor = Own
      /\ stage = "routes" /\ msg = 1 /\ cur_id = 1 /\ walked = 0 /\ changes = 0
      /\ own_visited = {} /\ phase = "start" /\ node = 1 /\ heap = {}
  BY DEF Init, GraphInit, FirstNode
<1>11. \A i, j \in Node : i # j /\ edge[i][j] < INF =>
         nexthop[i][j] # 0 /\ i <= size /\ j <= size
  <2> SUFFICES ASSUME NEW i \in Node, NEW j \in Node, i # j, edge[i][j] < INF
               PROVE  nexthop[i][j] # 0 /\ i <= size /\ j <= size
    OBVIOUS
  <2>1. {i, j} \in named /\ {j, i} \in named
    BY <1>2
  <2>2. nexthop[i][j] = j /\ nexthop[j][i] = i
    BY <1>2, <2>1
  <2>3. i # 0 /\ j # 0
    BY DEF Node
  <2>4. IsNamed(i) /\ IsNamed(j)
    BY <2>2, <2>3 DEF IsNamed
  <2> QED
    BY <1>5, <2>2, <2>3, <2>4
<1>12. \A i, j \in Node : /\ ancestor[i][j] \in {0, i}
                          /\ i = j \/ edge[i][j] < INF => ancestor[i][j] = i
  <2> SUFFICES ASSUME NEW i \in Node, NEW j \in Node
               PROVE  /\ ancestor[i][j] \in {0, i}
                      /\ i = j \/ edge[i][j] < INF => ancestor[i][j] = i
    OBVIOUS
  <2>1. ancestor[i][j] = IF IsPushed(i, j) THEN 0 ELSE i
    BY <1>5 DEF Own
  <2>2. IsPushed(i, j) => i < j /\ nexthop[i][j] = 0
    BY <1>5 DEF IsPushed, Node
  <2>3. i = j \/ edge[i][j] < INF => ~ IsPushed(i, j)
    BY <1>11, <2>2 DEF Node
  <2> QED
    BY <2>1, <2>3
<1>6. \A i \in Node : len[i] \in Node /\ i <= len[i] /\ size <= len[i]
  BY <1>5 DEF Larger, Node
<1>7. TypeOK
  <2>1. len \in [Node -> Node]
    BY <1>5, <1>6
  <2>2. /\ nexthop \in [Node -> [Node -> 0..NumNodes]]
        /\ ancestor \in [Node -> [Node -> 0..NumNodes]]
    BY <1>1, <1>5 DEF Direct, Own, Node
  <2>3. dist \in [Node -> [Node -> 0..INF]]
    BY <1>4, <1>5
  <2>4. 1 \in Node /\ 1 \in 1..(NumNodes + 1)
    BY DEF Node
  <2> QED
    BY <1>4, <1>5, <2>1, <2>2, <2>3, <2>4 DEF TypeOK
<1>8. EdgesOK
  <2> SUFFICES ASSUME NEW i \in Node, NEW j \in Node
               PROVE  /\ edge[i][i] = 0
                      /\ edge[i][j] = edge[j][i]
                      /\ edge[i][j] < INF =>
                           /\ j <= len[i]
                           /\ i # j => i <= size /\ j <= size /\ edge[i][j] \in Costs
    BY DEF EdgesOK
  <2>1. CASE i = j
    BY <1>3, <1>6, <2>1
  <2>2. CASE i # j
    <3>1. ASSUME edge[i][j] < INF PROVE i <= size /\ j <= size /\ edge[i][j] \in Costs
      <4>2. i <= size /\ j <= size
        BY <1>11, <2>2, <3>1
      <4>3. edge[i][j] \in Costs
        BY <1>3, <2>2, <3>1 DEF LinkCosts
      <4> QED
        BY <4>2, <4>3
    <3> QED
      BY <1>3, <1>5, <1>6, <2>2, <3>1 DEF Node
  <2> QED
    BY <2>1, <2>2
<1>9. PlaceOK
  BY <1>5, <1>6 DEF PlaceOK
<1>10. RowsOK
  <2>1. ASSUME NEW i \in Node PROVE RowFresh(i)
    <3>1. ancestor[i][i] = i /\ i # 0 /\ i \in 1..len[i]
      <4>1. i \in Nat /\ 1 <= i /\ len[i] \in Nat /\ i <= len[i]
        BY <1>6, NodeRange
      <4> QED
        BY <1>12, <4>1
    <3>2. OwnOK(i)
      BY <1>3, <1>5, <3>1 DEF OwnOK
    <3> QED
      BY <1>5, <1>12, <3>1, <3>2 DEF RowFresh, OwnOK
  <2> QED
    BY <1>5, <2>1 DEF RowsOK, IsDone, Node
<1> QED
  BY <1>5, <1>7, <1>8, <1>9, <1>10 DEF IInv, SearchOK, ForwardOK

-----------------------------------------------------------------------------
(* Steps that leave the tables alone.                                      *)

\* What is said of a row depends on the tables only.
LEMMA SameRows ==
  ASSUME UNCHANGED <<edge, dist, nexthop, ancestor, len>>
  PROVE  /\ \A i \in Node : RowDone(i)' = RowDone(i)
         /\ \A i \in Node : RowFresh(i)' = RowFresh(i)
         /\ size' = size => EdgesOK' = EdgesOK
<1>1. \A i \in Node : RowDone(i)' = RowDone(i)
  BY DEF RowDone, OwnOK, InVector, Lower, NotTooShort, LastHopOK, NextHopOK
<1>2. \A i \in Node : RowFresh(i)' = RowFresh(i)
  BY DEF RowFresh, OwnOK
<1>3. size' = size => EdgesOK' = EdgesOK
  BY DEF EdgesOK
<1> QED
  BY <1>1, <1>2, <1>3

\* A fresh row has the costs of the edges, which are not too short.
LEMMA FreshRow ==
  ASSUME TypeOK, EdgesOK, NEW i \in Node, RowFresh(i)
  PROVE  /\ \A d \in Node : dist[i][d] = edge[i][d]
         /\ OwnOK(i) /\ InVector(i) /\ NotTooShort(i)
<1> USE Sizes
<1>1. \A d \in Node : dist[i][d] = edge[i][d]
  BY DEF RowFresh, OwnOK, EdgesOK
<1>2. OwnOK(i) /\ InVector(i)
  BY <1>1 DEF RowFresh, InVector, EdgesOK
<1>3. NotTooShort(i)
  <2> SUFFICES ASSUME NEW q \in [Node -> 0..INF], Lower(q, i), NEW d \in Node
               PROVE  q[d] <= dist[i][d]
    BY DEF NotTooShort
  <2>1. q[i] = 0 /\ q[d] \in 0..INF /\ edge[i][d] \in 0..INF
    BY Entries DEF Lower
  <2>2. edge[i][d] < INF => q[d] <= q[i] + edge[i][d]
    BY DEF Lower
  <2> QED
    BY <1>1, <2>1, <2>2
<1> QED
  BY <1>1, <1>2, <1>3

\* Nothing is popped yet: the row is fresh.
LEMMA StartStep == IInv /\ Start => IInv'
<1> SUFFICES ASSUME IInv, Start PROVE IInv'
  OBVIOUS
<1> USE Sizes
<1>1. /\ stage = "routes" /\ phase = "start" /\ node <= size
      /\ heap' = 1..len[node] /\ phase' = "pop"
      /\ UNCHANGED <<edge, dist, nexthop, stage, msg, cur_id, walked, changes, size, len,
                     ancestor, own_visited, node, temp_id, temp_anc>>
  BY DEF Start, routes, forwarding, sizes
<1>2. TypeOK /\ EdgesOK /\ PlaceOK /\ RowsOK
  BY DEF IInv
<1>3. node \in Node /\ len[node] \in Node /\ node <= len[node]
  <2>1. node \in Node
    BY <1>1, <1>2 DEF TypeOK, Node
  <2> QED
    BY <1>2, <2>1, Entries DEF PlaceOK
<1>4. RowFresh(node)
  BY <1>1, <1>2, <1>3 DEF RowsOK, IsDone, Node
<1>5. TypeOK'
  <2>1. heap' \subseteq Node
    BY <1>1, <1>3 DEF Node
  <2> QED
    BY <1>1, <1>2, <2>1 DEF TypeOK
<1>6. EdgesOK' /\ PlaceOK' /\ ForwardOK'
  BY <1>1, <1>2, SameRows DEF PlaceOK, ForwardOK
<1>7. RowsOK'
  BY <1>1, <1>2, SameRows DEF RowsOK, IsDone
<1>8. Popped' = {} /\ Passed' = {}
  BY <1>1 DEF Popped, Passed
<1>9. /\ \A d \in Node : dist[node][d] = edge[node][d]
      /\ OwnOK(node) /\ InVector(node) /\ NotTooShort(node)
  BY <1>2, <1>3, <1>4, FreshRow
<1>10. DistOK'
  <2>1. \A d \in Node : dist[node][d] < INF => dist[node][d] <= MaxCost
    BY <1>2, <1>3, <1>9, LinkCost
  <2>2. MaxCost * (Cardinality({}) + 1) = MaxCost
    BY MaxCostFact, FS_EmptySet
  <2>3. OwnOK(node)' /\ InVector(node)' /\ NotTooShort(node)'
    BY <1>1, <1>9 DEF OwnOK, InVector, NotTooShort, Lower
  <2> QED
    BY <1>1, <1>8, <2>1, <2>2, <2>3 DEF DistOK
<1>11. RoutesOK'
  <2>1. \A d \in Node \ {node} : /\ ancestor[node][d] \in {0, node}
                                 /\ edge[node][d] < INF => ancestor[node][d] = node
    BY <1>4 DEF RowFresh
  <2>3. ancestor[node][ancestor[node][node]] # 0
    BY <1>4 DEF RowFresh
  <2>4. ASSUME NEW d \in Node \ {node}, dist[node][d] < INF PROVE LastHopOK(node, d, {})
    <3>1. ancestor[node][d] = node /\ dist[node][node] = 0 /\ edge[node][d] < INF
          /\ edge[node][d] \in 0..INF
      BY <1>2, <1>3, <1>9, <2>1, <2>4, Entries DEF OwnOK
    <3> QED
      BY <1>9, <3>1 DEF LastHopOK
  <2> QED
    BY <1>1, <1>8, <2>1, <2>3, <2>4 DEF RoutesOK, LastHopOK
<1>12. SearchOK'
  BY <1>1, <1>10, <1>11 DEF SearchOK, ClimbOK
<1> QED
  BY <1>5, <1>6, <1>7, <1>12 DEF IInv

\* What the invariant says while the search for one node runs.
LEMMA InSearch ==
  ASSUME IInv, phase # "start"
  PROVE  /\ TypeOK /\ EdgesOK /\ PlaceOK /\ RowsOK
         /\ DistOK /\ RoutesOK /\ ClimbOK
         /\ stage = "routes"
         /\ node \in Node /\ node <= size
         /\ len[node] \in Node /\ node <= len[node]
         /\ heap \subseteq 1..len[node]
         /\ Popped \subseteq 1..len[node] /\ Popped \subseteq Node
         /\ Passed \subseteq Popped
<1> USE Sizes
<1>1. /\ TypeOK /\ EdgesOK /\ PlaceOK /\ RowsOK
      /\ DistOK /\ RoutesOK /\ ClimbOK
      /\ node <= size
      /\ heap \subseteq 1..len[node]
  BY DEF IInv, SearchOK
<1>2. stage = "routes"
  BY <1>1 DEF PlaceOK, TypeOK
<1>3. node \in Node
  BY <1>1 DEF TypeOK, Node
<1>4. len[node] \in Node /\ node <= len[node]
  BY <1>1, <1>3, Entries DEF PlaceOK
<1>5. Popped \subseteq 1..len[node] /\ Popped \subseteq Node
  BY <1>4 DEF Popped, Node
<1>6. Passed \subseteq Popped
  BY DEF Passed
<1> QED
  BY <1>1, <1>2, <1>3, <1>4, <1>5, <1>6

\* The heap gives out an entry with the smallest distance.
LEMMA PopIsSmallest ==
  ASSUME TypeOK, node \in Node, ~ NothingToPop
  PROVE  /\ pop_heap \in heap
         /\ dist[node][pop_heap] < INF
         /\ \A u \in heap : dist[node][pop_heap] <= dist[node][u]
<1> USE Sizes
<1>1. heap \subseteq Node /\ \A u \in heap : dist[node][u] \in 0..INF
  BY Entries DEF TypeOK
<1>2. PICK h \in heap : dist[node][h] < INF
  BY <1>1 DEF NothingToPop
<1> DEFINE f == [u \in heap |-> dist[node][u]]
<1>3. PICK s \in heap : \A u \in heap : dist[node][s] <= dist[node][u]
  <2>1. f \in [heap -> Nat] /\ heap # {}
    BY <1>1, <1>2
  <2>2. \E t \in heap : \A u \in heap : f[t] <= f[u]
    BY <1>1, <2>1, HasSmallest
  <2> QED
    BY <2>2
<1> DEFINE S == {u \in heap : dist[node][u] = dist[node][s]}
           g == [u \in S |-> u]
<1>4. PICK t \in S : \A u \in S : t <= u
  <2>1. S \subseteq Node /\ s \in S
    BY <1>1
  <2>2. \A u \in Node : u \in Nat
    BY DEF Node
  <2>3. g \in [S -> Nat] /\ S # {}
    BY <2>1, <2>2
  <2>4. \E t \in S : \A u \in S : g[t] <= g[u]
    BY <2>1, <2>3, HasSmallest
  <2> QED
    BY <2>4
<1>5. \A u \in heap : \/ dist[node][t] < dist[node][u]
                      \/ dist[node][t] = dist[node][u] /\ t <= u
  BY <1>1, <1>3, <1>4
<1>6. /\ pop_heap \in heap
      /\ \A u \in heap : \/ dist[node][pop_heap] < dist[node][u]
                         \/ dist[node][pop_heap] = dist[node][u] /\ pop_heap <= u
  BY <1>5 DEF pop_heap
<1>7. \A u \in heap : dist[node][pop_heap] <= dist[node][u]
  BY <1>1, <1>6
<1> QED
  BY <1>1, <1>2, <1>6, <1>7

\* What leaves the heap is nearest.
LEMMA PopStep == IInv /\ Pop => IInv'
<1> SUFFICES ASSUME IInv, Pop PROVE IInv'
  OBVIOUS
<1> USE Sizes
<1> DEFINE t == pop_heap
<1>1. /\ phase = "pop" /\ ~ NothingToPop
      /\ temp_id' = t /\ temp_anc' = t /\ heap' = heap \ {t} /\ phase' = "climb"
      /\ own_visited' \subseteq own_visited \cup {node}
      /\ UNCHANGED <<edge, dist, nexthop, stage, msg, cur_id, walked, changes, size, len,
                     ancestor, node>>
  BY DEF Pop, routes, forwarding, sizes
<1>2. /\ TypeOK /\ EdgesOK /\ PlaceOK /\ RowsOK
      /\ DistOK /\ RoutesOK
      /\ stage = "routes"
      /\ node \in Node /\ node <= size
      /\ len[node] \in Node /\ node <= len[node]
      /\ heap \subseteq 1..len[node]
      /\ Popped \subseteq 1..len[node] /\ Popped \subseteq Node
      /\ Passed = Popped
  BY <1>1, InSearch DEF Passed
<1>3. /\ t \in heap
      /\ dist[node][t] < INF
      /\ \A u \in heap : dist[node][t] <= dist[node][u]
  BY <1>1, <1>2, PopIsSmallest
<1> HIDE DEF t
<1>4. t \in Node /\ t \in 1..len[node] /\ t \notin Popped
  BY <1>2, <1>3 DEF TypeOK, Popped
<1>5. TypeOK'
  BY <1>1, <1>2, <1>4 DEF TypeOK
<1>6. EdgesOK' /\ PlaceOK' /\ ForwardOK'
  BY <1>1, <1>2, SameRows DEF PlaceOK, ForwardOK
<1>7. RowsOK'
  BY <1>1, <1>2, SameRows DEF RowsOK, IsDone
<1>8. Popped' = Popped \cup {t} /\ Passed' = Popped
  BY <1>1, <1>4 DEF Popped, Passed
<1>9. \A d \in Node : dist[node][d] \in 0..INF
  BY <1>2, Entries
<1>10. \A v \in Popped : dist[node][v] <= dist[node][t]
  BY <1>2, <1>4 DEF DistOK
<1>11. \A d \in Node \ Popped' : dist[node][t] <= dist[node][d]
  <2> TAKE d \in Node \ Popped'
  <2>1. CASE d \in heap
    BY <1>3, <2>1
  <2>2. CASE d \notin heap
    <3>1. ~ (d <= len[node])
      BY <1>2, <1>8, <2>2 DEF Popped, Node
    <3>2. ~ (dist[node][d] < INF)
      BY <1>2, <3>1 DEF DistOK, InVector
    <3> QED
      BY <1>3, <1>4, <1>9, <3>2
  <2> QED
    BY <2>1, <2>2
<1>12. DistOK'
  <2>1. OwnOK(node)' /\ InVector(node)' /\ NotTooShort(node)'
    BY <1>1, <1>2 DEF DistOK, OwnOK, InVector, NotTooShort, Lower
  <2>2. \A v \in Popped' : /\ dist[node][v] < INF
                           /\ \A d \in Node \ Popped' : dist[node][v] <= dist[node][d]
    BY <1>2, <1>3, <1>8, <1>11 DEF DistOK
  <2> QED
    BY <1>1, <1>2, <1>8, <2>1, <2>2 DEF DistOK
<1>13. RoutesOK'
  BY <1>1, <1>2, <1>8 DEF RoutesOK, LastHopOK, NextHopOK, Lower
<1>14. ancestor[node][t] # 0
  <2>1. CASE t = node
    <3>1. ancestor[node][node] \in 1..len[node]
      BY <1>2 DEF DistOK, OwnOK
    <3> QED
      BY <1>2, <2>1, <3>1 DEF Node
  <2>2. CASE t # node
    <3>1. ancestor[node][t] \in Passed \cup {node}
      BY <1>2, <1>3, <1>4, <2>2 DEF RoutesOK, LastHopOK
    <3> QED
      BY <1>2, <3>1 DEF Node
  <2> QED
    BY <2>1, <2>2
<1>15. ClimbOK'
  BY <1>1, <1>4, <1>8, <1>9, <1>10, <1>14 DEF ClimbOK
<1>16. SearchOK'
  BY <1>1, <1>2, <1>12, <1>13, <1>15 DEF SearchOK
<1> QED
  BY <1>5, <1>6, <1>7, <1>16 DEF IInv

\* The climb goes from an entry to the ancestor of the same next hop.
LEMMA ClimbStep == IInv /\ Climb => IInv'
<1> SUFFICES ASSUME IInv, Climb PROVE IInv'
  OBVIOUS
<1> USE Sizes
<1> DEFINE y == ancestor[node][temp_anc]
<1>1. /\ phase = "climb" /\ y # node /\ temp_anc' = y
      /\ UNCHANGED <<edge, dist, nexthop, stage, msg, cur_id, walked, changes, size, len,
                     ancestor, own_visited, phase, node, heap, temp_id>>
  BY DEF Climb, routes, forwarding, sizes
<1>2. /\ TypeOK /\ EdgesOK /\ PlaceOK /\ RowsOK
      /\ DistOK /\ RoutesOK /\ ClimbOK
      /\ node \in Node /\ node <= size
      /\ len[node] \in Node
      /\ heap \subseteq 1..len[node]
      /\ Popped \subseteq Node
      /\ Passed = Popped \ {temp_id}
  BY <1>1, InSearch DEF Passed
<1>3. /\ temp_id \in Popped /\ temp_anc \in Node /\ y # 0
      /\ temp_id # node =>
           \/ temp_anc = temp_id
           \/ /\ ancestor[node][temp_id] # node
              /\ temp_anc \in Passed \ {node}
              /\ nexthop[node][temp_anc] = nexthop[node][ancestor[node][temp_id]]
  BY <1>1, <1>2 DEF ClimbOK
<1>4. y \in Node
  BY <1>2, <1>3, Entries DEF Node
<1>5. temp_anc # node => y \in Passed \ {node}
  BY <1>1, <1>2, <1>3 DEF RoutesOK
<1>6. ancestor[node][y] # 0
  <2>1. CASE temp_anc = node
    BY <1>2, <2>1 DEF RoutesOK
  <2>2. CASE temp_anc # node
    <3>1. y \in Passed \ {node} /\ y \in Popped
      BY <1>2, <1>5, <2>2
    <3>2. dist[node][y] < INF
      BY <1>2, <3>1 DEF DistOK
    <3>3. ancestor[node][y] \in Passed \cup {node}
      BY <1>2, <1>4, <3>1, <3>2 DEF RoutesOK, LastHopOK
    <3> QED
      BY <1>2, <3>3 DEF Node
  <2> QED
    BY <2>1, <2>2
<1>7. ASSUME temp_id # node
      PROVE  /\ ancestor[node][temp_id] # node
             /\ y \in Passed \ {node}
             /\ nexthop[node][y] = nexthop[node][ancestor[node][temp_id]]
  <2>1. CASE temp_anc = temp_id
    BY <1>1, <1>5, <1>7, <2>1
  <2>2. CASE temp_anc # temp_id
    <3>1. temp_anc \in Passed \ {node} /\ temp_anc \in Node
      BY <1>3, <1>7, <2>2
    <3>2. nexthop[node][temp_anc] = nexthop[node][y]
      BY <1>1, <1>2, <3>1 DEF RoutesOK
    <3> QED
      BY <1>3, <1>5, <1>7, <2>2, <3>1, <3>2
  <2> QED
    BY <2>1, <2>2
<1> HIDE DEF y
<1>8. TypeOK'
  BY <1>1, <1>2, <1>4 DEF TypeOK
<1>9. EdgesOK' /\ PlaceOK' /\ ForwardOK'
  BY <1>1, <1>2, SameRows DEF PlaceOK, ForwardOK, IInv
<1>10. RowsOK'
  BY <1>1, <1>2, SameRows DEF RowsOK, IsDone
<1>11. Popped' = Popped /\ Passed' = Passed
  BY <1>1 DEF Popped, Passed
<1>12. DistOK'
  BY <1>1, <1>2, <1>11 DEF DistOK, OwnOK, InVector, NotTooShort, Lower
<1>13. RoutesOK'
  BY <1>1, <1>2, <1>11 DEF RoutesOK, LastHopOK, NextHopOK, Lower
<1>14. ClimbOK'
  <2>1. \A v \in Popped : dist[node][v] <= dist[node][temp_id]
    BY <1>1, <1>2 DEF ClimbOK
  <2> QED
    BY <1>1, <1>3, <1>4, <1>6, <1>7, <1>11, <2>1 DEF ClimbOK
<1>15. SearchOK'
  BY <1>1, <1>2, <1>12, <1>13, <1>14 DEF SearchOK
<1> QED
  BY <1>8, <1>9, <1>10, <1>15 DEF IInv

-----------------------------------------------------------------------------
\* Nothing is left to pop: the row is done.
LEMMA NextNodeStep == IInv /\ NextNode => IInv'
<1> SUFFICES ASSUME IInv, NextNode PROVE IInv'
  OBVIOUS
<1> USE Sizes
<1>1. /\ phase = "pop" /\ NothingToPop
      /\ phase' = "start" /\ node' = node + 1
      /\ UNCHANGED <<edge, dist, nexthop, stage, msg, cur_id, walked, changes, size, len,
                     ancestor, own_visited, heap, temp_id, temp_anc>>
  BY DEF NextNode, routes, forwarding, sizes
<1>2. /\ TypeOK /\ EdgesOK /\ PlaceOK /\ RowsOK
      /\ DistOK /\ RoutesOK
      /\ stage = "routes"
      /\ node \in Node /\ node <= size
      /\ len[node] \in Node
      /\ heap \subseteq 1..len[node]
      /\ Popped \subseteq Node
      /\ Passed = Popped
  BY <1>1, InSearch DEF Passed
<1>3. \A i, d \in Node : dist[i][d] \in 0..INF /\ edge[i][d] \in 0..INF
  BY <1>2, Entries
<1>4. \A d \in Node \ Popped : dist[node][d] = INF
  <2> TAKE d \in Node \ Popped
  <2>1. CASE d \in heap
    BY <1>1, <1>2, <1>3, <2>1 DEF NothingToPop
  <2>2. CASE d \notin heap
    <3>1. ~ (d <= len[node])
      BY <1>2, <2>2 DEF Popped, Node
    <3>2. ~ (dist[node][d] < INF)
      BY <1>2, <3>1 DEF DistOK, InVector
    <3> QED
      BY <1>2, <1>3, <3>2
  <2> QED
    BY <2>1, <2>2
<1>5. Lower(dist[node], node)
  <2>1. dist[node][node] = 0
    BY <1>2 DEF DistOK, OwnOK
  <2>2. ASSUME NEW n \in Node, NEW d \in Node, edge[n][d] < INF
        PROVE  dist[node][d] <= dist[node][n] + edge[n][d]
    <3>1. CASE n \in Popped
      BY <1>2, <2>2, <3>1 DEF DistOK
    <3>2. CASE n \notin Popped
      BY <1>2, <1>3, <1>4, <3>2
    <3> QED
      BY <3>1, <3>2
  <2> QED
    BY <2>1, <2>2 DEF Lower
<1>6. ASSUME NEW d \in Node \ {node}, dist[node][d] < INF
      PROVE  LastHopOK(node, d, Node) /\ NextHopOK(node, d)
  <2>1. d \in Popped
    BY <1>2, <1>3, <1>4, <1>6
  <2>2. NextHopOK(node, d) /\ LastHopOK(node, d, Popped)
    BY <1>2, <1>6, <2>1 DEF RoutesOK
  <2>3. \A t \in Node : edge[t][d] < INF /\ dist[node][d] = dist[node][t] + edge[t][d]
                          => t \in Popped
    BY <1>2, <1>3, <1>4, <1>6
  <2>4. LastHopOK(node, d, Node)
    BY <1>2, <2>2, <2>3 DEF LastHopOK
  <2> QED
    BY <2>2, <2>4
<1>7. RowDone(node)
  BY <1>2, <1>5, <1>6 DEF RowDone, DistOK
<1>8. TypeOK'
  <2>1. node + 1 \in 1..(NumNodes + 1)
    BY <1>2 DEF Node
  <2> QED
    BY <1>1, <1>2, <2>1 DEF TypeOK
<1>9. EdgesOK' /\ PlaceOK' /\ ForwardOK'
  BY <1>1, <1>2, SameRows DEF PlaceOK, ForwardOK, TypeOK, Node
<1>10. RowsOK'
  <2> SUFFICES ASSUME NEW i \in Node
               PROVE  IF i < node + 1 THEN RowDone(i) ELSE RowFresh(i)
    BY <1>1, <1>2, SameRows DEF RowsOK, IsDone
  <2>1. node \in Int /\ i \in Int
    BY <1>2 DEF Node
  <2>2. IF i < node THEN RowDone(i) ELSE i # node => RowFresh(i)
    BY <1>1, <1>2 DEF RowsOK, IsDone
  <2> QED
    BY <1>7, <2>1, <2>2
<1> QED
  BY <1>1, <1>8, <1>9, <1>10 DEF IInv, SearchOK

\* The search has passed the last node.
LEMMA EndSearchStep == IInv /\ EndSearch => IInv'
<1> SUFFICES ASSUME IInv, EndSearch PROVE IInv'
  OBVIOUS
<1> USE Sizes
<1>1. /\ stage = "routes" /\ phase = "start" /\ node > size
      /\ node' = 1 /\ stage' = "messages"
      /\ UNCHANGED <<edge, dist, nexthop, msg, cur_id, walked, changes, size, len,
                     ancestor, own_visited, phase, heap, temp_id, temp_anc>>
  BY DEF EndSearch, FirstNode, routes, forwarding, sizes
<1>2. /\ TypeOK /\ EdgesOK /\ PlaceOK /\ RowsOK
  BY DEF IInv
<1>3. node \in Int /\ size \in Nat /\ node = size + 1
  BY <1>1, <1>2 DEF PlaceOK, TypeOK
<1>4. TypeOK'
  BY <1>1, <1>2 DEF TypeOK
<1>5. EdgesOK' /\ PlaceOK' /\ ForwardOK'
  BY <1>1, <1>2, <1>3, SameRows DEF PlaceOK, ForwardOK
<1>6. RowsOK'
  <2> SUFFICES ASSUME NEW i \in Node
               PROVE  IF i <= size THEN RowDone(i) ELSE RowFresh(i)
    BY <1>1, SameRows DEF RowsOK, IsDone
  <2>1. i \in Int
    BY DEF Node
  <2>2. IF i < node THEN RowDone(i) ELSE RowFresh(i)
    BY <1>1, <1>2 DEF RowsOK, IsDone
  <2> QED
    BY <1>3, <2>1, <2>2
<1> QED
  BY <1>1, <1>4, <1>5, <1>6 DEF IInv, SearchOK

-----------------------------------------------------------------------------
\* The entry a, b of a matrix after both directions of a link were set.
LEMMA BothFact ==
  ASSUME NEW m \in [Node -> [Node -> 0..INF]], NEW i \in Node, NEW j \in Node, i # j,
         NEW v \in 0..INF
  PROVE  /\ Both(m, i, j, v) \in [Node -> [Node -> 0..INF]]
         /\ \A a, b \in Node :
              Both(m, i, j, v)[a][b] =
                IF (a = i /\ b = j) \/ (a = j /\ b = i) THEN v ELSE m[a][b]
<1> DEFINE mi == [m[i] EXCEPT ![j] = v]
           mj == [m[j] EXCEPT ![i] = v]
<1>1. mi \in [Node -> 0..INF] /\ mj \in [Node -> 0..INF]
  OBVIOUS
<1>2. Both(m, i, j, v) = [m EXCEPT ![i] = mi, ![j] = mj]
  BY DEF Both
<1>3. \A a \in Node : Both(m, i, j, v)[a] = IF a = j THEN mj ELSE IF a = i THEN mi ELSE m[a]
  BY <1>2
<1>4. /\ \A b \in Node : mi[b] = IF b = j THEN v ELSE m[i][b]
      /\ \A b \in Node : mj[b] = IF b = i THEN v ELSE m[j][b]
  OBVIOUS
<1>5. Both(m, i, j, v) \in [Node -> [Node -> 0..INF]]
  BY <1>1, <1>2
<1> HIDE DEF mi, mj
<1>6. \A a, b \in Node :
        Both(m, i, j, v)[a][b] = IF (a = i /\ b = j) \/ (a = j /\ b = i) THEN v ELSE m[a][b]
  BY <1>3, <1>4
<1> QED
  BY <1>5, <1>6

\* The tables after a change of a link are fresh, whether it adds a node or not.
LEMMA ChangeStep ==
  IInv /\ LinkChange /\ UNCHANGED <<own_visited, search>> => IInv'
<1> SUFFICES ASSUME IInv, LinkChange, UNCHANGED <<own_visited, search>> PROVE IInv'
  OBVIOUS
<1> USE Sizes
<1>1. PICK i \in Node, j \in Node, cost \in LinkCosts :
        /\ i # j
        /\ ChangeLink(i, j, cost, Created)
        /\ size' = Larger(size, Larger(i, j))
        /\ len' = [len EXCEPT ![i] = Larger(@, j), ![j] = Larger(@, i)]
        /\ ancestor' = ClearAncestors
  BY DEF LinkChange
<1>2. /\ TypeOK /\ EdgesOK /\ PlaceOK /\ RowsOK
  BY DEF IInv
<1>3. /\ stage = "messages" /\ stage' = "routes" /\ changes' = changes + 1 /\ msg' = 1
      /\ phase = "start" /\ node = 1
      /\ UNCHANGED <<cur_id, walked, own_visited, phase, node, heap, temp_id, temp_anc>>
  BY <1>1, <1>2 DEF ChangeLink, PlaceOK, search
<1>4. /\ edge \in [Node -> [Node -> 0..INF]]
      /\ dist \in [Node -> [Node -> 0..INF]]
      /\ nexthop \in [Node -> [Node -> 0..NumNodes]]
      /\ len \in [Node -> Node]
      /\ size \in 0..NumNodes
      /\ \A a, b \in Node : ancestor[a][b] \in 0..NumNodes
  BY <1>2, Entries DEF TypeOK
<1>5. cost \in 0..INF /\ (cost < INF => cost \in Costs)
  BY GraphAssumption DEF LinkCosts
<1>6. /\ edge' \in [Node -> [Node -> 0..INF]]
      /\ \A a, b \in Node :
           edge'[a][b] = IF (a = i /\ b = j) \/ (a = j /\ b = i) THEN cost ELSE edge[a][b]
  <2>1. edge' = Both(edge, i, j, cost)
    BY <1>1 DEF ChangeLink, parseLineChange
  <2> DEFINE m == edge
  <2>2. m \in [Node -> [Node -> 0..INF]] /\ m = edge /\ edge' = Both(m, i, j, cost)
    BY <1>4, <2>1
  <2> HIDE DEF m
  <2>3. /\ edge' \in [Node -> [Node -> 0..INF]]
        /\ \A a, b \in Node :
             edge'[a][b] = IF (a = i /\ b = j) \/ (a = j /\ b = i) THEN cost ELSE m[a][b]
    BY <1>1, <1>5, <2>2, BothFact, SMTT(30)
  <2> QED
    BY <2>2, <2>3
<1>7. /\ dist' \in [Node -> [Node -> 0..INF]]
      /\ \A a, b \in Node : dist'[a][b] = IF a = b THEN dist[a][b] ELSE edge'[a][b]
  <2> DEFINE c == clear_Vectors(Created)[1]
  <2>1. c = [a \in Node |-> [b \in Node |-> IF a = b THEN dist[a][b] ELSE edge[a][b]]]
    BY DEF clear_Vectors
  <2>2. /\ \A a, b \in Node : /\ c[a][b] = IF a = b THEN dist[a][b] ELSE edge[a][b]
                              /\ c[a][b] \in 0..INF
    BY <1>4, <2>1
  <2>3. c \in [Node -> [Node -> 0..INF]]
    BY <1>4, <2>1
  <2>4. dist' = Both(c, i, j, cost)
    BY <1>1 DEF ChangeLink, parseLineChange
  <2> HIDE DEF c
  <2>5. /\ dist' \in [Node -> [Node -> 0..INF]]
        /\ \A a, b \in Node :
             dist'[a][b] = IF (a = i /\ b = j) \/ (a = j /\ b = i) THEN cost ELSE c[a][b]
    BY <1>1, <1>5, <2>3, <2>4, BothFact, SMTT(30)
  <2> QED
    BY <1>1, <1>6, <2>2, <2>5
<1>8. nexthop' \in [Node -> [Node -> 0..NumNodes]]
  <2> DEFINE c == clear_Vectors(Created)[2]
  <2>1. c = [a \in Node |-> [b \in Node |->
              IF a = b \/ <<a, b>> \notin Created THEN nexthop[a][b] ELSE b]]
    BY DEF clear_Vectors
  <2>2. \A b \in Node : b \in 0..NumNodes
    BY DEF Node
  <2>3. c \in [Node -> [Node -> 0..NumNodes]]
    BY <1>4, <2>1, <2>2
  <2>4. nexthop' = [c EXCEPT ![i] = [@ EXCEPT ![j] = j], ![j] = [@ EXCEPT ![i] = i]]
    BY <1>1 DEF ChangeLink, parseLineChange
  <2> HIDE DEF c
  <2>5. [c[i] EXCEPT ![j] = j] \in [Node -> 0..NumNodes]
        /\ [c[j] EXCEPT ![i] = i] \in [Node -> 0..NumNodes]
    BY <2>2, <2>3
  <2>6. nexthop' = [c EXCEPT ![i] = [c[i] EXCEPT ![j] = j], ![j] = [c[j] EXCEPT ![i] = i]]
    BY <1>1, <2>3, <2>4
  <2> QED
    BY <2>3, <2>5, <2>6
<1>9. /\ ancestor' \in [Node -> [Node -> 0..NumNodes]]
      /\ \A a, b \in Node : ancestor'[a][b] = IF a = b THEN ancestor[a][b] ELSE a
  <2>1. ancestor' = [a \in Node |-> [b \in Node |-> IF a = b THEN ancestor[a][b] ELSE a]]
    BY <1>1 DEF ClearAncestors
  <2>2. \A a \in Node : a \in 0..NumNodes
    BY DEF Node
  <2> QED
    BY <1>4, <2>1, <2>2
<1>10. /\ len' \in [Node -> Node]
       /\ \A a \in Node : len[a] <= len'[a]
       /\ j <= len'[i] /\ i <= len'[j]
  <2>1. /\ Larger(len[i], j) \in Node /\ len[i] <= Larger(len[i], j) /\ j <= Larger(len[i], j)
        /\ Larger(len[j], i) \in Node /\ len[j] <= Larger(len[j], i) /\ i <= Larger(len[j], i)
    BY <1>4, NodeRange DEF Larger
  <2>2. /\ len' \in [Node -> Node]
        /\ \A a \in Node : len'[a] = IF a = j THEN Larger(len[j], i)
                                     ELSE IF a = i THEN Larger(len[i], j) ELSE len[a]
    BY <1>1, <1>4, <2>1
  <2>3. \A a \in Node : len[a] \in Int
    BY <1>4, NodeRange
  <2> QED
    BY <1>1, <2>1, <2>2, <2>3
<1>11. size' \in 0..NumNodes /\ size <= size' /\ i <= size' /\ j <= size'
  BY <1>1, <1>4, NodeRange DEF Larger
<1>12. TypeOK'
  <2>1. /\ stage' \in {"routes", "messages", "forward", "Finished"}
        /\ msg' \in Nat \ {0} /\ cur_id' \in Node /\ walked' \in Nat /\ changes' \in Nat
        /\ own_visited' \subseteq Node /\ phase' \in {"start", "pop", "climb"}
        /\ node' \in 1..(NumNodes + 1) /\ heap' \subseteq Node
        /\ phase' = "climb" => temp_id' \in Node /\ temp_anc' \in Node
    BY <1>2, <1>3 DEF TypeOK
  <2>2. /\ edge' \in [Node -> [Node -> 0..INF]] /\ dist' \in [Node -> [Node -> 0..INF]]
        /\ nexthop' \in [Node -> [Node -> 0..NumNodes]]
        /\ ancestor' \in [Node -> [Node -> 0..NumNodes]]
        /\ size' \in 0..NumNodes /\ len' \in [Node -> Node]
    BY <1>6, <1>7, <1>8, <1>9, <1>10, <1>11
  <2> QED
    BY <2>1, <2>2 DEF TypeOK
<1>13. EdgesOK'
  <2> SUFFICES ASSUME NEW a \in Node, NEW b \in Node
               PROVE  /\ edge'[a][a] = 0
                      /\ edge'[a][b] = edge'[b][a]
                      /\ edge'[a][b] < INF =>
                           /\ b <= len'[a]
                           /\ a # b => a <= size' /\ b <= size' /\ edge'[a][b] \in Costs
    BY DEF EdgesOK
  <2>1. /\ edge[a][a] = 0 /\ edge[a][b] = edge[b][a]
        /\ edge[a][b] < INF =>
             /\ b <= len[a]
             /\ a # b => a <= size /\ b <= size /\ edge[a][b] \in Costs
    BY <1>2 DEF EdgesOK
  <2>2. a \in Int /\ b \in Int /\ len[a] \in Int /\ len'[a] \in Int
    BY <1>4, <1>10, NodeRange
  <2>3. CASE (a = i /\ b = j) \/ (a = j /\ b = i)
    BY <1>1, <1>5, <1>6, <1>10, <1>11, <2>1, <2>3
  <2>4. CASE ~ ((a = i /\ b = j) \/ (a = j /\ b = i))
    BY <1>1, <1>4, <1>6, <1>10, <1>11, <2>1, <2>2, <2>4
  <2> QED
    BY <2>3, <2>4
<1>14. PlaceOK'
  <2>1. \A a \in Node : a <= len[a] /\ len[a] \in Int /\ len'[a] \in Int /\ a \in Int
    BY <1>2, <1>4, <1>10, NodeRange DEF PlaceOK
  <2> QED
    BY <1>3, <1>4, <1>10, <1>11, <2>1, SMTT(30) DEF PlaceOK
<1>15. RowsOK'
  <2> SUFFICES ASSUME NEW a \in Node PROVE RowFresh(a)'
    BY <1>3 DEF RowsOK, IsDone, Node
  <2>1. OwnOK(a)
    <3>1. RowDone(a) \/ RowFresh(a)
      BY <1>2, <1>3 DEF RowsOK
    <3> QED
      BY <3>1 DEF RowDone, RowFresh
  <2>2. len[a] \in Int /\ len'[a] \in Int
    BY <1>4, <1>10, NodeRange
  <2>3. OwnOK(a)'
    BY <1>7, <1>9, <1>10, <2>1, <2>2 DEF OwnOK
  <2>4. ancestor'[a][ancestor'[a][a]] # 0
    <3>1. ancestor'[a][a] \in Node
      <4>1. ancestor'[a][a] \in 1..len'[a] /\ len'[a] \in Node
        BY <1>10, <2>3 DEF OwnOK
      <4> QED
        BY <4>1 DEF Node
    <3>2. 0 \notin Node
      BY DEF Node
    <3> QED
      BY <1>9, <3>1, <3>2
  <2> QED
    BY <1>7, <1>9, <2>3, <2>4 DEF RowFresh
<1> QED
  BY <1>3, <1>12, <1>13, <1>14, <1>15 DEF IInv, SearchOK, ForwardOK

-----------------------------------------------------------------------------
(* The visit of an entry.                                                  *)

\* The entry that is visited is the last that left the heap.
LEMMA VisitedEntry ==
  ASSUME IInv, phase = "climb"
  PROVE  /\ temp_id \in Node /\ temp_id \in Popped /\ temp_id <= len[node]
         /\ dist[node][temp_id] \in Nat /\ dist[node][temp_id] < INF
         /\ \A v \in Popped : dist[node][v] <= dist[node][temp_id]
         /\ Passed = Popped \ {temp_id}
<1> USE Sizes
<1>1. /\ TypeOK /\ ClimbOK /\ DistOK /\ node \in Node /\ Popped \subseteq 1..len[node]
      /\ Popped \subseteq Node
  BY InSearch
<1>2. temp_id \in Popped /\ \A v \in Popped : dist[node][v] <= dist[node][temp_id]
  BY <1>1 DEF ClimbOK
<1>3. dist[node][temp_id] \in 0..INF /\ dist[node][temp_id] < INF
  BY <1>1, <1>2, Entries DEF DistOK
<1> QED
  BY <1>1, <1>2, <1>3 DEF Passed

\* A route by the visited entry to one that has not left the heap.
LEMMA RouteByVisited ==
  ASSUME IInv, phase = "climb", NEW d \in Node, d \notin Popped, edge[temp_id][d] < INF
  PROVE  /\ new_dist(d) \in Nat
         /\ dist[node][temp_id] <= new_dist(d)
         /\ new_dist(d) <= MaxCost * (Cardinality(Popped) + 1)
         /\ new_dist(d) < INF
<1> USE Sizes
<1>1. TypeOK /\ EdgesOK /\ DistOK /\ node \in Node /\ Popped \subseteq Node
  BY InSearch
<1>2. /\ temp_id \in Node /\ temp_id \in Popped
      /\ dist[node][temp_id] \in Nat /\ dist[node][temp_id] < INF
      /\ Passed = Popped \ {temp_id}
  BY VisitedEntry
<1>3. edge[temp_id][d] \in Nat /\ edge[temp_id][d] <= MaxCost
  BY <1>1, <1>2, LinkCost
<1>4. IsFiniteSet(Node) /\ Cardinality(Node) = NumNodes
  BY FS_Interval DEF Node
<1>5. IsFiniteSet(Popped) /\ Cardinality(Popped) \in Nat
  BY <1>1, <1>4, FS_Subset, FS_CardinalityType
<1>6. Cardinality(Popped) + 1 <= NumNodes
  <2>1. Cardinality(Popped \cup {d}) = Cardinality(Popped) + 1
    BY <1>5, FS_AddElement
  <2>2. Popped \cup {d} \subseteq Node
    BY <1>1
  <2> QED
    BY <1>4, <2>1, <2>2, FS_Subset
<1>7. Cardinality(Passed) + 1 = Cardinality(Popped)
  <2>1. Cardinality(Popped \ {temp_id}) = Cardinality(Popped) - 1
    BY <1>2, <1>5, FS_RemoveElement
  <2> QED
    BY <1>2, <1>5, <2>1
<1>8. dist[node][temp_id] <= MaxCost * Cardinality(Popped)
  BY <1>1, <1>2, <1>7 DEF DistOK
<1> DEFINE c == Cardinality(Popped)
           b == MaxCost * c
<1>9. /\ MaxCost * (c + 1) = b + MaxCost /\ b \in Nat /\ MaxCost \in Nat
      /\ MaxCost * (c + 1) <= MaxCost * NumNodes
  <2>1. MaxCost \in Nat /\ c \in Nat /\ c + 1 <= NumNodes
    BY <1>5, <1>6, MaxCostFact
  <2> HIDE DEF c
  <2>2. PICK k \in Nat : NumNodes = c + 1 + k
    <3>1. NumNodes - c - 1 \in Nat /\ NumNodes = c + 1 + (NumNodes - c - 1)
      BY <2>1
    <3> QED
      BY <3>1
  <2>3. MaxCost * NumNodes = MaxCost * (c + 1) + MaxCost * k /\ MaxCost * k \in Nat
    BY <2>1, <2>2
  <2>4. MaxCost * (c + 1) = MaxCost * c + MaxCost /\ MaxCost * c \in Nat
    BY <2>1
  <2> QED
    BY <2>1, <2>3, <2>4
<1>10. MaxCost * NumNodes < INF /\ MaxCost * NumNodes \in Nat
  BY MaxCostFact
<1>11. dist[node][temp_id] <= b
  BY <1>8
<1> HIDE DEF b
<1>12. new_dist(d) \in Nat /\ new_dist(d) <= b + MaxCost /\ dist[node][temp_id] <= new_dist(d)
  BY <1>2, <1>3, <1>9, <1>11 DEF new_dist
<1>13. new_dist(d) <= MaxCost * (c + 1)
  BY <1>9, <1>12
<1>14. MaxCost * (c + 1) \in Nat
  BY <1>9
<1>15. new_dist(d) < INF
  <2> DEFINE e == MaxCost * (c + 1)
             f == MaxCost * NumNodes
  <2>1. /\ e \in Nat /\ f \in Nat /\ new_dist(d) \in Nat
        /\ new_dist(d) <= e /\ e <= f /\ f < INF
    BY <1>9, <1>10, <1>12, <1>13, <1>14
  <2> HIDE DEF e, f
  <2> QED
    BY <2>1
<1> QED
  BY <1>12, <1>13, <1>15

\* What a visit changes: the row of node, and nothing of which entries are popped.
\* have not left the heap.
LEMMA ImprovedEntry ==
  ASSUME IInv, phase = "climb", NEW d \in Node
  PROVE  /\ Improves(d) =>
              /\ d \notin Popped /\ d # temp_id
              /\ edge[temp_id][d] < INF /\ d <= len[temp_id]
              /\ \/ new_dist(d) < dist[node][d]
                 \/ new_dist(d) = dist[node][d] /\ temp_id < ancestor[node][d]
         /\ IsNew(d) => d \notin Popped /\ d \notin heap /\ d > len[node]
         /\ ~ Improves(d) /\ edge[temp_id][d] < INF /\ d \notin Popped =>
              /\ ~ IsNew(d)
              /\ dist[node][d] <= new_dist(d)
              /\ d # node /\ dist[node][d] = new_dist(d) => ancestor[node][d] <= temp_id
<1> USE Sizes
<1>1. /\ TypeOK /\ EdgesOK /\ DistOK /\ node \in Node /\ Popped \subseteq 1..len[node]
      /\ heap \subseteq 1..len[node] /\ len[node] \in Node
  BY InSearch
<1>2. /\ temp_id \in Node /\ temp_id \in Popped
      /\ dist[node][temp_id] \in Nat
  BY VisitedEntry
<1>3. /\ d \in Nat /\ 1 <= d /\ len[node] \in Nat /\ len[temp_id] \in Nat /\ temp_id \in Nat
      /\ dist[node][d] \in 0..INF /\ ancestor[node][d] \in 0..NumNodes
  BY <1>1, <1>2, NodeRange, Entries
<1>4. IsNew(d) => d \notin Popped /\ d \notin heap /\ d > len[node]
  BY <1>1, <1>3 DEF IsNew
<1>5. d \in heap => d \notin Popped
  BY DEF Popped
<1>6. d \notin Popped /\ edge[temp_id][d] < INF =>
        new_dist(d) \in Nat /\ new_dist(d) < INF /\ dist[node][temp_id] <= new_dist(d)
  BY RouteByVisited
<1>7. IsNew(d) => dist[node][d] = INF
  BY <1>1, <1>3 DEF DistOK, InVector, IsNew
<1>8. ASSUME Improves(d)
      PROVE  /\ d \notin Popped /\ d # temp_id
             /\ edge[temp_id][d] < INF /\ d <= len[temp_id]
             /\ \/ new_dist(d) < dist[node][d]
                \/ new_dist(d) = dist[node][d] /\ temp_id < ancestor[node][d]
  <2>1. d # temp_id /\ edge[temp_id][d] < INF /\ d <= len[temp_id]
    BY <1>8 DEF Improves, IsLink
  <2>2. CASE IsNew(d)
    BY <1>4, <1>6, <1>7, <2>1, <2>2
  <2>3. CASE ~ IsNew(d)
    <3>1. /\ d \in heap
          /\ \/ new_dist(d) < dist[node][d]
             \/ new_dist(d) = dist[node][d] /\ temp_id < ancestor[node][d]
      BY <1>8, <2>3 DEF Improves, Unvisited
    <3> QED
      BY <1>5, <2>1, <3>1
  <2> QED
    BY <2>2, <2>3
<1>9. ASSUME ~ Improves(d), edge[temp_id][d] < INF, d \notin Popped
      PROVE  /\ ~ IsNew(d)
             /\ dist[node][d] <= new_dist(d)
             /\ d # node /\ dist[node][d] = new_dist(d) => ancestor[node][d] <= temp_id
  <2>1. d # temp_id /\ IsLink(d)
    BY <1>1, <1>2, <1>9 DEF EdgesOK, IsLink
  <2>2. ~ IsNew(d)
    BY <1>9, <2>1 DEF Improves
  <2>3. d \in heap
    BY <1>3, <1>9, <2>1, <2>2 DEF IsNew, IsLink, Popped
  <2>4. ASSUME Unvisited(d)
        PROVE  /\ dist[node][d] <= new_dist(d)
               /\ dist[node][d] = new_dist(d) => ancestor[node][d] <= temp_id
    BY <1>3, <1>6, <1>9, <2>1, <2>4 DEF Improves
  <2>5. ASSUME ~ Unvisited(d) PROVE d = node /\ dist[node][d] = 0
    BY <1>1, <2>3, <2>5 DEF Unvisited, DistOK, OwnOK
  <2> QED
    BY <1>6, <1>9, <2>2, <2>4, <2>5
<1> QED
  BY <1>4, <1>8, <1>9

\* What a visit changes: the row of node, and nothing of which entries are popped.
LEMMA VisitFacts ==
  ASSUME IInv, Visit
  PROVE  /\ phase = "climb" /\ phase' = "pop"
         /\ UNCHANGED <<edge, stage, msg, cur_id, walked, changes, size, own_visited,
                        node, temp_id, temp_anc>>
         /\ dist' \in [Node -> [Node -> 0..INF]]
         /\ nexthop' \in [Node -> [Node -> 0..NumNodes]]
         /\ ancestor' \in [Node -> [Node -> 0..NumNodes]]
         /\ len' \in [Node -> Node]
         /\ \A i \in Node \ {node} :
              UNCHANGED <<dist[i], nexthop[i], ancestor[i], len[i]>>
         /\ \A d \in Node :
              /\ dist'[node][d] = IF Improves(d) THEN new_dist(d) ELSE dist[node][d]
              /\ ancestor'[node][d] = IF Improves(d) THEN temp_id
                                      ELSE IF IsNew(d) THEN 0 ELSE ancestor[node][d]
              /\ nexthop'[node][d] = IF d = temp_id THEN temp_anc
                                     ELSE IF IsNew(d) THEN 0 ELSE nexthop[node][d]
         /\ len'[node] = Larger(len[node], len[temp_id])
         /\ heap' \subseteq 1..len'[node]
         /\ Popped' = Popped /\ Passed' = Popped
<1> USE Sizes
<1>1. /\ phase = "climb"
      /\ dist' = [dist EXCEPT ![node] = [d \in Node |->
           IF Improves(d) THEN new_dist(d) ELSE dist[node][d]]]
      /\ ancestor' = [ancestor EXCEPT ![node] = [d \in Node |->
           IF Improves(d) THEN temp_id ELSE IF IsNew(d) THEN 0 ELSE ancestor[node][d]]]
      /\ nexthop' = [nexthop EXCEPT ![node] = [d \in Node |->
           IF d = temp_id THEN temp_anc ELSE IF IsNew(d) THEN 0 ELSE nexthop[node][d]]]
      /\ len' = [len EXCEPT ![node] = Larger(len[node], len[temp_id])]
      /\ heap' = heap \cup {d \in Node : IsNew(d)}
      /\ phase' = "pop"
      /\ UNCHANGED <<edge, stage, msg, cur_id, walked, changes, size, own_visited,
                     node, temp_id, temp_anc>>
  BY DEF Visit, forwarding, NextHop
<1>2. /\ TypeOK /\ node \in Node /\ heap \subseteq 1..len[node] /\ Popped \subseteq 1..len[node]
  BY <1>1, InSearch
<1>3. temp_id \in Node /\ temp_anc \in Node
  BY <1>1, <1>2 DEF TypeOK
<1>4. /\ dist \in [Node -> [Node -> 0..INF]]
      /\ nexthop \in [Node -> [Node -> 0..NumNodes]]
      /\ ancestor \in [Node -> [Node -> 0..NumNodes]]
      /\ len \in [Node -> Node]
  BY <1>2 DEF TypeOK
<1>5. \A n \in Node : n \in 0..NumNodes
  BY NodeRange
<1>6. dist' \in [Node -> [Node -> 0..INF]]
  <2> DEFINE r == [d \in Node |-> IF Improves(d) THEN new_dist(d) ELSE dist[node][d]]
  <2>1. \A d \in Node : Improves(d) => new_dist(d) \in 0..INF
    BY <1>1, ImprovedEntry, RouteByVisited
  <2>2. r \in [Node -> 0..INF]
    BY <1>2, <1>4, <2>1
  <2>3. dist' = [dist EXCEPT ![node] = r]
    BY <1>1
  <2> HIDE DEF r
  <2> QED
    BY <1>4, <2>2, <2>3
<1>7. nexthop' \in [Node -> [Node -> 0..NumNodes]]
  <2> DEFINE r == [d \in Node |-> IF d = temp_id THEN temp_anc
                                  ELSE IF IsNew(d) THEN 0 ELSE nexthop[node][d]]
  <2>1. r \in [Node -> 0..NumNodes]
    BY <1>2, <1>3, <1>4, <1>5
  <2>2. nexthop' = [nexthop EXCEPT ![node] = r]
    BY <1>1
  <2> HIDE DEF r
  <2> QED
    BY <1>4, <2>1, <2>2
<1>8. ancestor' \in [Node -> [Node -> 0..NumNodes]]
  <2> DEFINE r == [d \in Node |-> IF Improves(d) THEN temp_id
                                  ELSE IF IsNew(d) THEN 0 ELSE ancestor[node][d]]
  <2>1. r \in [Node -> 0..NumNodes]
    BY <1>2, <1>3, <1>4, <1>5
  <2>2. ancestor' = [ancestor EXCEPT ![node] = r]
    BY <1>1
  <2> HIDE DEF r
  <2> QED
    BY <1>4, <2>1, <2>2
<1>9. len' \in [Node -> Node] /\ len'[node] = Larger(len[node], len[temp_id])
  <2>1. Larger(len[node], len[temp_id]) \in Node
    BY <1>2, <1>3, <1>4 DEF Larger
  <2> QED
    BY <1>1, <1>2, <1>4, <2>1
<1>10. \A i \in Node \ {node} : UNCHANGED <<dist[i], nexthop[i], ancestor[i], len[i]>>
  BY <1>1, <1>4
<1>11. \A d \in Node :
         /\ dist'[node][d] = IF Improves(d) THEN new_dist(d) ELSE dist[node][d]
         /\ ancestor'[node][d] = IF Improves(d) THEN temp_id
                                 ELSE IF IsNew(d) THEN 0 ELSE ancestor[node][d]
         /\ nexthop'[node][d] = IF d = temp_id THEN temp_anc
                                ELSE IF IsNew(d) THEN 0 ELSE nexthop[node][d]
  BY <1>1, <1>2, <1>4
<1>12. /\ heap' \subseteq 1..len'[node]
       /\ Popped' = Popped /\ Passed' = Popped
  <2>1. len[node] \in Node /\ len[temp_id] \in Node
    BY <1>2, <1>3, <1>4
  <2>2. \A d : d \in Node /\ IsNew(d) <=> d \in Nat /\ 1 <= d /\ len[node] < d /\ d <= len[temp_id]
    BY <2>1, NodeRange DEF IsNew
  <2>3. len[node] \in Nat /\ len[temp_id] \in Nat
    BY <2>1, NodeRange
  <2>4. heap' \subseteq 1..len'[node]
    <3>1. len'[node] \in Nat /\ len[node] <= len'[node] /\ len[temp_id] <= len'[node]
      BY <1>9, <2>3 DEF Larger
    <3>2. \A h \in heap : h \in Nat /\ 1 <= h /\ h <= len[node]
      BY <1>2, <2>3
    <3>3. \A h \in heap' : h \in Nat /\ 1 <= h /\ h <= len'[node]
      BY <1>1, <2>2, <2>3, <3>1, <3>2
    <3> QED
      BY <3>1, <3>3
  <2>5. Popped' = Popped
    BY <1>1, <1>9, <2>2, <2>3 DEF Popped, Larger
  <2> QED
    BY <1>1, <2>4, <2>5 DEF Passed
<1> QED
  BY <1>1, <1>6, <1>7, <1>8, <1>9, <1>10, <1>11, <1>12

\* A visit shortens the distances to what the visited entry makes of them.
LEMMA VisitKeepsDist == IInv /\ Visit => DistOK'
<1> SUFFICES ASSUME IInv, Visit PROVE DistOK'
  OBVIOUS
<1> USE Sizes
<1> DEFINE t == temp_id
<1>1. /\ phase = "climb"
      /\ UNCHANGED <<edge, node>>
      /\ \A d \in Node :
           /\ dist'[node][d] = IF Improves(d) THEN new_dist(d) ELSE dist[node][d]
           /\ ancestor'[node][d] = IF Improves(d) THEN t
                                   ELSE IF IsNew(d) THEN 0 ELSE ancestor[node][d]
      /\ len'[node] = Larger(len[node], len[t])
      /\ Popped' = Popped /\ Passed' = Popped
  BY VisitFacts
<1>2. /\ TypeOK /\ EdgesOK /\ DistOK /\ node \in Node /\ node <= len[node]
      /\ Popped \subseteq Node
  BY <1>1, InSearch
<1>3. /\ t \in Node /\ t \in Popped /\ t <= len[node]
      /\ dist[node][t] \in Nat /\ dist[node][t] < INF
      /\ \A v \in Popped : dist[node][v] <= dist[node][t]
      /\ Passed = Popped \ {t}
  BY <1>1, VisitedEntry
<1>4. \A d \in Node : /\ dist[node][d] \in 0..INF
                      /\ \A n \in Node : edge[n][d] \in 0..INF
  BY <1>2, Entries
<1>5. \A d \in Node : Improves(d) =>
        /\ d \notin Popped /\ edge[t][d] < INF /\ d <= len[t]
        /\ new_dist(d) \in Nat /\ dist[node][t] <= new_dist(d)
        /\ new_dist(d) = dist[node][t] + edge[t][d]
        /\ new_dist(d) <= MaxCost * (Cardinality(Popped) + 1)
        /\ new_dist(d) <= dist[node][d]
  <2> TAKE d \in Node
  <2> HAVE Improves(d)
  <2>1. /\ d \notin Popped /\ edge[t][d] < INF /\ d <= len[t]
        /\ new_dist(d) < dist[node][d] \/ new_dist(d) = dist[node][d]
    BY <1>1, ImprovedEntry
  <2>2. /\ new_dist(d) \in Nat /\ dist[node][t] <= new_dist(d)
        /\ new_dist(d) <= MaxCost * (Cardinality(Popped) + 1)
    BY <1>1, <2>1, RouteByVisited
  <2> QED
    BY <1>4, <2>1, <2>2 DEF new_dist
<1>6. \A d \in Node : /\ dist'[node][d] \in 0..INF
                      /\ dist'[node][d] <= dist[node][d]
                      /\ d \in Popped => dist'[node][d] = dist[node][d]
  BY <1>1, <1>4, <1>5
<1>7. \A i \in Node : len[i] \in Nat
  BY <1>2, Entries, NodeRange
<1>8. OwnOK(node)'
  <2>1. dist[node][node] = 0 /\ ancestor[node][node] \in 1..len[node]
    BY <1>2 DEF DistOK, OwnOK
  <2>2. dist'[node][node] = 0
    BY <1>2, <1>6, <2>1
  <2>3. ~ IsNew(node)
    BY <1>2, <1>7, NodeRange DEF IsNew
  <2>4. t \in Nat /\ 1 <= t
    BY <1>3, NodeRange
  <2>5. ancestor'[node][node] \in 1..len[node]
    BY <1>1, <1>2, <1>3, <1>7, <2>1, <2>3, <2>4
  <2>6. ancestor'[node][node] \in 1..len'[node]
    BY <1>1, <1>2, <1>3, <1>7, <2>5 DEF Larger
  <2> QED
    BY <1>1, <2>2, <2>6 DEF OwnOK
<1>9. InVector(node)'
  <2> SUFFICES ASSUME NEW d \in Node, dist'[node][d] < INF PROVE d <= len'[node]
    BY <1>1 DEF InVector
  <2>1. d <= len[node] \/ d <= len[t]
    BY <1>1, <1>2, <1>5 DEF DistOK, InVector
  <2>2. d \in Nat
    BY NodeRange
  <2> QED
    BY <1>1, <1>2, <1>3, <1>7, <2>1, <2>2 DEF Larger
<1>10. NotTooShort(node)'
  <2> SUFFICES ASSUME NEW q \in [Node -> 0..INF], Lower(q, node), NEW d \in Node
               PROVE  q[d] <= dist'[node][d]
    BY <1>1 DEF NotTooShort, Lower
  <2>1. q[d] <= dist[node][d] /\ q[t] <= dist[node][t]
    BY <1>2, <1>3 DEF DistOK, NotTooShort
  <2>2. q[d] \in 0..INF /\ q[t] \in 0..INF
    BY <1>3
  <2>3. ASSUME Improves(d) PROVE q[d] <= new_dist(d)
    <3>1. edge[t][d] < INF /\ edge[t][d] \in 0..INF /\ new_dist(d) = dist[node][t] + edge[t][d]
      BY <1>3, <1>4, <1>5, <2>3
    <3>2. q[d] <= q[t] + edge[t][d]
      BY <1>3, <3>1 DEF Lower
    <3> QED
      BY <1>3, <2>1, <2>2, <3>1, <3>2
  <2> QED
    BY <1>1, <2>1, <2>3
<1>11. ASSUME NEW v \in Popped
       PROVE  /\ dist'[node][v] < INF
              /\ \A d \in Node \ Popped : dist'[node][v] <= dist'[node][d]
  <2>1. v \in Node /\ dist'[node][v] = dist[node][v] /\ dist[node][v] < INF
    BY <1>2, <1>6 DEF DistOK
  <2>2. ASSUME NEW d \in Node \ Popped PROVE dist[node][v] <= dist'[node][d]
    <3>1. dist[node][v] <= dist[node][d]
      BY <1>2 DEF DistOK
    <3>2. dist[node][v] <= dist[node][t] /\ dist[node][v] \in Nat
      BY <1>3, <1>4, <2>1
    <3> QED
      BY <1>1, <1>3, <1>5, <3>1, <3>2
  <2> QED
    BY <2>1, <2>2
<1>12. ASSUME NEW n \in Popped, NEW d \in Node, edge[n][d] < INF
       PROVE  dist'[node][d] <= dist'[node][n] + edge[n][d]
  <2>1. /\ n \in Node /\ dist'[node][n] = dist[node][n] /\ edge[n][d] \in 0..INF
        /\ dist[node][n] \in 0..INF /\ dist[node][d] \in 0..INF /\ dist'[node][d] \in 0..INF
        /\ dist'[node][d] <= dist[node][d]
    BY <1>2, <1>4, <1>6
  <2>2. CASE n # t
    <3>1. dist[node][d] <= dist[node][n] + edge[n][d]
      BY <1>2, <1>3, <1>12, <2>2 DEF DistOK
    <3> QED
      BY <2>1, <3>1
  <2>3. CASE n = t
    <3>1. CASE d \in Popped
      BY <1>3, <2>1, <2>3, <3>1
    <3>2. CASE Improves(d)
      BY <1>1, <1>5, <2>1, <2>3, <3>2
    <3>3. CASE d \notin Popped /\ ~ Improves(d)
      <4>1. dist[node][d] <= new_dist(d)
        BY <1>1, <1>12, <2>3, <3>3, ImprovedEntry
      <4> QED
        BY <1>1, <2>1, <2>3, <3>3, <4>1 DEF new_dist
    <3> QED
      BY <3>1, <3>2, <3>3
  <2> QED
    BY <2>2, <2>3
<1>13. ASSUME NEW d \in Node, dist'[node][d] < INF
       PROVE  dist'[node][d] <= MaxCost * (Cardinality(Popped) + 1)
  <2>1. CASE Improves(d)
    BY <1>1, <1>5, <2>1
  <2>2. CASE ~ Improves(d)
    <3>1. dist'[node][d] = dist[node][d]
      BY <1>1, <2>2
    <3>2. dist[node][d] <= MaxCost * (Cardinality(Passed) + 1)
      BY <1>2, <1>13, <3>1 DEF DistOK
    <3>3. IsFiniteSet(Popped) /\ Cardinality(Popped) \in Nat
      <4>1. IsFiniteSet(Node)
        BY FS_Interval DEF Node
      <4> QED
        BY <1>2, <4>1, FS_Subset, FS_CardinalityType
    <3>4. Cardinality(Popped \ {t}) = Cardinality(Popped) - 1
      BY <1>3, <3>3, FS_RemoveElement
    <3>5. Cardinality(Passed) + 1 = Cardinality(Popped)
      BY <1>3, <3>3, <3>4
    <3> DEFINE c == Cardinality(Popped)
    <3>6. c \in Nat /\ MaxCost \in Nat /\ dist[node][d] <= MaxCost * c /\ dist[node][d] \in Nat
      BY <1>4, <3>2, <3>3, <3>5, MaxCostFact
    <3> HIDE DEF c
    <3>7. MaxCost * (c + 1) = MaxCost * c + MaxCost /\ MaxCost * c \in Nat
      BY <3>6
    <3>8. dist[node][d] <= MaxCost * (c + 1)
      BY <3>6, <3>7
    <3> QED
      BY <3>1, <3>8 DEF c
  <2> QED
    BY <2>1, <2>2
<1> QED
  BY <1>1, <1>8, <1>9, <1>10, <1>11, <1>12, <1>13 DEF DistOK

\* The visited entry becomes the last hop where its route is shorter, or as
\* short and of a smaller number; its own next hop is that of its ancestor.
LEMMA VisitKeepsRoutes == IInv /\ Visit => RoutesOK'
<1> SUFFICES ASSUME IInv, Visit PROVE RoutesOK'
  OBVIOUS
<1> USE Sizes
<1> DEFINE t == temp_id
<1>1. /\ phase = "climb"
      /\ UNCHANGED <<edge, node>>
      /\ \A d \in Node :
           /\ dist'[node][d] = IF Improves(d) THEN new_dist(d) ELSE dist[node][d]
           /\ ancestor'[node][d] = IF Improves(d) THEN t
                                   ELSE IF IsNew(d) THEN 0 ELSE ancestor[node][d]
           /\ nexthop'[node][d] = IF d = t THEN temp_anc
                                  ELSE IF IsNew(d) THEN 0 ELSE nexthop[node][d]
      /\ Popped' = Popped /\ Passed' = Popped
      /\ ancestor[node][temp_anc] = node
  BY VisitFacts DEF Visit
<1>2. /\ TypeOK /\ EdgesOK /\ DistOK /\ RoutesOK /\ ClimbOK /\ node \in Node
      /\ node <= len[node] /\ Popped \subseteq Node
  BY <1>1, InSearch
<1>3. /\ t \in Node /\ t \in Popped /\ t <= len[node]
      /\ dist[node][t] \in Nat /\ dist[node][t] < INF
      /\ \A v \in Popped : dist[node][v] <= dist[node][t]
      /\ Passed = Popped \ {t}
  BY <1>1, VisitedEntry
<1>4. \A d \in Node : /\ dist[node][d] \in 0..INF
                      /\ \A n \in Node : edge[n][d] \in 0..INF
                      /\ ancestor[node][d] \in 0..NumNodes
                      /\ nexthop[node][d] \in 0..NumNodes
                      /\ d \in Nat /\ 1 <= d
  BY <1>2, Entries, NodeRange
<1>5. \A d \in Node :
        /\ new_dist(d) = dist[node][t] + edge[t][d]
        /\ Improves(d) =>
             /\ d \notin Popped /\ d # t /\ edge[t][d] < INF
             /\ new_dist(d) \in Nat /\ new_dist(d) < INF
             /\ \/ new_dist(d) < dist[node][d]
                \/ new_dist(d) = dist[node][d] /\ t < ancestor[node][d]
        /\ IsNew(d) => d \notin Popped /\ d > len[node]
  <2> TAKE d \in Node
  <2>1. /\ Improves(d) =>
             /\ d \notin Popped /\ d # t /\ edge[t][d] < INF
             /\ \/ new_dist(d) < dist[node][d]
                \/ new_dist(d) = dist[node][d] /\ t < ancestor[node][d]
        /\ IsNew(d) => d \notin Popped /\ d > len[node]
    BY <1>1, ImprovedEntry
  <2>2. Improves(d) => new_dist(d) \in Nat /\ new_dist(d) < INF
    BY <1>1, <2>1, RouteByVisited
  <2> QED
    BY <2>1, <2>2 DEF new_dist
<1>6. \A d \in Popped : /\ d \in Node /\ ~ Improves(d) /\ ~ IsNew(d)
                        /\ dist'[node][d] = dist[node][d]
                        /\ ancestor'[node][d] = ancestor[node][d]
                        /\ d # t => nexthop'[node][d] = nexthop[node][d]
  BY <1>1, <1>2, <1>5
<1>7. ancestor'[node][ancestor'[node][node]] # 0
  <2>1. ~ IsNew(node)
    BY <1>2, NodeRange, Entries DEF IsNew
  <2>2. CASE Improves(node)
    <3>1. t # node /\ ancestor'[node][node] = t /\ ancestor'[node][t] = ancestor[node][t]
      BY <1>1, <1>2, <1>3, <1>5, <1>6, <2>2
    <3>2. ancestor[node][t] \in Passed \cup {node}
      BY <1>2, <1>3, <3>1 DEF RoutesOK, LastHopOK
    <3>3. ancestor[node][t] \in Node
      BY <1>2, <1>3, <3>2
    <3> QED
      BY <1>4, <3>1, <3>3
  <2>3. CASE ~ Improves(node)
    <3> DEFINE a == ancestor[node][node]
    <3>1. ancestor'[node][node] = a /\ a \in 1..len[node] /\ ancestor[node][a] # 0
      BY <1>1, <1>2, <2>1, <2>3 DEF DistOK, OwnOK, RoutesOK
    <3>2. len[node] \in Node
      BY <1>2, Entries
    <3>3. a \in Node /\ ~ (a > len[node])
      BY <3>1, <3>2, NodeRange
    <3> HIDE DEF a
    <3>4. ancestor'[node][a] \in {t, ancestor[node][a]}
      BY <1>1, <1>5, <3>3
    <3> QED
      BY <1>3, <1>4, <3>1, <3>4
  <2> QED
    BY <2>2, <2>3
<1>8. ASSUME NEW d \in Node \ {node}
      PROVE  ancestor'[node][d] \in Popped \cup {0, node}
  <2>1. ancestor[node][d] \in Passed \cup {0, node}
    BY <1>2 DEF RoutesOK
  <2> QED
    BY <1>1, <1>3, <2>1
<1>9. ASSUME NEW d \in Node \ {node}, dist'[node][d] < INF
      PROVE  LET a == ancestor'[node][d]
             IN  /\ a \in Popped \cup {node}
                 /\ a # d
                 /\ edge[a][d] < INF
                 /\ dist'[node][d] = dist'[node][a] + edge[a][d]
                 /\ 0 \notin Costs =>
                      \A n \in Popped :
                        n # d /\ edge[n][d] < INF
                          /\ dist'[node][d] = dist'[node][n] + edge[n][d] => a <= n
  <2>1. CASE Improves(d)
    <3>1. /\ ancestor'[node][d] = t /\ dist'[node][d] = new_dist(d)
          /\ dist'[node][t] = dist[node][t]
      BY <1>1, <1>3, <1>6, <2>1
    <3>2. ASSUME 0 \notin Costs, NEW n \in Popped, n # d, edge[n][d] < INF,
                 new_dist(d) = dist'[node][n] + edge[n][d]
          PROVE  t <= n
      <4>1. /\ n \in Node /\ new_dist(d) = dist[node][n] + edge[n][d]
            /\ edge[n][d] \in 0..INF /\ dist[node][n] \in 0..INF
        BY <1>4, <1>6, <3>2
      <4>2. CASE n = t
        BY <1>4, <4>1, <4>2
      <4>3. CASE n # t
        <5>1. n \in Passed /\ dist[node][d] <= dist[node][n] + edge[n][d]
          BY <1>2, <1>3, <3>2, <4>3 DEF DistOK
        <5>2. new_dist(d) = dist[node][d] /\ t < ancestor[node][d] /\ dist[node][d] < INF
          BY <1>4, <1>5, <2>1, <4>1, <5>1
        <5>3. ancestor[node][d] <= n
          BY <1>2, <3>2, <4>1, <5>1, <5>2 DEF RoutesOK, LastHopOK
        <5> QED
          BY <1>3, <1>4, <4>1, <5>2, <5>3
      <4> QED
        BY <4>2, <4>3
    <3> QED
      BY <1>3, <1>5, <2>1, <3>1, <3>2
  <2>2. CASE ~ Improves(d)
    <3> DEFINE a == ancestor[node][d]
    <3>1. /\ dist'[node][d] = dist[node][d] /\ dist[node][d] < INF
          /\ d <= len[node]
      BY <1>1, <1>2, <1>9, <2>2 DEF DistOK, InVector
    <3>2. ancestor'[node][d] = a
      <4>1. len[node] \in Nat
        BY <1>2, Entries, NodeRange
      <4>2. ~ IsNew(d)
        BY <1>4, <1>5, <3>1, <4>1
      <4> QED
        BY <1>1, <2>2, <4>2
    <3>3. LastHopOK(node, d, Passed)
      BY <1>2, <3>1 DEF RoutesOK
    <3>4. /\ a \in Passed \cup {node} /\ a # d /\ edge[a][d] < INF
          /\ dist[node][d] = dist[node][a] + edge[a][d]
          /\ 0 \notin Costs =>
               \A n \in Passed : n # d /\ edge[n][d] < INF
                                   /\ dist[node][d] = dist[node][n] + edge[n][d] => a <= n
      BY <3>3 DEF LastHopOK
    <3> HIDE DEF a
    <3>5. dist'[node][a] = dist[node][a]
      <4>1. CASE a \in Popped
        BY <1>6, <4>1
      <4>2. CASE a = node
        <5>1. OwnOK(node) /\ OwnOK(node)'
          BY <1>2, VisitKeepsDist DEF DistOK
        <5> QED
          BY <1>1, <4>2, <5>1 DEF OwnOK
      <4> QED
        BY <1>3, <3>4, <4>1, <4>2
    <3>6. ASSUME 0 \notin Costs, NEW n \in Popped, n # d, edge[n][d] < INF,
                 dist[node][d] = dist'[node][n] + edge[n][d]
          PROVE  a <= n
      <4>1. n \in Node /\ dist[node][d] = dist[node][n] + edge[n][d]
        BY <1>6, <3>6
      <4>2. CASE n # t
        BY <1>3, <3>4, <3>6, <4>1, <4>2
      <4>3. CASE n = t /\ d \notin Popped
        <5>1. a <= t
          BY <1>1, <1>5, <2>2, <3>6, <4>1, <4>3, ImprovedEntry DEF a
        <5> QED
          BY <4>3, <5>1
      <4>4. CASE n = t /\ d \in Popped
        <5>1. dist[node][d] <= dist[node][t] /\ edge[t][d] \in 0..INF
          BY <1>3, <1>4, <4>4
        <5>2. edge[t][d] = 0
          BY <1>3, <4>1, <4>4, <5>1
        <5>3. edge[t][d] \in Costs
          BY <1>2, <1>3, <3>6, <4>4 DEF EdgesOK
        <5> QED
          BY <3>6, <5>2, <5>3
      <4> QED
        BY <4>2, <4>3, <4>4
    <3> QED
      BY <1>3, <3>1, <3>2, <3>4, <3>5, <3>6
  <2> QED
    BY <2>1, <2>2
<1>10. ASSUME t # node
       PROVE  LET x == temp_anc
              IN  /\ x \in Node
                  /\ edge[node][x] < INF
                  /\ \A q \in [Node -> 0..INF] :
                       Lower(q, x) => q[t] + edge[node][x] <= dist[node][t]
                  /\ x = IF ancestor[node][t] = node THEN t
                         ELSE nexthop[node][ancestor[node][t]]
  <2> DEFINE b == ancestor[node][t]
  <2>1. /\ b \in Passed \cup {node} /\ b # t /\ edge[b][t] < INF
        /\ dist[node][t] = dist[node][b] + edge[b][t]
    BY <1>2, <1>3, <1>10 DEF RoutesOK, LastHopOK
  <2>2. /\ temp_anc \in Node
        /\ \/ temp_anc = t
           \/ /\ b # node
              /\ temp_anc \in Passed \ {node}
              /\ nexthop[node][temp_anc] = nexthop[node][b]
    BY <1>1, <1>2, <1>10 DEF ClimbOK
  <2>3. b \in Node
    BY <1>2, <1>3, <2>1
  <2>4. CASE temp_anc = t
    <3>1. b = node
      BY <1>1, <2>4
    <3>2. dist[node][t] = edge[node][t]
      BY <1>2, <1>3, <1>4, <2>1, <3>1 DEF DistOK, OwnOK
    <3>3. ASSUME NEW q \in [Node -> 0..INF], Lower(q, t)
          PROVE  q[t] + edge[node][t] <= dist[node][t]
      <4>1. q[t] = 0
        BY <3>3 DEF Lower
      <4> QED
        BY <1>2, <1>3, <1>4, <3>2, <4>1
    <3> QED
      BY <1>3, <2>1, <2>4, <3>1, <3>3
  <2>5. CASE temp_anc # t
    <3>1. b # node /\ b \in Passed \ {node} /\ temp_anc \in Passed \ {node}
      BY <2>1, <2>2, <2>5
    <3>2. temp_anc = nexthop[node][b]
      BY <1>1, <1>2, <2>2, <3>1, <2>5 DEF RoutesOK
    <3>3. NextHopOK(node, b)
      BY <1>2, <2>3, <3>1 DEF RoutesOK
    <3>4. ASSUME NEW q \in [Node -> 0..INF], Lower(q, temp_anc)
          PROVE  q[t] + edge[node][temp_anc] <= dist[node][t]
      <4>1. q[b] + edge[node][temp_anc] <= dist[node][b]
        BY <3>2, <3>3, <3>4 DEF NextHopOK
      <4>2. q[t] <= q[b] + edge[b][t]
        BY <1>3, <2>1, <2>3, <3>4 DEF Lower
      <4>3. /\ q[b] \in Nat /\ q[t] \in Nat /\ edge[node][temp_anc] \in Nat /\ edge[b][t] \in Nat
            /\ dist[node][b] \in Nat
        BY <1>2, <1>3, <1>4, <2>2, <2>3
      <4> QED
        BY <1>3, <2>1, <4>1, <4>2, <4>3
    <3>5. edge[node][temp_anc] < INF
      BY <3>2, <3>3 DEF NextHopOK
    <3> QED
      BY <2>2, <3>1, <3>2, <3>4, <3>5
  <2> QED
    BY <2>4, <2>5
<1>11. ASSUME NEW d \in Node \ {node}, d \in Popped
       PROVE  /\ NextHopOK(node, d)'
              /\ nexthop'[node][d] = IF ancestor'[node][d] = node THEN d
                                     ELSE nexthop'[node][ancestor'[node][d]]
  <2> DEFINE a == ancestor[node][d]
  <2>1. ancestor'[node][d] = a /\ dist'[node][d] = dist[node][d]
    BY <1>6, <1>11
  <2>2. a \in Passed \cup {node}
    BY <1>2, <1>11 DEF DistOK, RoutesOK, LastHopOK
  <2>3. a # node => nexthop'[node][a] = nexthop[node][a]
    BY <1>3, <1>6, <2>2
  <2>4. CASE d = t
    <3>1. nexthop'[node][d] = temp_anc
      BY <1>1, <1>3, <2>4
    <3> QED
      BY <1>1, <1>10, <1>11, <2>1, <2>3, <2>4, <3>1 DEF NextHopOK, Lower
  <2>5. CASE d # t
    <3>1. /\ d \in Passed /\ NextHopOK(node, d)
          /\ nexthop[node][d] = IF a = node THEN d ELSE nexthop[node][a]
          /\ nexthop'[node][d] = nexthop[node][d]
      BY <1>2, <1>3, <1>6, <1>11, <2>5 DEF RoutesOK
    <3> QED
      BY <1>1, <2>1, <2>3, <3>1 DEF NextHopOK, Lower
  <2> QED
    BY <2>4, <2>5
<1> QED
  BY <1>1, <1>7, <1>8, <1>9, <1>11 DEF RoutesOK, LastHopOK

\* What holds of a row depends on the links and on the row.
LEMMA SameRow ==
  ASSUME NEW i \in Node, edge' = edge,
         UNCHANGED <<dist[i], nexthop[i], ancestor[i], len[i]>>
  PROVE  RowDone(i)' = RowDone(i) /\ RowFresh(i)' = RowFresh(i)
<1>1. RowDone(i)' = RowDone(i)
  BY DEF RowDone, OwnOK, InVector, Lower, NotTooShort, LastHopOK, NextHopOK
<1>2. RowFresh(i)' = RowFresh(i)
  BY DEF RowFresh, OwnOK
<1> QED
  BY <1>1, <1>2

\* A visit leaves the other rows alone.
LEMMA VisitStep == IInv /\ Visit => IInv'
<1> SUFFICES ASSUME IInv, Visit PROVE IInv'
  OBVIOUS
<1> USE Sizes
<1>1. /\ phase = "climb" /\ phase' = "pop"
      /\ UNCHANGED <<edge, stage, msg, cur_id, walked, changes, size, own_visited,
                     node, temp_id, temp_anc>>
      /\ dist' \in [Node -> [Node -> 0..INF]]
      /\ nexthop' \in [Node -> [Node -> 0..NumNodes]]
      /\ ancestor' \in [Node -> [Node -> 0..NumNodes]]
      /\ len' \in [Node -> Node]
      /\ \A i \in Node \ {node} : UNCHANGED <<dist[i], nexthop[i], ancestor[i], len[i]>>
      /\ len'[node] = Larger(len[node], len[temp_id])
      /\ heap' \subseteq 1..len'[node]
  BY VisitFacts
<1>2. /\ TypeOK /\ EdgesOK /\ PlaceOK /\ RowsOK
      /\ stage = "routes" /\ node \in Node /\ node <= size /\ temp_id \in Node
  BY <1>1, InSearch, VisitedEntry
<1>3. \A i \in Node : len[i] \in Nat /\ len'[i] \in Nat /\ len[i] <= len'[i]
  <2>1. \A i \in Node : len[i] \in Nat /\ len'[i] \in Nat
    BY <1>1, <1>2, Entries, NodeRange
  <2>2. len[node] <= len'[node]
    BY <1>1, <1>2, <2>1 DEF Larger
  <2>3. \A i \in Node \ {node} : len'[i] = len[i]
    BY <1>1
  <2> QED
    BY <2>1, <2>2, <2>3
<1>4. TypeOK'
  <2>1. heap' \subseteq Node
    <3>1. len'[node] \in Node
      BY <1>1, <1>2
    <3>2. \A h \in 1..len'[node] : h \in Node
      BY <3>1, NodeRange
    <3> QED
      BY <1>1, <3>2
  <2> QED
    BY <1>1, <1>2, <2>1 DEF TypeOK
<1>5. EdgesOK'
  <2> SUFFICES ASSUME NEW i \in Node, NEW j \in Node, edge[i][j] < INF PROVE j <= len'[i]
    BY <1>1, <1>2 DEF EdgesOK
  <2>1. j <= len[i] /\ j \in Nat
    BY <1>2, NodeRange DEF EdgesOK
  <2> QED
    BY <1>3, <2>1
<1>6. PlaceOK' /\ ForwardOK'
  <2>1. \A i \in Node : i <= len[i] /\ i \in Nat
    BY <1>2, NodeRange DEF PlaceOK
  <2>2. \A i \in Node : i <= len'[i]
    BY <1>3, <2>1
  <2> QED
    BY <1>1, <1>2, <2>2 DEF PlaceOK, ForwardOK
<1>7. RowsOK'
  <2> SUFFICES ASSUME NEW i \in Node
               PROVE  IF i < node THEN RowDone(i)' ELSE i # node => RowFresh(i)'
    BY <1>1, <1>2 DEF RowsOK, IsDone
  <2>1. IF i < node THEN RowDone(i) ELSE i # node => RowFresh(i)
    BY <1>1, <1>2 DEF RowsOK, IsDone
  <2>2. i # node => RowDone(i)' = RowDone(i) /\ RowFresh(i)' = RowFresh(i)
    BY <1>1, SameRow
  <2>3. i < node => i # node
    BY <1>2, NodeRange
  <2> QED
    BY <2>1, <2>2, <2>3
<1>8. SearchOK'
  BY <1>1, <1>2, VisitKeepsDist, VisitKeepsRoutes DEF SearchOK, ClimbOK
<1> QED
  BY <1>4, <1>5, <1>6, <1>7, <1>8 DEF IInv

-----------------------------------------------------------------------------
(* The messages.                                                           *)

\* When the tables are written every row has the costs of the shortest paths.
LEMMA RowsExact ==
  ASSUME IInv, Stable, NEW i \in Node
  PROVE  Lower(dist[i], i) /\ NotTooShort(i) /\ InVector(i)
<1> USE Sizes
<1>1. TypeOK /\ EdgesOK /\ RowsOK /\ PlaceOK
  BY DEF IInv
<1>2. /\ i <= size => RowDone(i)
      /\ ~ (i <= size) => RowFresh(i)
  BY <1>1 DEF RowsOK, IsDone, Stable, PlaceOK
<1>3. CASE i <= size
  BY <1>2, <1>3 DEF RowDone
<1>4. CASE ~ (i <= size)
  <2>1. RowFresh(i) /\ NotTooShort(i) /\ InVector(i)
        /\ \A d \in Node : dist[i][d] = edge[i][d]
    BY <1>1, <1>2, <1>4, FreshRow
  <2>2. \A n, d \in Node : edge[n][d] \in 0..INF
    BY <1>1, Entries
  <2>3. \A d \in Node \ {i} : edge[i][d] = INF /\ edge[d][i] = INF
    BY <1>1, <1>4, <2>2 DEF EdgesOK
  <2>4. ASSUME NEW n \in Node, NEW d \in Node, edge[n][d] < INF
        PROVE  dist[i][d] <= dist[i][n] + edge[n][d]
    <3>1. CASE n = i /\ d = i
      BY <1>1, <2>1, <3>1 DEF EdgesOK
    <3>2. CASE n = i /\ d # i
      BY <2>2, <2>3, <2>4, <3>2
    <3>3. CASE n # i
      BY <2>1, <2>2, <2>3, <2>4, <3>3
    <3> QED
      BY <3>1, <3>2, <3>3
  <2>5. dist[i][i] = 0
    BY <1>1, <2>1 DEF EdgesOK
  <2> QED
    BY <2>1, <2>4, <2>5 DEF Lower
<1> QED
  BY <1>3, <1>4

\* No row can be improved on by that of a neighbor.
LEMMA RowsAreClosed ==
  ASSUME IInv, Stable, NEW i \in Node, NEW n \in Node, NEW d \in Node, edge[i][n] < INF
  PROVE  dist[i][d] <= edge[i][n] + dist[n][d]
<1> USE Sizes
<1>1. TypeOK
  BY DEF IInv
<1>2. \A y \in Node : dist[i][y] \in 0..INF /\ dist[n][y] \in 0..INF
  BY <1>1, Entries
<1>3. \A x, y \in Node : edge[x][y] \in 0..INF
  BY <1>1, Entries
<1>4. Lower(dist[i], i) /\ NotTooShort(n)
  BY RowsExact
<1> DEFINE e == edge[i][n]
           q == [y \in Node |-> IF dist[i][y] >= e THEN dist[i][y] - e ELSE 0]
<1>5. q \in [Node -> 0..INF]
  BY <1>2, <1>3
<1>6. q[n] = 0
  <2>1. dist[i][n] <= dist[i][i] + edge[i][n] /\ dist[i][i] = 0
    BY <1>4 DEF Lower
  <2> QED
    BY <1>2, <1>3, <2>1
<1>7. ASSUME NEW x \in Node, NEW y \in Node, edge[x][y] < INF
      PROVE  q[y] <= q[x] + edge[x][y]
  <2>1. dist[i][y] <= dist[i][x] + edge[x][y]
    BY <1>4, <1>7 DEF Lower
  <2> QED
    BY <1>2, <1>3, <2>1
<1>8. \A y \in Node : q[y] = IF dist[i][y] >= e THEN dist[i][y] - e ELSE 0
  OBVIOUS
<1> HIDE DEF q
<1>9. q[d] <= dist[n][d]
  BY <1>4, <1>5, <1>6, <1>7 DEF Lower, NotTooShort
<1> QED
  BY <1>2, <1>3, <1>8, <1>9

\* The next hop is one of the nodes, and on a shortest path.
LEMMA NextHopFits ==
  ASSUME IInv, Stable, NEW i \in Node, i <= size, NEW d \in Node, i # d, dist[i][d] < INF
  PROVE  LET x == nexthop[i][d]
         IN  /\ x \in Node /\ x <= size
             /\ edge[i][x] < INF
             /\ dist[i][d] = edge[i][x] + dist[x][d]
             /\ dist[x][d] < INF
<1> USE Sizes
<1> DEFINE x == nexthop[i][d]
<1>1. TypeOK /\ EdgesOK /\ RowsOK
  BY DEF IInv
<1>2. NextHopOK(i, d)
  BY <1>1 DEF RowsOK, IsDone, Stable, RowDone
<1>3. /\ x \in Node /\ edge[i][x] < INF
      /\ \A q \in [Node -> 0..INF] : Lower(q, x) => q[d] + edge[i][x] <= dist[i][d]
  BY <1>2 DEF NextHopOK
<1> HIDE DEF x
<1>4. dist[x] \in [Node -> 0..INF] /\ Lower(dist[x], x)
  BY <1>1, <1>3, RowsExact DEF TypeOK
<1>5. dist[x][d] + edge[i][x] <= dist[i][d]
  BY <1>3, <1>4
<1>6. dist[i][d] <= edge[i][x] + dist[x][d]
  BY <1>3, RowsAreClosed
<1>7. edge[i][x] \in 0..INF /\ dist[x][d] \in 0..INF /\ dist[i][d] \in 0..INF
  BY <1>1, <1>3, Entries
<1>8. x <= size
  BY <1>1, <1>3 DEF EdgesOK
<1> QED
  BY <1>3, <1>5, <1>6, <1>7, <1>8 DEF x

\* A message follows the next hops, which are nodes with a route for it.
LEMMA OutputStep ==
  /\ IInv
  /\ SkipMessage \/ (~ NoEntry /\ Output)
  /\ UNCHANGED <<sizes, ancestor, own_visited, search>>
  => IInv'
<1> SUFFICES ASSUME IInv, SkipMessage \/ (~ NoEntry /\ Output),
                    UNCHANGED <<sizes, ancestor, own_visited, search>>
             PROVE  IInv'
  OBVIOUS
<1> USE Sizes
<1>1. TypeOK /\ EdgesOK /\ PlaceOK /\ RowsOK /\ ForwardOK
  BY DEF IInv
<1>2. UNCHANGED <<size, len, ancestor, own_visited, phase, node, heap, temp_id, temp_anc>>
  BY DEF sizes, search
<1>3. msg \in Nat \ {0} /\ cur_id \in Node /\ walked \in Nat
  BY <1>1 DEF TypeOK
<1>4. /\ UNCHANGED <<edge, dist, nexthop, changes>>
      /\ stage \in {"messages", "forward"} /\ stage' \in {"messages", "forward", "Finished"}
      /\ msg' \in {msg, msg + 1}
  BY DEF SkipMessage, NoEntry, Output, Unreachable, ReadMessage, Hop, Arrive, Finish,
         routes, forwarding
<1>5. /\ walked' \in Nat /\ cur_id' \in Node
      /\ ForwardOK'
  <2>1. CASE SkipMessage \/ Unreachable
    BY <1>3, <2>1 DEF SkipMessage, NoEntry, Unreachable, ForwardOK
  <2>2. CASE ~ NoEntry /\ ReadMessage
    <3>1. /\ stage = "messages" /\ msg <= Len(Messages) /\ Reachable
          /\ cur_id' = source /\ walked' = 0 /\ msg' = msg
      BY <2>2 DEF ReadMessage
    <3>2. Messages[msg] \in (Nat \ {0}) \X (Nat \ {0})
      BY <1>3, <3>1, GraphAssumption
    <3>3. source \in Nat \ {0} /\ destination \in Nat \ {0}
      BY <3>2 DEF source, destination
    <3>4. ~ (Larger(source, destination) > size)
      BY <2>2, <3>1 DEF NoEntry
    <3>5. size \in 0..NumNodes
      BY <1>1 DEF TypeOK
    <3>6. source \in 1..size /\ destination \in 1..size
      BY <3>3, <3>4, <3>5 DEF Larger
    <3>7. source \in Node /\ destination \in Node
      BY <3>5, <3>6, NodeRange
    <3>8. dist[source][destination] < INF
      <4>1. dist[source][destination] # INF
        BY <3>1 DEF Reachable
      <4> QED
        BY <1>1, <3>7, <4>1, Entries
    <3>9. source' = source /\ destination' = destination
      BY <3>1 DEF source, destination
    <3>10. dist[source][destination] \in 0..INF
      BY <1>1, <3>7, Entries
    <3> QED
      BY <1>2, <1>4, <3>1, <3>6, <3>7, <3>8, <3>9, <3>10 DEF ForwardOK
  <2>3. CASE Hop
    <3>1. /\ stage = "forward" /\ cur_id # destination
          /\ cur_id' = nexthop[cur_id][destination]
          /\ walked' = walked + edge[cur_id][cur_id'] /\ msg' = msg
      BY <2>3 DEF Hop
    <3>2. /\ source \in 1..size /\ destination \in 1..size
          /\ cur_id <= size /\ dist[cur_id][destination] < INF
          /\ walked + dist[cur_id][destination] = dist[source][destination]
      BY <1>1, <3>1 DEF ForwardOK
    <3>3. destination \in Node /\ Stable
      <4>1. size \in 0..NumNodes
        BY <1>1 DEF TypeOK
      <4> QED
        BY <3>1, <3>2, <4>1, NodeRange DEF Stable
    <3>4. /\ cur_id' \in Node /\ cur_id' <= size /\ dist[cur_id'][destination] < INF
          /\ dist[cur_id][destination] = edge[cur_id][cur_id'] + dist[cur_id'][destination]
      BY <1>3, <3>1, <3>2, <3>3, NextHopFits
    <3>5. source' = source /\ destination' = destination
      BY <3>1 DEF source, destination
    <3>6. walked' \in Nat /\ walked' + dist[cur_id'][destination] = dist[source][destination]
      <4>1. edge[cur_id][cur_id'] \in 0..INF /\ dist[cur_id'][destination] \in 0..INF
        BY <1>1, <1>3, <3>3, <3>4, Entries
      <4> QED
        BY <1>3, <3>1, <3>2, <3>4, <4>1
    <3> QED
      BY <1>2, <1>4, <3>2, <3>4, <3>5, <3>6 DEF ForwardOK
  <2>4. CASE Arrive \/ Finish
    BY <1>3, <2>4 DEF Arrive, Finish, forwarding, ForwardOK
  <2> QED
    BY <2>1, <2>2, <2>3, <2>4 DEF Output
<1>6. TypeOK'
  BY <1>1, <1>2, <1>3, <1>4, <1>5 DEF TypeOK
<1>7. EdgesOK' /\ PlaceOK'
  BY <1>1, <1>2, <1>4, SameRows DEF PlaceOK
<1>8. RowsOK'
  BY <1>1, <1>2, <1>4, SameRows DEF RowsOK, IsDone
<1>9. SearchOK'
  BY <1>1, <1>2, <1>4 DEF SearchOK, PlaceOK
<1> QED
  BY <1>5, <1>6, <1>7, <1>8, <1>9 DEF IInv

\* Every step keeps the invariant.
LEMMA NextStep == IInv /\ [Next]_vars => IInv'
<1> SUFFICES ASSUME IInv, [Next]_vars PROVE IInv'
  OBVIOUS
<1>1. CASE set_vector_LS
  BY <1>1, StartStep, PopStep, ClimbStep, VisitStep, NextNodeStep DEF set_vector_LS
<1>2. CASE EndSearch
  BY <1>2, EndSearchStep
<1>3. CASE /\ SkipMessage \/ (~ NoEntry /\ Output)
           /\ UNCHANGED <<sizes, ancestor, own_visited, search>>
  BY <1>3, OutputStep
<1>4. CASE LinkChange /\ UNCHANGED <<own_visited, search>>
  BY <1>4, ChangeStep
<1>5. CASE UNCHANGED vars
  <2>1. UNCHANGED <<edge, dist, nexthop, stage, msg, cur_id, walked, changes, size, len,
                    ancestor, own_visited, phase, node, heap, temp_id, temp_anc>>
    BY <1>5 DEF vars, routes, forwarding, sizes, search
  <2>2. TypeOK' /\ PlaceOK' /\ ForwardOK'
    BY <2>1 DEF IInv, TypeOK, PlaceOK, ForwardOK, source, destination
  <2>3. EdgesOK' /\ RowsOK'
    BY <2>1, SameRows DEF IInv, RowsOK, IsDone
  <2>4. Popped' = Popped /\ Passed' = Passed
    BY <2>1 DEF Popped, Passed
  <2>5. SearchOK'
    <3> SUFFICES ASSUME phase # "start"
                 PROVE  /\ node <= size /\ heap \subseteq 1..len[node]
                        /\ DistOK' /\ RoutesOK' /\ ClimbOK'
      BY <2>1 DEF SearchOK
    <3>1. /\ node <= size /\ heap \subseteq 1..len[node]
          /\ DistOK /\ RoutesOK /\ ClimbOK
      BY DEF IInv, SearchOK
    <3>2. DistOK'
      BY <2>1, <2>4, <3>1 DEF DistOK, OwnOK, InVector, NotTooShort, Lower
    <3>3. RoutesOK'
      BY <2>1, <2>4, <3>1 DEF RoutesOK, LastHopOK, NextHopOK, Lower
    <3>4. ClimbOK'
      BY <2>1, <2>4, <3>1 DEF ClimbOK
    <3> QED
      BY <3>1, <3>2, <3>3, <3>4
  <2> QED
    BY <2>2, <2>3, <2>5 DEF IInv
<1> QED
  BY <1>1, <1>2, <1>3, <1>4, <1>5 DEF Next

\* The invariant of the search holds for every topology and every change.
THEOREM Invariant == Spec => []IInv
<1> QED
  BY InitInv, NextStep, PTL DEF Spec

-----------------------------------------------------------------------------
\* The variables keep to their types; the climb stays at the nodes.
THEOREM TypeCorrectness == Spec => []TypeOK
<1>1. IInv => TypeOK
  BY DEF IInv
<1> QED
  BY <1>1, Invariant, PTL

\* Wherever a message comes, the vector reaches as far as its destination.
THEOREM MessagesFindTheirEntry == Spec => []EntryExists
<1>1. IInv => EntryExists
  <2> SUFFICES ASSUME IInv, stage = "forward" PROVE cur_id <= size /\ destination <= len[cur_id]
    BY DEF EntryExists
  <2>1. /\ destination \in 1..size /\ cur_id <= size /\ dist[cur_id][destination] < INF
        /\ cur_id \in Node /\ size \in 0..NumNodes
    BY DEF IInv, ForwardOK, TypeOK
  <2>2. destination \in Node
    BY <2>1, Sizes, NodeRange
  <2>3. Stable
    BY DEF Stable
  <2> QED
    BY <2>1, <2>2, <2>3, RowsExact DEF InVector
<1> QED
  BY <1>1, Invariant, PTL

\* With edges that cost something the last hop is the neighbor with the
\* smallest number, whatever the order of the visits.
THEOREM LastHopIsLowest ==
  ASSUME 0 \notin Costs
  PROVE  Spec => []LowestLastHop
<1>1. IInv => LowestLastHop
  <2> SUFFICES ASSUME IInv, Stable, NEW i \in 1..size, NEW d \in Node, i # d, dist[i][d] < INF
               PROVE  LET onShortest == {n \in Node \ {d} :
                            edge[n][d] < INF /\ dist[i][n] + edge[n][d] = dist[i][d]}
                      IN  /\ ancestor[i][d] \in onShortest
                          /\ \A n \in onShortest : ancestor[i][d] <= n
    BY DEF LowestLastHop
  <2>1. TypeOK /\ RowsOK
    BY DEF IInv
  <2>2. size \in 0..NumNodes
    BY <2>1 DEF TypeOK
  <2>3. i \in Node
    BY <2>2, Sizes, NodeRange
  <2>4. RowDone(i)
    BY <2>1, <2>3 DEF RowsOK, IsDone, Stable
  <2>5. LastHopOK(i, d, Node)
    BY <2>4 DEF RowDone
  <2> QED
    BY <2>3, <2>5 DEF LastHopOK
<1> QED
  BY <1>1, Invariant, PTL

\* A message's path costs what the tables say.
THEOREM MessagesCostTheirDistance == Spec => []CostOfPath
<1>1. IInv => CostOfPath
  BY DEF IInv, ForwardOK, CostOfPath
<1> QED
  BY <1>1, Invariant, PTL

-----------------------------------------------------------------------------
\* A topology is one the abstract program may start with.
LEMMA InitRefines == Init => Abstract!Init
<1> SUFFICES ASSUME Init PROVE Abstract!Init
  OBVIOUS
<1>1. IInv
  BY InitInv
<1>2. /\ edge \in [Node -> [Node -> 0..INF]] /\ size \in 0..NumNodes
      /\ \A i, j \in Node : edge[i][j] = edge[j][i]
  BY <1>1 DEF IInv, TypeOK, EdgesOK
<1>3. Stable = FALSE /\ At = 0 /\ msg = 1
  BY DEF Init, GraphInit, Stable, At
<1> QED
  BY <1>2, <1>3 DEF Abstract!Init, Abstract!Node, Node

\* An estimate of the cost to d, seen from i.
LEMMA EstimateIsLower ==
  ASSUME TypeOK, NEW i \in Node, NEW d \in Node, NEW p \in [Node -> 0..INF], Estimate(p, d),
         NotTooShort(i)
  PROVE  p[i] <= dist[i][d]
<1> USE Sizes
<1> DEFINE q == [x \in Node |-> IF p[i] >= p[x] THEN p[i] - p[x] ELSE 0]
<1>1. \A x \in Node : p[x] \in 0..INF
  OBVIOUS
<1>2. \A x, y \in Node : edge[x][y] \in 0..INF
  BY Entries
<1>3. q \in [Node -> 0..INF] /\ q[i] = 0
  BY <1>1
<1>4. ASSUME NEW n \in Node, NEW m \in Node, edge[n][m] < INF
      PROVE  q[m] <= q[n] + edge[n][m]
  <2>1. p[n] <= edge[n][m] + p[m]
    BY <1>4 DEF Estimate
  <2> QED
    BY <1>1, <1>2, <2>1
<1>5. p[d] = 0
  BY DEF Estimate
<1>6. q[d] = p[i]
  BY <1>1, <1>5
<1> HIDE DEF q
<1>7. q[d] <= dist[i][d]
  BY <1>3, <1>4 DEF NotTooShort, Lower
<1> QED
  BY <1>6, <1>7

\* The tables are announced when they are shortest.
LEMMA TablesAreShortest == IInv /\ Stable => Abstract!Shortest(dist)
<1> SUFFICES ASSUME IInv, Stable, NEW d \in Node
             PROVE  /\ Estimate([i \in Node |-> dist[i][d]], d)
                    /\ \A p \in [Node -> 0..INF] :
                         Estimate(p, d) => \A i \in Node : p[i] <= dist[i][d]
  BY DEF Abstract!Shortest, Abstract!Estimate, Abstract!Node, Estimate, Node
<1> USE Sizes
<1>1. \A x, y \in Node : edge[x][y] \in 0..INF /\ dist[x][y] \in 0..INF
  BY Entries DEF IInv
<1>2. Estimate([i \in Node |-> dist[i][d]], d)
  <2>1. dist[d][d] = 0
    BY RowsExact DEF Lower
  <2>2. \A i, n \in Node : edge[i][n] < INF => dist[i][d] <= edge[i][n] + dist[n][d]
    BY RowsAreClosed
  <2> QED
    BY <2>1, <2>2 DEF Estimate
<1>3. ASSUME NEW p \in [Node -> 0..INF], Estimate(p, d), NEW i \in Node
      PROVE  p[i] <= dist[i][d]
  <2>1. TypeOK /\ NotTooShort(i)
    BY RowsExact DEF IInv
  <2> QED
    BY <1>3, <2>1, EstimateIsLower
<1> QED
  BY <1>2, <1>3

\* The distances that are written are the costs of the shortest paths, by the
\* textbook definition.
THEOREM DistancesAreShortest == Spec => []ShortestPaths
<1>1. IInv => ShortestPaths
  <2> SUFFICES ASSUME IInv, Stable, NEW i \in Node, NEW d \in Node
               PROVE  dist[i][d] = Within[NumNodes - 1][i][d]
    BY DEF ShortestPaths
  <2> DEFINE w == [n \in Node |-> Within[NumNodes - 1][n][d]]
             t == [n \in Node |-> dist[n][d]]
  <2>1. TypeOK /\ NotTooShort(i)
    BY RowsExact DEF IInv
  <2>2. edge \in [Node -> [Node -> 0..INF]] /\ \A n \in Node : dist[n][d] \in 0..INF
    BY <2>1 DEF TypeOK
  <2>3. /\ w \in [Node -> 0..INF]
        /\ Estimate(w, d)
        /\ \A p \in [Node -> 0..INF] : Estimate(p, d) => \A n \in Node : p[n] <= w[n]
    BY <2>2, WithinIsShortest
  <2>4. t \in [Node -> 0..INF] /\ t[i] = dist[i][d] /\ w[i] = Within[NumNodes - 1][i][d]
    BY <2>2
  <2>5. Estimate(t, d)
    BY TablesAreShortest DEF Abstract!Shortest, Abstract!Estimate, Abstract!Node, Estimate, Node
  <2> HIDE DEF w, t
  <2>6. t[i] <= w[i]
    BY <2>3, <2>4, <2>5
  <2>7. w[i] <= dist[i][d]
    BY <2>1, <2>3, EstimateIsLower
  <2>8. w[i] \in 0..INF /\ dist[i][d] \in 0..INF
    BY <2>2, <2>3
  <2> QED
    BY <2>4, <2>6, <2>7, <2>8
<1> QED
  BY <1>1, Invariant, PTL

\* What has left the heap is final in the middle of the search: distances cut off
\* at that of a popped entry are an estimate that no other entry can lower.
THEOREM PoppedIsFinal == Spec => []VisitedIsFinal
<1>1. IInv => VisitedIsFinal
  <2> SUFFICES ASSUME IInv, phase # "start", NEW d \in Popped
               PROVE  dist[node][d] = Within[NumNodes - 1][node][d]
    BY DEF VisitedIsFinal, Popped
  <2> USE Sizes
  <2>1. TypeOK /\ DistOK /\ ClimbOK /\ node <= size
    BY DEF IInv, SearchOK
  <2>2. node \in Node /\ len[node] \in Node
    <3>1. node \in Nat /\ 1 <= node /\ size \in Nat /\ size <= NumNodes
      BY <2>1 DEF TypeOK
    <3>2. node \in Node
      BY <2>1, <3>1, NodeRange
    <3> QED
      BY <2>1, <3>2 DEF TypeOK
  <2>3. d \in Node
    BY <2>2, NodeRange DEF Popped
  <2>4. \A x, y \in Node : edge[x][y] \in 0..INF /\ dist[x][y] \in 0..INF
    BY <2>1, Entries
  <2> DEFINE w == [n \in Node |-> Within[NumNodes - 1][n][d]]
             D == dist[node][d]
             r(x) == dist[node][x]
             p == [x \in Node |-> IF r(x) <= D THEN D - r(x) ELSE 0]
  <2>5. /\ w \in [Node -> 0..INF]
        /\ Estimate(w, d)
        /\ \A e \in [Node -> 0..INF] : Estimate(e, d) => \A n \in Node : e[n] <= w[n]
    BY <2>1, <2>3, WithinIsShortest DEF TypeOK
  <2>6. w[node] = Within[NumNodes - 1][node][d]
    BY <2>2
  <2>7. \A x \in Node : r(x) \in 0..INF
    BY <2>2, <2>4
  <2>8. D \in 0..INF
    BY <2>2, <2>3, <2>4
  <2>9. w[node] <= D
    BY <2>1, <2>2, <2>3, <2>5, EstimateIsLower DEF DistOK
  <2>10. r(node) = 0 /\ r(d) = D
    BY <2>1 DEF DistOK, OwnOK
  <2>11. ASSUME NEW x \in Node, x \notin Passed PROVE D <= r(x)
    <3>1. CASE x \notin Popped
      BY <2>1, <2>11, <3>1 DEF DistOK
    <3>2. CASE x \in Popped
      <4>1. phase = "climb" /\ x = temp_id
        BY <2>11, <3>2 DEF Passed
      <4> QED
        BY <2>1, <4>1 DEF ClimbOK
    <3> QED
      BY <3>1, <3>2
  <2>12. ASSUME NEW x \in Passed, NEW y \in Node, edge[x][y] < INF
         PROVE  r(y) <= r(x) + edge[x][y]
    BY <2>1, <2>12 DEF DistOK
  <2> HIDE DEF w, D, r
  <2>13. p \in [Node -> 0..INF] /\ p[node] = D /\ p[d] = 0
    BY <2>2, <2>3, <2>7, <2>8, <2>10
  <2>14. ASSUME NEW x \in Node, NEW y \in Node, edge[x][y] < INF
         PROVE  p[x] <= edge[x][y] + p[y]
    <3>1. CASE x \in Passed
      <4>1. r(y) <= r(x) + edge[x][y]
        BY <2>12, <2>14, <3>1
      <4> QED
        BY <2>4, <2>7, <2>8, <4>1
    <3>2. CASE x \notin Passed
      <4>1. D <= r(x)
        BY <2>11, <3>2
      <4> QED
        BY <2>4, <2>7, <2>8, <4>1
    <3> QED
      BY <3>1, <3>2
  <2> HIDE DEF p
  <2>15. Estimate(p, d)
    BY <2>13, <2>14 DEF Estimate
  <2>16. p[node] <= w[node]
    BY <2>2, <2>5, <2>13, <2>15
  <2>17. D = w[node]
    BY <2>2, <2>5, <2>8, <2>9, <2>13, <2>16
  <2> QED
    BY <2>6, <2>17 DEF D
<1> QED
  BY <1>1, Invariant, PTL

\* Every step is one of the abstract program or changes nothing it shows.
LEMMA StepRefines ==
  IInv /\ IInv' /\ [Next]_vars => [Abstract!Next]_(Abstract!vars)
<1> SUFFICES ASSUME IInv, IInv', [Next]_vars PROVE [Abstract!Next]_(Abstract!vars)
  OBVIOUS
<1> USE Sizes
<1>1. TypeOK /\ PlaceOK
  BY DEF IInv
<1>2. cur_id \in Node /\ msg \in Nat \ {0} /\ size \in 0..NumNodes
  BY <1>1 DEF TypeOK
<1>3. CASE UNCHANGED vars
  BY <1>3 DEF vars, routes, forwarding, sizes, Abstract!vars, Stable, Announced, At
<1>4. CASE set_vector_LS
  <2>1. stage = "routes" /\ stage' = stage /\ UNCHANGED <<edge, size, msg>>
    <3>1. Start => stage = "routes"
      BY DEF Start
    <3>2. Pop \/ Climb \/ Visit \/ NextNode => phase # "start"
      BY DEF Pop, Climb, Visit, NextNode
    <3>3. stage = "routes"
      BY <1>1, <1>4, <3>1, <3>2 DEF set_vector_LS, PlaceOK
    <3> QED
      BY <1>4, <3>3 DEF set_vector_LS, Start, Pop, Climb, Visit, NextNode, routes, forwarding, sizes
  <2> QED
    BY <2>1 DEF Abstract!vars, Stable, Announced, At
<1>5. CASE EndSearch
  <2>1. /\ stage = "routes" /\ stage' = "messages"
        /\ UNCHANGED <<edge, size, dist, msg>>
    BY <1>5 DEF EndSearch, routes, forwarding, sizes
  <2>2. ~ Stable /\ Stable' /\ At = 0 /\ At' = 0 /\ Announced' = dist'
    BY <2>1 DEF Stable, At, Announced
  <2>3. Abstract!Shortest(dist)'
    BY <2>2, TablesAreShortest, PTL
  <2>4. Abstract!Shortest(dist')
    BY <2>1, <2>3 DEF Abstract!Shortest, Abstract!Estimate
  <2> QED
    BY <2>1, <2>2, <2>4 DEF Abstract!Next, Abstract!Announce
<1>6. CASE /\ SkipMessage \/ (~ NoEntry /\ Unreachable)
           /\ UNCHANGED <<sizes, ancestor, own_visited, search>>
  <2>1. /\ stage = "messages" /\ msg <= Len(Messages) /\ (NoEntry \/ ~ Reachable)
        /\ msg' = msg + 1 /\ UNCHANGED <<edge, dist, size, stage, cur_id>>
    BY <1>6 DEF SkipMessage, NoEntry, Unreachable, routes, sizes
  <2>2. Stable /\ Stable' /\ At = 0 /\ At' = 0 /\ Announced = dist /\ Announced' = dist
    BY <2>1 DEF Stable, At, Announced
  <2>3. source = Abstract!from /\ destination = Abstract!to
    BY DEF source, destination, Abstract!from, Abstract!to
  <2>4. ASSUME source <= size, destination <= size PROVE dist[source][destination] = INF
    <3>1. Messages[msg] \in (Nat \ {0}) \X (Nat \ {0})
      BY <1>2, <2>1, GraphAssumption
    <3>2. source \in Nat \ {0} /\ destination \in Nat \ {0}
      BY <3>1 DEF source, destination
    <3>3. source \in Node /\ destination \in Node
      BY <1>2, <2>4, <3>2, NodeRange
    <3>4. dist[source][destination] \in 0..INF /\ len[source] \in Nat
      BY <1>1, <3>3, Entries, NodeRange
    <3>5. CASE NoEntry
      <4>1. ~ (Larger(source, destination) > size)
        BY <1>2, <2>4, <3>2 DEF Larger
      <4>2. destination > len[source]
        BY <3>5, <4>1 DEF NoEntry
      <4>3. ~ (dist[source][destination] < INF)
        BY <2>2, <3>2, <3>3, <3>4, <4>2, RowsExact DEF InVector
      <4> QED
        BY <3>4, <4>3
    <3>6. CASE ~ Reachable
      BY <3>3, <3>6, NodeRange DEF Reachable
    <3> QED
      BY <2>1, <3>5, <3>6
  <2>5. ~ Abstract!HasRoute
    BY <2>2, <2>3, <2>4 DEF Abstract!HasRoute
  <2> QED
    BY <2>1, <2>2, <2>5 DEF Abstract!Next, Abstract!Refuse, Abstract!NextMessage
<1>7. CASE /\ ~ NoEntry /\ ReadMessage
           /\ UNCHANGED <<sizes, ancestor, own_visited, search>>
  <2>1. /\ stage = "messages" /\ msg <= Len(Messages) /\ ~ NoEntry /\ Reachable
        /\ stage' = "forward" /\ cur_id' = source /\ UNCHANGED <<edge, dist, size, msg>>
    BY <1>7 DEF ReadMessage, routes, sizes
  <2>2. Stable /\ Stable' /\ At = 0 /\ At' = source /\ Announced = dist /\ Announced' = dist
    BY <2>1 DEF Stable, At, Announced
  <2>3. source = Abstract!from /\ destination = Abstract!to
    BY DEF source, destination, Abstract!from, Abstract!to
  <2>4. source \in Nat /\ destination \in Nat
    <3>1. Messages[msg] \in (Nat \ {0}) \X (Nat \ {0})
      BY <1>2, <2>1, GraphAssumption
    <3> QED
      BY <3>1 DEF source, destination
  <2>5. source <= size /\ destination <= size /\ dist[source][destination] # INF
    BY <1>2, <2>1, <2>4 DEF NoEntry, Larger, Reachable
  <2>6. Abstract!HasRoute
    BY <2>2, <2>3, <2>5 DEF Abstract!HasRoute
  <2> QED
    BY <2>1, <2>2, <2>3, <2>6 DEF Abstract!Next, Abstract!Accept, Abstract!NextMessage
<1>8. CASE Hop /\ UNCHANGED <<sizes, ancestor, own_visited, search>>
  <2>1. /\ stage = "forward" /\ stage' = "forward" /\ cur_id # destination
        /\ cur_id' = nexthop[cur_id][destination] /\ UNCHANGED <<edge, dist, size, msg>>
    BY <1>8 DEF Hop, routes, sizes
  <2>2. Stable /\ Stable' /\ At = cur_id /\ At' = cur_id' /\ Announced = dist /\ Announced' = dist
    BY <2>1 DEF Stable, At, Announced
  <2>3. /\ destination \in 1..size /\ cur_id <= size /\ dist[cur_id][destination] < INF
    BY <2>1 DEF IInv, ForwardOK
  <2>4. destination \in Node
    BY <1>2, <2>3, NodeRange
  <2>5. /\ cur_id' \in Node /\ edge[cur_id][cur_id'] < INF
        /\ dist[cur_id][destination] = edge[cur_id][cur_id'] + dist[cur_id'][destination]
    BY <1>2, <2>1, <2>2, <2>3, <2>4, NextHopFits
  <2>6. destination = Abstract!to
    BY DEF destination, Abstract!to
  <2>7. cur_id # 0 /\ cur_id' \in Abstract!Node
    BY <1>2, <2>5 DEF Node, Abstract!Node
  <2>8. Abstract!Hop
    BY <2>1, <2>2, <2>5, <2>6, <2>7 DEF Abstract!Hop
  <2> QED
    BY <2>8 DEF Abstract!Next
<1>9. CASE Arrive /\ UNCHANGED <<sizes, ancestor, own_visited, search>>
  <2>1. /\ stage = "forward" /\ cur_id = destination /\ stage' = "messages"
        /\ msg' = msg + 1 /\ UNCHANGED <<edge, dist, size>>
    BY <1>9 DEF Arrive, routes, sizes
  <2>2. Stable /\ Stable' /\ At = cur_id /\ At' = 0 /\ Announced = dist /\ Announced' = dist
    BY <2>1 DEF Stable, At, Announced
  <2>3. cur_id # 0 /\ destination = Abstract!to
    BY <1>2 DEF Node, destination, Abstract!to
  <2> QED
    BY <2>1, <2>2, <2>3 DEF Abstract!Next, Abstract!Deliver
<1>10. CASE Finish /\ UNCHANGED <<sizes, ancestor, own_visited, search>>
  BY <1>10 DEF Finish, routes, forwarding, sizes, Abstract!vars, Stable, Announced, At
<1>11. CASE LinkChange
  <2>1. PICK i \in Node, j \in Node, cost \in LinkCosts :
          i # j /\ ChangeLink(i, j, cost, Created) /\ size' = Larger(size, Larger(i, j))
    BY <1>11 DEF LinkChange
  <2>2. /\ stage = "messages" /\ stage' = "routes" /\ msg > Len(Messages) /\ msg' = 1
        /\ edge' = Both(edge, i, j, cost)
    BY <2>1 DEF ChangeLink, parseLineChange
  <2>3. Stable /\ Stable' = FALSE /\ At = 0 /\ At' = 0
    BY <2>2 DEF Stable, At
  <2>4. cost \in 0..INF /\ i \in Abstract!Node /\ j \in Abstract!Node
    BY GraphAssumption DEF LinkCosts, Node, Abstract!Node
  <2>5. edge' = [edge EXCEPT ![i] = [@ EXCEPT ![j] = cost], ![j] = [@ EXCEPT ![i] = cost]]
    BY <2>2 DEF Both
  <2>6. size' \in size..NumNodes
    BY <1>2, <2>1, NodeRange DEF Larger
  <2>7. Abstract!Change
    BY <2>1, <2>2, <2>3, <2>4, <2>5, <2>6 DEF Abstract!Change
  <2> QED
    BY <2>7 DEF Abstract!Next
<1> QED
  BY <1>3, <1>4, <1>5, <1>6, <1>7, <1>8, <1>9, <1>10, <1>11 DEF Next, Output

\* The link state program implements the abstract routing program.
THEOREM Refinement == Spec => Implements
<1>1. IInv /\ IInv' /\ [Next]_vars => [Abstract!Next]_(Abstract!vars)
  BY StepRefines
<1> QED
  BY <1>1, InitRefines, Invariant, PTL DEF Spec, Implements, Abstract!Spec
=================================================================================
