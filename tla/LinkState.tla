-------------------------------- MODULE LinkState --------------------------------
(***************************************************************************)
(* The link state program of mp3: output_LS and Node::set_vector_LS,       *)
(* Dijkstra's search from every node in turn.                              *)
(*                                                                         *)
(* Changes may name nodes that are not in the topology; the nodes are then *)
(* 1..size, for a size up to NumNodes.  The node_vectors of other nodes    *)
(* stay short and grow in the middle of the search.  An entry that is not  *)
(* there yet is one without edge and route, and its own row is empty.      *)
(*                                                                         *)
(* The heap is an unordered vector of pairs <distance, id>.  It is         *)
(* represented by the ids: the distance of a pair is the distance_cost of  *)
(* the entry, as every assignment to one is followed by one to the other.  *)
(* An entry other than the node's own is visited iff it has left the heap. *)
(***************************************************************************)
EXTENDS Graph

\* Costs do not add up to INF.  A distance that would is not cut off to INF
\* when a vector grows, and passes for a route without a next hop.
ASSUME CostAssumption == \A c \in Costs : c * NumNodes < INF

VARIABLES
  size,
  len,           \* Node.size: the length of each node_vector
  ancestor,      \* ancestor_id: the last but one node of each route
  own_visited,   \* nodes whose own entry has its visited_flag
  phase,         \* where set_vector_LS is: "start", "pop", "climb"
  node,          \* the node it runs for
  heap,
  temp_id, temp_anc

sizes == <<size, len>>
search == <<phase, node, heap, temp_id, temp_anc>>
vars == <<routes, stage, forwarding, changes, sizes, ancestor, own_visited, search>>

Larger(a, b) == IF a >= b THEN a ELSE b

\* increase_size2 has pushed the entries past the last one that the topology
\* file has named to node i.
IsPushed(i, j) == i < j /\ j <= size /\ \A n \in j..size : nexthop[i][n] = 0

Own == [i \in Node |-> [j \in Node |-> IF IsPushed(i, j) THEN 0 ELSE i]]

FirstNode == 1

\* parseFile.  The last node that is named is the last there is; the vector
\* of a node that is not there yet has the length it is created with.
Init ==
  /\ GraphInit
  /\ size \in 0..NumNodes
  /\ \A i \in Node : IsNamed(i) => i <= size
  /\ size > 0 => IsNamed(size)
  /\ len = [i \in Node |-> Larger(i, size)]
  /\ ancestor = Own
  /\ own_visited = {}
  /\ phase = "start"
  /\ node = FirstNode
  /\ heap = {}
  /\ temp_id = 0
  /\ temp_anc = 0

-----------------------------------------------------------------------------
\* set_vector_LS puts all entries on the heap.
Start ==
  /\ stage = "routes"
  /\ phase = "start"
  /\ node <= size
  /\ heap' = 1..len[node]
  /\ phase' = "pop"
  /\ UNCHANGED <<routes, stage, forwarding, changes, sizes, ancestor, own_visited,
                 node, temp_id, temp_anc>>

\* Mutant of pop_heap: the first entry with a route.
PopFirst == CHOOSE t \in heap :
  /\ dist[node][t] < INF
  /\ \A u \in heap : dist[node][u] < INF => t <= u

\* The smallest pair: the smallest id among those at the smallest distance.
pop_heap == CHOOSE t \in heap :
  \A u \in heap :
    \/ dist[node][t] < dist[node][u]
    \/ dist[node][t] = dist[node][u] /\ t <= u

NothingToPop == \A t \in heap : dist[node][t] >= INF

Pop ==
  /\ phase = "pop"
  /\ ~ NothingToPop
  /\ temp_id' = pop_heap
  /\ temp_anc' = temp_id'
  /\ heap' = heap \ {temp_id'}
  /\ own_visited' = IF temp_id' = node THEN own_visited \cup {node} ELSE own_visited
  /\ phase' = "climb"
  /\ UNCHANGED <<routes, stage, forwarding, changes, sizes, ancestor, node>>

\* The loop that looks for the first hop of the route to temp_id.
Climb ==
  /\ phase = "climb"
  /\ ancestor[node][temp_anc] # node
  /\ temp_anc' = ancestor[node][temp_anc]
  /\ UNCHANGED <<routes, stage, forwarding, changes, sizes, ancestor, own_visited,
                 phase, node, heap, temp_id>>

\* The routes by temp_id, of which the loop over its node_vector takes those
\* that are shorter, or as short and by an ancestor with a smaller number.
new_dist(d) == dist[node][temp_id] + edge[temp_id][d]

IsLink(d) == d <= len[temp_id] /\ edge[temp_id][d] < INF

\* Mutant of IsNew: entries past the end of the own vector are passed over.
NoneIsNew(d) == FALSE

IsNew(d) == len[node] < d /\ d <= len[temp_id]

Unvisited(d) == d \in heap /\ ~ (d = node /\ node \in own_visited)

\* Mutants of Improves: visited entries are not left alone, ...
ImprovesVisited(d) ==
  /\ IsLink(d)
  /\ d # temp_id
  /\ \/ IsNew(d)
     \/ new_dist(d) < dist[node][d]
     \/ new_dist(d) = dist[node][d] /\ temp_id < ancestor[node][d]

\* ... and ties are left as they are.
StrictlyImproves(d) ==
  /\ IsLink(d)
  /\ d # temp_id
  /\ \/ IsNew(d)
     \/ Unvisited(d) /\ new_dist(d) < dist[node][d]

Improves(d) ==
  /\ IsLink(d)
  /\ d # temp_id
  /\ \/ IsNew(d)
     \/ /\ Unvisited(d)
        /\ \/ new_dist(d) < dist[node][d]
           \/ new_dist(d) = dist[node][d] /\ temp_id < ancestor[node][d]

\* Mutant of NextHop: the last hop.
LastHop == ancestor[node][temp_id]

NextHop == temp_anc

\* The entries that are new are put on the heap.
Visit ==
  /\ phase = "climb"
  /\ ancestor[node][temp_anc] = node
  /\ dist' = [dist EXCEPT ![node] = [d \in Node |->
       IF Improves(d) THEN new_dist(d) ELSE dist[node][d]]]
  /\ ancestor' = [ancestor EXCEPT ![node] = [d \in Node |->
       IF Improves(d) THEN temp_id ELSE IF IsNew(d) THEN 0 ELSE ancestor[node][d]]]
  /\ nexthop' = [nexthop EXCEPT ![node] = [d \in Node |->
       IF d = temp_id THEN NextHop ELSE IF IsNew(d) THEN 0 ELSE nexthop[node][d]]]
  /\ len' = [len EXCEPT ![node] = Larger(@, len[temp_id])]
  /\ heap' = heap \cup {d \in Node : IsNew(d)}
  /\ phase' = "pop"
  /\ UNCHANGED <<edge, stage, forwarding, changes, size, own_visited, node, temp_id, temp_anc>>

NextNode ==
  /\ phase = "pop"
  /\ NothingToPop
  /\ phase' = "start"
  /\ node' = node + 1
  /\ UNCHANGED <<routes, stage, forwarding, changes, sizes, ancestor, own_visited,
                 heap, temp_id, temp_anc>>

\* Mutant of EndSearch: after a change the loop over the nodes starts one late.
EndSearchLate ==
  /\ stage = "routes"
  /\ phase = "start"
  /\ node > size
  /\ node' = FirstNode + 1
  /\ stage' = "messages"
  /\ UNCHANGED <<routes, forwarding, changes, sizes, ancestor, own_visited,
                 phase, heap, temp_id, temp_anc>>

EndSearch ==
  /\ stage = "routes"
  /\ phase = "start"
  /\ node > size
  /\ node' = FirstNode
  /\ stage' = "messages"
  /\ UNCHANGED <<routes, forwarding, changes, sizes, ancestor, own_visited,
                 phase, heap, temp_id, temp_anc>>

set_vector_LS == Start \/ Pop \/ Climb \/ Visit \/ NextNode

-----------------------------------------------------------------------------
\* A message whose source or destination is no node, or whose destination is
\* past the end of the source's vector.
NoEntry ==
  /\ stage = "messages"
  /\ msg <= Len(Messages)
  /\ \/ Larger(source, destination) > size
     \/ source <= size /\ destination > len[source]

SkipMessage ==
  /\ NoEntry
  /\ msg' = msg + 1
  /\ UNCHANGED <<routes, stage, cur_id, walked, changes>>

\* The entries that the vectors have.
Created == {e \in Node \X Node : e[1] <= size /\ e[2] <= len[e[1]]}

\* Mutant of ClearAncestors: they are kept.
KeepAncestors == ancestor

\* clear_vector leaves the own entry alone, its visited_flag included.
ClearAncestors ==
  [i \in Node |-> [j \in Node |-> IF i = j THEN ancestor[i][j] ELSE i]]

LinkChange ==
  \E i, j \in Node, cost \in LinkCosts :
    /\ i # j
    /\ ChangeLink(i, j, cost, Created)
    /\ size' = Larger(size, Larger(i, j))
    /\ len' = [len EXCEPT ![i] = Larger(@, j), ![j] = Larger(@, i)]
    /\ ancestor' = ClearAncestors

Next ==
  \/ set_vector_LS
  \/ EndSearch
  \/ /\ SkipMessage \/ (~ NoEntry /\ Output)
     /\ UNCHANGED <<sizes, ancestor, own_visited, search>>
  \/ LinkChange /\ UNCHANGED <<own_visited, search>>

Spec == Init /\ [][Next]_vars

\* The program is one thread that never blocks.
FairSpec == Spec /\ WF_vars(Next)

-----------------------------------------------------------------------------
\* The variables keep to their types: the climb along the ancestors, those
\* an own entry has kept from an earlier search included, never ends up at
\* the ancestor 0 that a new entry without a route has.
TypeOK ==
  /\ edge \in [Node -> [Node -> 0..INF]]
  /\ dist \in [Node -> [Node -> 0..INF]]
  /\ nexthop \in [Node -> [Node -> 0..NumNodes]]
  /\ ancestor \in [Node -> [Node -> 0..NumNodes]]
  /\ stage \in {"routes", "messages", "forward", "Finished"}
  /\ msg \in Nat \ {0}
  /\ cur_id \in Node
  /\ walked \in Nat
  /\ changes \in Nat
  /\ size \in 0..NumNodes
  /\ len \in [Node -> Node]
  /\ own_visited \subseteq Node
  /\ phase \in {"start", "pop", "climb"}
  /\ node \in 1..(NumNodes + 1)
  /\ heap \subseteq Node
  /\ phase = "climb" => temp_id \in Node /\ temp_anc \in Node

\* When the tables are written every route comes from the neighbor of its
\* destination with the smallest number of those on a shortest path (with
\* edges that cost something).
LowestLastHop ==
  Stable =>
    \A i \in 1..size, d \in Node :
      i # d /\ dist[i][d] < INF =>
        LET onShortest == {n \in Node \ {d} : /\ edge[n][d] < INF
                                              /\ dist[i][n] + edge[n][d] = dist[i][d]}
        IN  /\ ancestor[i][d] \in onShortest
            /\ \A n \in onShortest : ancestor[i][d] <= n

\* In the middle of a search: the distance of an entry that has left the heap
\* is final, though other entries, and the vector itself, still change.
VisitedIsFinal ==
  stage = "routes" /\ phase # "start" =>
    \A d \in (1..len[node]) \ heap : dist[node][d] = Within[NumNodes - 1][node][d]

\* The vector of every node on the way of a message has an entry for the
\* destination, although it may have grown in the search only, and only as
\* far as the vectors of the nodes that were visited.
EntryExists ==
  stage = "forward" => cur_id <= size /\ destination <= len[cur_id]

\* The search ends after every change of a link, with edges of cost zero
\* too: the climb never runs in a circle of ancestors.
SearchEnds == stage = "routes" ~> stage = "messages"

\* The link state program implements the abstract routing program.
Abstract == INSTANCE Routing WITH
  ready <- Stable, table <- Announced, at <- At

Implements == Abstract!Spec
==================================================================================
