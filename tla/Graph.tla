--------------------------------- MODULE Graph ---------------------------------
(***************************************************************************)
(* class Graph and class Node of mp3 (graph.h), as far as the distance     *)
(* vector and the link state program share them: the links, the routes,    *)
(* the changes of links and the forwarding of messages.                    *)
(*                                                                         *)
(* A node's node_vector is row i of the matrices edge, dist and nexthop:   *)
(* edge_cost, distance_cost and nexthop_id of its entries.  The input      *)
(* files name distinct nodes of 1..NumNodes and costs below INF; NON_EDGE  *)
(* is the cost INF, which is what set_edge stores for it.  An entry that   *)
(* no line has named has that cost too, and the next hop 0.                *)
(***************************************************************************)
EXTENDS Integers, Sequences

CONSTANTS
  NumNodes,    \* nodes of the topology file
  INF,         \* LARGEST_MAGIC_NUMBER: no edge, no route
  Costs,       \* costs in the topology and changes files
  Messages,    \* the message file: pairs of a source and a destination
  MaxChanges   \* bound on the lines of the changes file

ASSUME GraphAssumption ==
  /\ NumNodes \in Nat \ {0}
  /\ INF \in Nat \ {0}
  /\ Costs \subseteq 0..(INF - 1)
  /\ Messages \in Seq((Nat \ {0}) \X (Nat \ {0}))
  /\ MaxChanges \in Nat

Node == 1..NumNodes

LinkCosts == Costs \cup {INF}

VARIABLES
  edge, dist, nexthop,
  stage,       \* what the program does: "routes", "messages", "forward", "Finished"
  msg,         \* index of the message line it reads or forwards
  cur_id,      \* the node that message has reached
  walked,      \* history: cost of the edges it has passed
  changes      \* lines read from the changes file

routes == <<edge, dist, nexthop>>
forwarding == <<msg, cur_id, walked>>

Links == {l \in SUBSET Node : \E i, j \in Node : i # j /\ l = {i, j}}

-----------------------------------------------------------------------------
\* Node::set_edge on both ends of a link.
Both(matrix, i, j, value) ==
  [matrix EXCEPT ![i] = [@ EXCEPT ![j] = value], ![j] = [@ EXCEPT ![i] = value]]

\* The next hop of an entry is the other end of its link, 0 if no line names one.
Direct(named) ==
  [i \in Node |-> [j \in Node |-> IF i = j \/ {i, j} \in named THEN j ELSE 0]]

\* parseFile.
GraphInit ==
  /\ \E named \in SUBSET Links : \E cost \in [named -> LinkCosts] :
       /\ edge = [i \in Node |-> [j \in Node |->
                    IF i = j THEN 0 ELSE IF {i, j} \in named THEN cost[{i, j}] ELSE INF]]
       /\ nexthop = Direct(named)
  /\ dist = edge
  /\ stage = "routes"
  /\ msg = 1
  /\ cur_id = 1
  /\ walked = 0
  /\ changes = 0

\* The topology file has named a link of node i.
IsNamed(i) == \E j \in Node \ {i} : nexthop[i][j] # 0

\* Mutant of clear_Vectors: only the changed link is set anew.
KeepVectors(entries) == <<dist, nexthop>>

\* clear_Vectors: every route is the edge again, and its next hop the other
\* end, be there an edge or not; the own entry is left alone.  The vectors
\* have these entries: an entry <<i, j>> that is not there yet is as it will
\* be created.
clear_Vectors(entries) ==
  << [i \in Node |-> [j \in Node |-> IF i = j THEN dist[i][j] ELSE edge[i][j]]],
     [i \in Node |-> [j \in Node |->
        IF i = j \/ <<i, j>> \notin entries THEN nexthop[i][j] ELSE j]] >>

\* A line of the changes file.
parseLineChange(i, j, cost, entries) ==
  /\ edge' = Both(edge, i, j, cost)
  /\ dist' = Both(clear_Vectors(entries)[1], i, j, cost)
  /\ nexthop' = [clear_Vectors(entries)[2] EXCEPT ![i] = [@ EXCEPT ![j] = j],
                                                  ![j] = [@ EXCEPT ![i] = i]]

-----------------------------------------------------------------------------
\* output_message.
source == Messages[msg][1]
destination == Messages[msg][2]

Reachable ==
  /\ source <= NumNodes
  /\ destination <= NumNodes
  /\ dist[source][destination] # INF

Unreachable ==
  /\ stage = "messages"
  /\ msg <= Len(Messages)
  /\ ~ Reachable
  /\ msg' = msg + 1
  /\ UNCHANGED <<routes, stage, cur_id, walked, changes>>

ReadMessage ==
  /\ stage = "messages"
  /\ msg <= Len(Messages)
  /\ Reachable
  /\ cur_id' = source
  /\ walked' = 0
  /\ stage' = "forward"
  /\ UNCHANGED <<routes, msg, changes>>

Hop ==
  /\ stage = "forward"
  /\ cur_id # destination
  /\ cur_id' = nexthop[cur_id][destination]
  /\ walked' = walked + edge[cur_id][cur_id']
  /\ UNCHANGED <<routes, stage, msg, changes>>

Arrive ==
  /\ stage = "forward"
  /\ cur_id = destination
  /\ msg' = msg + 1
  /\ stage' = "messages"
  /\ UNCHANGED <<routes, cur_id, walked, changes>>

\* The messages are read; is there another line of changes?
ChangeLink(i, j, cost, entries) ==
  /\ stage = "messages"
  /\ msg > Len(Messages)
  /\ changes < MaxChanges
  /\ changes' = changes + 1
  /\ parseLineChange(i, j, cost, entries)
  /\ msg' = 1
  /\ stage' = "routes"
  /\ UNCHANGED <<cur_id, walked>>

Change ==
  \E i, j \in Node, cost \in LinkCosts : i # j /\ ChangeLink(i, j, cost, Node \X Node)

Finish ==
  /\ stage = "messages"
  /\ msg > Len(Messages)
  /\ stage' = "Finished"
  /\ UNCHANGED <<routes, forwarding, changes>>

Output == Unreachable \/ ReadMessage \/ Hop \/ Arrive \/ Finish

-----------------------------------------------------------------------------
Stable == stage # "routes"

\* What Routing sees: the tables once they are written, and a message on its way.
Announced == IF Stable THEN dist ELSE << >>

At == IF stage = "forward" THEN cur_id ELSE 0

\* p estimates the cost to d from below: no edge lets it fall by more than
\* the edge costs.  The cost of the shortest paths, cut off at INF, is the
\* largest such estimate.
Estimate(p, d) ==
  /\ p[d] = 0
  /\ \A i, n \in Node : edge[i][n] < INF => p[i] <= edge[i][n] + p[n]

\* No distance, not even one from the middle of a round or from just after a
\* link has become longer, is below the shortest path: bad news never leaves
\* a route to count from behind.
NeverTooShort ==
  \A d \in Node : \A p \in [Node -> 0..INF] :
    Estimate(p, d) => \A i \in Node : p[i] <= dist[i][d]

\* When the program writes its tables every distance is itself an estimate
\* from below, hence with NeverTooShort the cost of the shortest path:
\* the order of the updates, or the last of the better neighbors in the place
\* of the best, may cost time but not correctness.
RoutesConverged ==
  Stable => \A d \in Node : Estimate([i \in Node |-> dist[i][d]], d)

-----------------------------------------------------------------------------
\* The cost of the cheapest walk of at most k edges from i to d is Within[k][i][d],
\* with edges of cost INF as walls.
Cheapest(S) == CHOOSE c \in S : \A b \in S : c <= b

NoEdges == [i \in Node |-> [d \in Node |-> IF i = d THEN 0 ELSE INF]]

OneEdgeMore(w) ==
  [i \in Node |-> [d \in Node |->
     Cheapest({w[i][d]} \cup {edge[i][n] + w[n][d] : n \in {m \in Node : edge[i][m] < INF}})]]

Within[k \in Nat] == IF k = 0 THEN NoEdges ELSE OneEdgeMore(Within[k - 1])

\* The distances the program writes are the costs of the shortest paths, by
\* the textbook definition; INF stands for a cost of INF or more as well.
ShortestPaths ==
  Stable => \A i, d \in Node : dist[i][d] = Within[NumNodes - 1][i][d]

\* A message passes edges only, and at every node the cost of the path so far
\* and the node's own distance make up the cost that was written for it.
CostOfPath ==
  stage = "forward" =>
    walked + dist[cur_id][destination] = dist[source][destination]

\* The program ends: the search for routes comes to an end after every change
\* of a link, and every message reaches its destination (with edges that cost
\* something).
Terminates == <>(stage = "Finished")
==============================================================================
