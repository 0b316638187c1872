-------------------------------- MODULE Routing --------------------------------
(***************************************************************************)
(* What both routing programs of mp3 promise: the tables they announce are *)
(* those of the shortest paths over the links of the moment, and a message *)
(* goes to its destination along one of them.  How the tables are found is *)
(* left open, and so are they while a program works on them.               *)
(***************************************************************************)
EXTENDS Integers, Sequences

CONSTANTS NumNodes, INF, Messages

VARIABLES
  edge,     \* cost of the link of each pair of nodes, INF if there is none
  size,     \* the nodes are 1..size
  ready,    \* whether the tables are announced
  table,    \* the distances announced
  msg,      \* index of the current message
  at        \* the node it has reached, 0 before it is accepted

vars == <<edge, size, ready, table, msg, at>>

Node == 1..NumNodes

\* p is nowhere above the cost of the paths to d.
Estimate(p, d) ==
  /\ p[d] = 0
  /\ \A i, n \in Node : edge[i][n] < INF => p[i] <= edge[i][n] + p[n]

\* t has the cost of the shortest paths: the largest such estimate.
Shortest(t) ==
  \A d \in Node :
    /\ Estimate([i \in Node |-> t[i][d]], d)
    /\ \A p \in [Node -> 0..INF] :
         Estimate(p, d) => \A i \in Node : p[i] <= t[i][d]

from == Messages[msg][1]
to == Messages[msg][2]

Init ==
  /\ edge \in [Node -> [Node -> 0..INF]]
  /\ \A i, j \in Node : edge[i][j] = edge[j][i]
  /\ size \in 0..NumNodes
  /\ ready = FALSE
  /\ msg = 1
  /\ at = 0

Announce ==
  /\ ~ ready
  /\ ready' = TRUE
  /\ Shortest(table')
  /\ UNCHANGED <<edge, size, msg, at>>

-----------------------------------------------------------------------------
NextMessage ==
  /\ ready
  /\ at = 0
  /\ msg <= Len(Messages)

HasRoute ==
  /\ from <= size
  /\ to <= size
  /\ table[from][to] # INF

Refuse ==
  /\ NextMessage
  /\ ~ HasRoute
  /\ msg' = msg + 1
  /\ UNCHANGED <<edge, size, ready, table, at>>

Accept ==
  /\ NextMessage
  /\ HasRoute
  /\ at' = from
  /\ UNCHANGED <<edge, size, ready, table, msg>>

\* Along an edge of a shortest path.
Hop ==
  /\ at # 0
  /\ at # to
  /\ at' \in Node
  /\ edge[at][at'] < INF
  /\ table[at][to] = edge[at][at'] + table[at'][to]
  /\ UNCHANGED <<edge, size, ready, table, msg>>

Deliver ==
  /\ at # 0
  /\ at = to
  /\ at' = 0
  /\ msg' = msg + 1
  /\ UNCHANGED <<edge, size, ready, table>>

\* Once all messages are delivered one link may change; the messages are
\* sent again over the new routes.
Change ==
  /\ ready
  /\ at = 0
  /\ msg > Len(Messages)
  /\ \E i, j \in Node, cost \in 0..INF :
       /\ i # j
       /\ edge' = [edge EXCEPT ![i] = [@ EXCEPT ![j] = cost],
                               ![j] = [@ EXCEPT ![i] = cost]]
  /\ size' \in size..NumNodes
  /\ ready' = FALSE
  /\ msg' = 1
  /\ UNCHANGED at

Next == Announce \/ Refuse \/ Accept \/ Hop \/ Deliver \/ Change

Spec == Init /\ [][Next]_vars
================================================================================
