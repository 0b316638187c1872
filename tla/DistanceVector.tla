----------------------------- MODULE DistanceVector -----------------------------
(***************************************************************************)
(* The distance vector program of mp3: output_DV and Node::set_vector_DV.  *)
(*                                                                         *)
(* The nodes are updated one after the other, in place, in rounds, until a *)
(* round changes nothing.  An update of a node's route to a destination    *)
(* compares the route by every neighbor with the route from before the     *)
(* update, and not with the best one so far: of the neighbors that improve *)
(* on the old route, the last one is taken, and a later round has to find  *)
(* the best one.                                                           *)
(***************************************************************************)
EXTENDS Graph

VARIABLES
  node,         \* the node that is updated next
  change_flag   \* whether this round has changed a route

vars == <<routes, stage, forwarding, changes, node, change_flag>>

\* parseFile has created the nodes up to the last one that is named.
Init ==
  /\ GraphInit
  /\ IsNamed(NumNodes)
  /\ node = 1
  /\ change_flag = FALSE

-----------------------------------------------------------------------------
\* Mutant of Neighbors: an edge of cost zero passes for none.
NeighborsAtCost(i) == {n \in Node : n # i /\ 0 < edge[i][n] /\ edge[i][n] < INF}

Neighbors(i) == {n \in Node : n # i /\ edge[i][n] < INF}

new_dist(i, n, d) == edge[i][n] + dist[n][d]

\* Mutant of Better: ties go to the first neighbor whatever its number.
BetterOrEqual(i, d) ==
  {n \in Neighbors(i) :
     /\ new_dist(i, n, d) < INF
     /\ new_dist(i, n, d) <= dist[i][d]}

\* Mutant of Better: ties are left as they are.
StrictlyBetter(i, d) ==
  {n \in Neighbors(i) :
     /\ new_dist(i, n, d) < INF
     /\ new_dist(i, n, d) < dist[i][d]}

\* The neighbors of i that improve on its route to d.
Better(i, d) ==
  {n \in Neighbors(i) :
     /\ new_dist(i, n, d) < INF
     /\ \/ new_dist(i, n, d) < dist[i][d]
        \/ new_dist(i, n, d) = dist[i][d] /\ n < nexthop[i][d]}

Last(S) == CHOOSE n \in S : \A m \in S : m <= n

Improves(i, d) == d # i /\ Better(i, d) # {}

\* Mutants of set_vector_DV: the next hop of the neighbor is copied, ...
CopyNextHop(i) ==
  /\ dist' = [dist EXCEPT ![i] = [d \in Node |->
       IF Improves(i, d) THEN new_dist(i, Last(Better(i, d)), d) ELSE dist[i][d]]]
  /\ nexthop' = [nexthop EXCEPT ![i] = [d \in Node |->
       IF Improves(i, d) THEN nexthop[Last(Better(i, d))][d] ELSE nexthop[i][d]]]

\* ... and the next hop of a shorter route is left as it is.
KeepNextHop(i) ==
  /\ dist' = [dist EXCEPT ![i] = [d \in Node |->
       IF Improves(i, d) THEN new_dist(i, Last(Better(i, d)), d) ELSE dist[i][d]]]
  /\ UNCHANGED nexthop

set_vector_DV(i) ==
  /\ dist' = [dist EXCEPT ![i] = [d \in Node |->
       IF Improves(i, d) THEN new_dist(i, Last(Better(i, d)), d) ELSE dist[i][d]]]
  /\ nexthop' = [nexthop EXCEPT ![i] = [d \in Node |->
       IF Improves(i, d) THEN Last(Better(i, d)) ELSE nexthop[i][d]]]

Update ==
  /\ stage = "routes"
  /\ node <= NumNodes
  /\ set_vector_DV(node)
  /\ change_flag' = (change_flag \/ \E d \in Node : Improves(node, d))
  /\ node' = node + 1
  /\ UNCHANGED <<edge, stage, forwarding, changes>>

\* Mutant of EndRound: one round is enough.
EndOnlyRound ==
  /\ stage = "routes"
  /\ node > NumNodes
  /\ node' = 1
  /\ change_flag' = FALSE
  /\ stage' = "messages"
  /\ UNCHANGED <<routes, forwarding, changes>>

\* while(change_flag).
EndRound ==
  /\ stage = "routes"
  /\ node > NumNodes
  /\ node' = 1
  /\ change_flag' = FALSE
  /\ stage' = IF change_flag THEN "routes" ELSE "messages"
  /\ UNCHANGED <<routes, forwarding, changes>>

Next ==
  \/ Update
  \/ EndRound
  \/ (Output \/ Change) /\ UNCHANGED <<node, change_flag>>

Spec == Init /\ [][Next]_vars

\* The program is one thread that never blocks.
FairSpec == Spec /\ WF_vars(Next)

-----------------------------------------------------------------------------
\* The variables keep to their types: saturated sums never leave the tables,
\* and only an entry without a route lacks a next hop.
TypeOK ==
  /\ edge \in [Node -> [Node -> 0..INF]]
  /\ dist \in [Node -> [Node -> 0..INF]]
  /\ nexthop \in [Node -> [Node -> 0..NumNodes]]
  /\ \A i, d \in Node : nexthop[i][d] = 0 => dist[i][d] = INF
  /\ stage \in {"routes", "messages", "forward", "Finished"}
  /\ msg \in Nat \ {0}
  /\ cur_id \in Node
  /\ walked \in Nat
  /\ changes \in Nat
  /\ node \in 1..(NumNodes + 1)
  /\ change_flag \in BOOLEAN

-----------------------------------------------------------------------------
\* When the tables are written the next hop of every route is the neighbor with the smallest
\* number of those on a shortest path.
LowestNextHop ==
  Stable =>
    \A i, d \in Node :
      i # d /\ dist[i][d] < INF =>
        LET onShortest == {n \in Neighbors(i) : new_dist(i, n, d) = dist[i][d]}
        IN  /\ nexthop[i][d] \in onShortest
            /\ \A n \in onShortest : nexthop[i][d] <= n

\* The distance vector program implements the abstract routing program.
Abstract == INSTANCE Routing WITH
  size <- NumNodes, ready <- Stable, table <- Announced, at <- At

Implements == Abstract!Spec
================================================================================
