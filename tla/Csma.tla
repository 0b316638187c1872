--------------------------------- MODULE Csma ---------------------------------
(***************************************************************************)
(* mp4: the simulation of a CSMA channel (csma.cpp).  A single program     *)
(* reads its input, then advances the time by one tick for an idle channel *)
(* or a collision and by a whole packet for a transmission, until max_time *)
(* is reached.                                                             *)
(*                                                                         *)
(* busy is a history variable: the ticks in which a packet is on the       *)
(* channel.  The rounding of the printed rate is left out.                 *)
(***************************************************************************)
EXTENDS Integers, Sequences, FiniteSets

CONSTANTS
  Nodes,       \* the values of the input: N,
  Lengths,     \* L,
  Ranges,      \* the lists R
  Times        \* and T

\* A range of zero divides by zero, and packets of length zero may stop time.
ASSUME InputAssumption ==
  /\ Nodes \subseteq Nat
  /\ Lengths \subseteq Nat \ {0}
  /\ Ranges \subseteq Seq(Nat \ {0}) \ {<< >>}
  /\ Times \subseteq Nat

VARIABLES
  n_nodes, l_pkt, Rs, max_time,
  nodes,            \* for each node its backoff, R and cnt_collision
  utilized_time, time_tick,
  busy

input == <<n_nodes, l_pkt, Rs, max_time>>
vars == <<input, nodes, utilized_time, time_tick, busy>>

Ids == 0..(n_nodes - 1)

max_collision == Len(Rs)

\* Mutants of Draw: the index of the range for the range, ...
DrawIndex(k, cnt, t) ==
  [backoff |-> (k + t) % Rs[cnt + 1], R |-> cnt, cnt_collision |-> cnt]

\* ... and a backoff that starts at one.
DrawFromOne(k, cnt, t) ==
  [backoff |-> 1 + ((k + t) % Rs[cnt + 1]), R |-> Rs[cnt + 1], cnt_collision |-> cnt]

\* Node k draws its backoff at time t, after cnt collisions.
Draw(k, cnt, t) ==
  [backoff |-> (k + t) % Rs[cnt + 1], R |-> Rs[cnt + 1], cnt_collision |-> cnt]

Init ==
  /\ n_nodes \in Nodes
  /\ l_pkt \in Lengths
  /\ Rs \in Ranges
  /\ max_time \in Times
  /\ nodes = [k \in Ids |-> Draw(k, 0, 0)]
  /\ utilized_time = 0
  /\ time_tick = 0
  /\ busy = {}

ready_nodes == {k \in Ids : nodes[k].backoff = 0}

-----------------------------------------------------------------------------
Idle ==
  /\ time_tick < max_time
  /\ ready_nodes = {}
  /\ nodes' = [k \in Ids |-> [nodes[k] EXCEPT !.backoff = @ - 1]]
  /\ time_tick' = time_tick + 1
  /\ UNCHANGED <<input, utilized_time, busy>>

\* The transmission ends at time_tick', which may be past max_time.
Transmit(k) ==
  /\ time_tick < max_time
  /\ ready_nodes = {k}
  /\ time_tick' = time_tick + l_pkt
  /\ utilized_time' = utilized_time + l_pkt
  /\ nodes' = [nodes EXCEPT ![k] = Draw(k, 0, time_tick')]
  /\ busy' = busy \cup time_tick..(time_tick' - 1)
  /\ UNCHANGED input

\* The collisions in a row select the range; from the last range the next is
\* the first one again.
AfterCollision(cnt) == IF cnt + 1 = max_collision THEN 0 ELSE cnt + 1

\* Mutants of Collide: the first of the colliding nodes does not draw again, ...
CollideFirstKeeps ==
  /\ time_tick < max_time
  /\ Cardinality(ready_nodes) > 1
  /\ time_tick' = time_tick + 1
  /\ nodes' = [k \in Ids |->
                 IF k \in ready_nodes /\ \E j \in ready_nodes : j < k
                 THEN Draw(k, AfterCollision(nodes[k].cnt_collision), time_tick')
                 ELSE nodes[k]]
  /\ UNCHANGED <<input, utilized_time, busy>>

\* ... and a collision takes no time.
CollideAtOnce ==
  /\ time_tick < max_time
  /\ Cardinality(ready_nodes) > 1
  /\ nodes' = [k \in Ids |->
                 IF k \in ready_nodes
                 THEN Draw(k, AfterCollision(nodes[k].cnt_collision), time_tick)
                 ELSE nodes[k]]
  /\ UNCHANGED <<input, utilized_time, time_tick, busy>>

Collide ==
  /\ time_tick < max_time
  /\ Cardinality(ready_nodes) > 1
  /\ time_tick' = time_tick + 1
  /\ nodes' = [k \in Ids |->
                 IF k \in ready_nodes
                 THEN Draw(k, AfterCollision(nodes[k].cnt_collision), time_tick')
                 ELSE nodes[k]]
  /\ UNCHANGED <<input, utilized_time, busy>>

Next ==
  \/ Idle
  \/ \E k \in Ids : Transmit(k)
  \/ Collide

Spec == Init /\ [][Next]_vars /\ WF_vars(Next)

Done == time_tick >= max_time

\* Mutant of Utilized: the part of the last packet past max_time counts too.
UtilizedWhole == utilized_time

\* The numerator of utilization_rate, over max_time.
Utilized == utilized_time - (time_tick - max_time)

-----------------------------------------------------------------------------
\* The variables keep to their types.
TypeOK ==
  /\ n_nodes \in Nat
  /\ l_pkt \in Nat \ {0}
  /\ Rs \in Seq(Nat \ {0}) /\ Rs # << >>
  /\ max_time \in Nat
  /\ nodes \in [Ids -> [backoff : Int, R : Nat \ {0}, cnt_collision : Nat]]
  /\ utilized_time \in Nat
  /\ time_tick \in Nat
  /\ busy \subseteq Nat

\* Idle ticks, transmissions and collisions, in any order, leave each node
\* with a range of the list R that belongs to its collisions and a backoff
\* inside that range: no decrement passes zero, where a node that is never
\* ready again would be silent for ever, and no index leaves Rs.
BackoffInRange ==
  \A k \in Ids :
    /\ nodes[k].cnt_collision < max_collision
    /\ nodes[k].R = Rs[nodes[k].cnt_collision + 1]
    /\ nodes[k].backoff \in 0..(nodes[k].R - 1)

\* What the program divides by max_time is the number of ticks before
\* max_time in which a packet is on the channel, although time advances by
\* whole packets and the last of them may end past max_time.
UtilizationExact ==
  Done => Utilized = Cardinality({t \in busy : t < max_time})

\* Two nodes whose numbers agree modulo every range ...
Twins(j, k) == j # k /\ \A i \in 1..Len(Rs) : j % Rs[i] = k % Rs[i]

\* ... stay in lockstep for ever, whatever the other nodes do: the draw
\* (id + time) % R never separates them.
TwinsInLockstep ==
  \A j, k \in Ids : Twins(j, k) => nodes[j] = nodes[k]

\* Hence a node that has a twin never transmits.
TwinsNeverTransmit ==
  [][\A j, k \in Ids : Twins(j, k) => ~ Transmit(j)]_vars

\* The simulation reaches max_time.
Terminates == <>Done
=============================================================================
