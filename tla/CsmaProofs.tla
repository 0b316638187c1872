------------------------------ MODULE CsmaProofs ------------------------------
(***************************************************************************)
(* Proofs about Csma, for every number of nodes, length of packets, list   *)
(* of ranges and time.                                                     *)
(***************************************************************************)
EXTENDS Csma, FiniteSetTheorems, TLAPS

\* The remainder of a division is in range.
LEMMA Remainder ==
  ASSUME NEW n \in Int, NEW r \in Nat \ {0}
  PROVE  n \div r \in Int /\ n % r \in 0..(r - 1) /\ n = r * (n \div r) + (n % r)
<1>1. n \div r \in Int
  OBVIOUS
<1>2. n % r \in 0..(r - 1)
  OBVIOUS
<1>3. n = r * (n \div r) + (n % r)
  OBVIOUS
<1> QED
  BY <1>1, <1>2, <1>3

\* A multiple of r strictly between -r and r is a multiple by zero.
LEMMA SmallMultiple ==
  ASSUME NEW r \in Nat \ {0}, NEW m \in Int, -r < r * m, r * m < r
  PROVE  m = 0
<1>1. m >= 1 => r * m >= r
  OBVIOUS
<1>2. m <= -1 => r * m <= -r
  OBVIOUS
<1> QED
  BY <1>1, <1>2

\* Numbers that agree modulo r still do when the same time is added.
LEMMA SameRemainder ==
  ASSUME NEW j \in Nat, NEW k \in Nat, NEW t \in Nat, NEW r \in Nat \ {0}, j % r = k % r
  PROVE  (j + t) % r = (k + t) % r
<1> DEFINE a == j \div r
           b == k \div r
           c == (j + t) \div r
           d == (k + t) \div r
           e == (j + t) % r
           f == (k + t) % r
<1>1. /\ a \in Int /\ b \in Int /\ c \in Int /\ d \in Int
      /\ e \in 0..(r - 1) /\ f \in 0..(r - 1)
  BY Remainder
<1>2. j - k = r * a - r * b
  BY Remainder
<1>3. j + t = r * c + e /\ k + t = r * d + f
  BY Remainder
<1> HIDE DEF a, b, c, d, e, f
<1> DEFINE m == (a - b) - (c - d)
<1>4. e - f = r * m
  <2>1. r * m = (r * a - r * b) - (r * c - r * d)
    BY <1>1
  <2>2. r * a \in Int /\ r * b \in Int /\ r * c \in Int /\ r * d \in Int
    BY <1>1
  <2> HIDE DEF m
  <2> QED
    BY <1>1, <1>2, <1>3, <2>1, <2>2
<1>5. m \in Int /\ -r < e - f /\ e - f < r
  BY <1>1
<1> HIDE DEF m
<1>6. m = 0
  BY <1>4, <1>5, SmallMultiple
<1>7. e = f
  BY <1>1, <1>4, <1>6
<1> QED
  BY <1>7 DEF e, f

-----------------------------------------------------------------------------
(* The inductive invariant: the drawn backoffs, the clock, and what busy   *)
(* holds of the ticks so far.                                              *)

InputOK ==
  /\ n_nodes \in Nat
  /\ l_pkt \in Nat \ {0}
  /\ Rs \in Seq(Nat \ {0}) /\ Rs # << >>
  /\ max_time \in Nat

NodesOK ==
  /\ nodes \in [Ids -> [backoff : Int, R : Nat \ {0}, cnt_collision : Nat]]
  /\ BackoffInRange
  /\ TwinsInLockstep

ClockOK ==
  /\ utilized_time \in Nat
  /\ time_tick \in Nat
  /\ utilized_time <= time_tick
  /\ time_tick > max_time => utilized_time >= time_tick - max_time

BusyOK ==
  /\ busy \subseteq 0..(time_tick - 1)
  /\ Cardinality(busy) = utilized_time
  /\ \A t \in max_time..(time_tick - 1) : t \in busy

IInv == InputOK /\ NodesOK /\ ClockOK /\ BusyOK

\* A drawn backoff is in the range it is drawn from.
LEMMA DrawOK ==
  ASSUME InputOK, NEW k \in Ids, NEW cnt \in Nat, cnt < Len(Rs), NEW t \in Nat
  PROVE  /\ Draw(k, cnt, t) \in [backoff : Int, R : Nat \ {0}, cnt_collision : Nat]
         /\ Draw(k, cnt, t).cnt_collision = cnt
         /\ Draw(k, cnt, t).R = Rs[cnt + 1]
         /\ Draw(k, cnt, t).backoff \in 0..(Rs[cnt + 1] - 1)
<1>1. k \in Nat /\ Rs[cnt + 1] \in Nat \ {0}
  BY DEF InputOK, Ids
<1>2. (k + t) % Rs[cnt + 1] \in 0..(Rs[cnt + 1] - 1)
  <2>1. \A n \in Int, r \in Nat \ {0} : n % r \in 0..(r - 1)
    BY Remainder
  <2>2. k + t \in Int
    BY <1>1
  <2> QED
    BY <1>1, <2>1, <2>2
<1> QED
  BY <1>1, <1>2 DEF Draw

\* Twins draw the same backoff at the same time.
LEMMA TwinsDraw ==
  ASSUME InputOK, NEW j \in Ids, NEW k \in Ids, Twins(j, k),
         NEW cnt \in Nat, cnt < Len(Rs), NEW t \in Nat
  PROVE  Draw(j, cnt, t) = Draw(k, cnt, t)
<1>1. j \in Nat /\ k \in Nat /\ Rs[cnt + 1] \in Nat \ {0}
  BY DEF InputOK, Ids
<1>2. j % Rs[cnt + 1] = k % Rs[cnt + 1]
  <2>1. cnt + 1 \in 1..Len(Rs)
    BY DEF InputOK
  <2> QED
    BY <2>1 DEF Twins
<1>3. (j + t) % Rs[cnt + 1] = (k + t) % Rs[cnt + 1]
  BY <1>1, <1>2, SameRemainder
<1> QED
  BY <1>3 DEF Draw

\* The list of ranges has a positive length.
LEMMA RangesExist ==
  InputOK => Len(Rs) \in Nat \ {0}
BY DEF InputOK

\* The initial states satisfy the invariant.
LEMMA InitInv ==
  Init => IInv
<1>a. SUFFICES ASSUME Init
               PROVE  IInv
  OBVIOUS
<1>1. InputOK
  BY <1>a, InputAssumption DEF Init, InputOK
<1>2. nodes = [k \in Ids |-> Draw(k, 0, 0)] /\ 0 < Len(Rs)
  BY <1>a, <1>1, RangesExist DEF Init
<1>3. /\ nodes \in [Ids -> [backoff : Int, R : Nat \ {0}, cnt_collision : Nat]]
      /\ BackoffInRange
  BY <1>1, <1>2, DrawOK DEF BackoffInRange, max_collision
<1>4. TwinsInLockstep
  BY <1>1, <1>2, TwinsDraw DEF TwinsInLockstep
<1>5. ClockOK
  BY <1>a, <1>1 DEF Init, ClockOK, InputOK
<1>6. BusyOK
  BY <1>a, <1>1, FS_EmptySet DEF Init, BusyOK, InputOK
<1> QED
  BY <1>1, <1>3, <1>4, <1>5, <1>6 DEF IInv, NodesOK

\* An idle tick keeps the invariant.
LEMMA IdleStep ==
  IInv /\ Idle => IInv'
<1>a. SUFFICES ASSUME IInv, Idle
               PROVE  IInv'
  OBVIOUS
<1>1. /\ UNCHANGED <<n_nodes, l_pkt, Rs, max_time, utilized_time, busy>>
      /\ time_tick' = time_tick + 1 /\ time_tick < max_time
      /\ nodes' = [k \in Ids |-> [nodes[k] EXCEPT !.backoff = @ - 1]]
      /\ ready_nodes = {}
  BY <1>a DEF Idle, input
<1>2. InputOK' /\ Ids' = Ids /\ max_collision' = max_collision
  BY <1>a, <1>1 DEF IInv, InputOK, Ids, max_collision
<1>3. \A k \in Ids :
        /\ nodes[k] \in [backoff : Int, R : Nat \ {0}, cnt_collision : Nat]
        /\ nodes[k].cnt_collision < max_collision
        /\ nodes[k].R = Rs[nodes[k].cnt_collision + 1]
        /\ nodes[k].backoff \in 0..(nodes[k].R - 1)
        /\ nodes[k].backoff # 0
  BY <1>a, <1>1 DEF IInv, NodesOK, BackoffInRange, ready_nodes
<1>4. \A k \in Ids :
        /\ nodes'[k] \in [backoff : Int, R : Nat \ {0}, cnt_collision : Nat]
        /\ nodes'[k].cnt_collision = nodes[k].cnt_collision
        /\ nodes'[k].R = nodes[k].R
        /\ nodes'[k].backoff = nodes[k].backoff - 1
  BY <1>1, <1>3
<1>5. /\ nodes' \in [Ids -> [backoff : Int, R : Nat \ {0}, cnt_collision : Nat]]
      /\ BackoffInRange'
  BY <1>1, <1>2, <1>3, <1>4 DEF BackoffInRange
<1>6. TwinsInLockstep'
  BY <1>a, <1>1, <1>2, SMTT(30) DEF IInv, NodesOK, TwinsInLockstep, Twins
<1>7. ClockOK'
  BY <1>a, <1>1 DEF IInv, InputOK, ClockOK
<1>8. BusyOK'
  BY <1>a, <1>1 DEF IInv, InputOK, ClockOK, BusyOK
<1> QED
  BY <1>2, <1>5, <1>6, <1>7, <1>8 DEF IInv, NodesOK

\* A transmission keeps the invariant.
LEMMA TransmitStep ==
  ASSUME NEW k \in Ids
  PROVE  IInv /\ Transmit(k) => IInv'
<1>a. SUFFICES ASSUME IInv, Transmit(k)
               PROVE  IInv'
  OBVIOUS
<1>1. /\ UNCHANGED <<n_nodes, l_pkt, Rs, max_time>>
      /\ time_tick' = time_tick + l_pkt /\ time_tick < max_time
      /\ utilized_time' = utilized_time + l_pkt
      /\ nodes' = [nodes EXCEPT ![k] = Draw(k, 0, time_tick')]
      /\ busy' = busy \cup time_tick..(time_tick' - 1)
      /\ ready_nodes = {k}
  BY <1>a DEF Transmit, input
<1>2. InputOK' /\ Ids' = Ids /\ max_collision' = max_collision
  BY <1>a, <1>1 DEF IInv, InputOK, Ids, max_collision
<1>3. ClockOK'
  BY <1>a, <1>1 DEF IInv, InputOK, ClockOK
<1>4. /\ InputOK /\ 0 < Len(Rs) /\ time_tick' \in Nat
      /\ nodes \in [Ids -> [backoff : Int, R : Nat \ {0}, cnt_collision : Nat]]
  BY <1>3, <1>a, RangesExist DEF IInv, NodesOK, ClockOK
<1>5. /\ nodes'[k] \in [backoff : Int, R : Nat \ {0}, cnt_collision : Nat]
      /\ nodes'[k].cnt_collision = 0
      /\ nodes'[k].R = Rs[1]
      /\ nodes'[k].backoff \in 0..(Rs[1] - 1)
  BY <1>1, <1>4, DrawOK
<1>6. \A j \in Ids : j # k => nodes'[j] = nodes[j]
  BY <1>1, <1>4
<1>7. nodes' \in [Ids -> [backoff : Int, R : Nat \ {0}, cnt_collision : Nat]]
  BY <1>1, <1>4, <1>5
<1>8. BackoffInRange'
  <2>1. ASSUME NEW j \in Ids
        PROVE  /\ nodes'[j].cnt_collision < max_collision
               /\ nodes'[j].R = Rs[nodes'[j].cnt_collision + 1]
               /\ nodes'[j].backoff \in 0..(nodes'[j].R - 1)
    <3>1. CASE j = k
      BY <1>4, <1>5, <3>1 DEF max_collision
    <3>2. CASE j # k
      BY <1>6, <1>a, <3>2 DEF IInv, NodesOK, BackoffInRange
    <3> QED
      BY <3>1, <3>2
  <2> QED
    BY <1>1, <1>2, <2>1 DEF BackoffInRange
<1>9. \A j \in Ids : ~ Twins(j, k) /\ ~ Twins(k, j)
  <2>1. ASSUME NEW j \in Ids, Twins(j, k) \/ Twins(k, j)
        PROVE  FALSE
    <3>1. nodes[j] = nodes[k] /\ j # k
      BY <1>a, <2>1 DEF IInv, NodesOK, TwinsInLockstep, Twins
    <3> QED
      BY <1>1, <3>1 DEF ready_nodes
  <2> QED
    BY <2>1
<1>10. TwinsInLockstep'
  <2>1. ASSUME NEW i \in Ids, NEW j \in Ids, Twins(i, j)
        PROVE  nodes'[i] = nodes'[j]
    <3>1. i # k /\ j # k /\ nodes[i] = nodes[j]
      BY <1>9, <1>a, <2>1 DEF IInv, NodesOK, TwinsInLockstep
    <3> QED
      BY <1>6, <3>1
  <2> QED
    BY <1>1, <1>2, <2>1 DEF TwinsInLockstep, Twins
<1>11. BusyOK'
  <2> DEFINE new == time_tick..(time_tick' - 1)
  <2>1. /\ time_tick \in Nat /\ l_pkt \in Nat \ {0} /\ utilized_time \in Nat
        /\ max_time \in Nat
        /\ busy \subseteq 0..(time_tick - 1) /\ Cardinality(busy) = utilized_time
    BY <1>a DEF IInv, InputOK, ClockOK, BusyOK
  <2>2. IsFiniteSet(busy)
    <3>1. time_tick - 1 \in Int /\ 0 \in Int
      BY <2>1
    <3>2. IsFiniteSet(0..(time_tick - 1))
      BY <3>1, FS_Interval
    <3> QED
      BY <2>1, <3>2, FS_Subset
  <2>3. IsFiniteSet(new) /\ Cardinality(new) = l_pkt
    BY <1>1, <2>1, FS_Interval
  <2>4. busy \cap new = {}
    BY <2>1
  <2>5. Cardinality(busy') = utilized_time'
    <3> HIDE DEF new
    <3>1. Cardinality(busy \cup new) = Cardinality(busy) + Cardinality(new) - Cardinality({})
      BY <2>2, <2>3, <2>4, FS_Union
    <3>2. Cardinality(busy') = Cardinality(busy \cup new)
      BY <1>1 DEF new
    <3>3. Cardinality(busy \cup new) = utilized_time + l_pkt
      BY <2>1, <2>3, <3>1, FS_EmptySet
    <3> QED
      BY <1>1, <3>2, <3>3
  <2>6. busy' \subseteq 0..(time_tick' - 1)
    BY <1>1, <2>1
  <2>7. \A t \in max_time'..(time_tick' - 1) : t \in busy'
    BY <1>1, <2>1
  <2> QED
    BY <2>5, <2>6, <2>7 DEF BusyOK
<1> QED
  BY <1>2, <1>3, <1>7, <1>8, <1>10, <1>11 DEF IInv, NodesOK

\* A collision keeps the invariant.
LEMMA CollideStep ==
  IInv /\ Collide => IInv'
<1>a. SUFFICES ASSUME IInv, Collide
               PROVE  IInv'
  OBVIOUS
<1>1. /\ UNCHANGED <<n_nodes, l_pkt, Rs, max_time, utilized_time, busy>>
      /\ time_tick' = time_tick + 1 /\ time_tick < max_time
      /\ nodes' = [k \in Ids |->
                     IF k \in ready_nodes
                     THEN Draw(k, AfterCollision(nodes[k].cnt_collision), time_tick')
                     ELSE nodes[k]]
  BY <1>a DEF Collide, input
<1>2. InputOK' /\ Ids' = Ids /\ max_collision' = max_collision
  BY <1>a, <1>1 DEF IInv, InputOK, Ids, max_collision
<1>3. /\ InputOK /\ 0 < Len(Rs) /\ Len(Rs) \in Nat /\ time_tick' \in Nat
      /\ nodes \in [Ids -> [backoff : Int, R : Nat \ {0}, cnt_collision : Nat]]
  BY <1>1, <1>a, RangesExist DEF IInv, NodesOK, ClockOK
<1>4. ASSUME NEW k \in Ids
      PROVE  /\ AfterCollision(nodes[k].cnt_collision) \in Nat
             /\ AfterCollision(nodes[k].cnt_collision) < Len(Rs)
  <2>1. nodes[k].cnt_collision \in Nat /\ nodes[k].cnt_collision < Len(Rs)
    BY <1>3, <1>a DEF IInv, NodesOK, BackoffInRange, max_collision
  <2> QED
    BY <1>3, <2>1 DEF AfterCollision, max_collision
<1>5. ASSUME NEW k \in Ids
      PROVE  /\ nodes'[k] \in [backoff : Int, R : Nat \ {0}, cnt_collision : Nat]
             /\ nodes'[k].cnt_collision < max_collision
             /\ nodes'[k].R = Rs[nodes'[k].cnt_collision + 1]
             /\ nodes'[k].backoff \in 0..(nodes'[k].R - 1)
  <2>1. CASE k \in ready_nodes
    <3>1. PICK cnt \in Nat : cnt = AfterCollision(nodes[k].cnt_collision) /\ cnt < Len(Rs)
      BY <1>4
    <3>2. PICK t \in Nat : t = time_tick'
      BY <1>3
    <3>3. nodes'[k] = Draw(k, cnt, t)
      BY <1>1, <2>1, <3>1, <3>2
    <3>4. /\ Draw(k, cnt, t) \in [backoff : Int, R : Nat \ {0}, cnt_collision : Nat]
          /\ Draw(k, cnt, t).cnt_collision = cnt
          /\ Draw(k, cnt, t).R = Rs[cnt + 1]
          /\ Draw(k, cnt, t).backoff \in 0..(Rs[cnt + 1] - 1)
      <4>1. InputOK /\ cnt \in Nat /\ cnt < Len(Rs)
        BY <1>3, <3>1
      <4> QED
        BY <4>1, DrawOK
    <3> QED
      BY <3>1, <3>3, <3>4 DEF max_collision
  <2>2. CASE k \notin ready_nodes
    <3>1. nodes'[k] = nodes[k]
      BY <1>1, <2>2
    <3> QED
      BY <1>3, <1>a, <3>1 DEF IInv, NodesOK, BackoffInRange
  <2> QED
    BY <2>1, <2>2
<1>6. nodes' \in [Ids -> [backoff : Int, R : Nat \ {0}, cnt_collision : Nat]]
  BY <1>1, <1>5
<1>7. BackoffInRange'
  BY <1>1, <1>2, <1>5 DEF BackoffInRange
<1>8. TwinsInLockstep'
  <2>1. ASSUME NEW i \in Ids, NEW j \in Ids, Twins(i, j)
        PROVE  nodes'[i] = nodes'[j]
    <3>1. nodes[i] = nodes[j]
      BY <1>a, <2>1 DEF IInv, NodesOK, TwinsInLockstep
    <3>2. CASE i \in ready_nodes
      <4>1. j \in ready_nodes
        BY <3>1, <3>2 DEF ready_nodes
      <4> DEFINE cnt == AfterCollision(nodes[i].cnt_collision)
      <4>2. nodes'[i] = Draw(i, cnt, time_tick') /\ nodes'[j] = Draw(j, cnt, time_tick')
        BY <1>1, <3>1, <3>2, <4>1
      <4>3. cnt \in Nat /\ cnt < Len(Rs)
        BY <1>4
      <4> HIDE DEF cnt
      <4> QED
        BY <1>3, <2>1, <4>2, <4>3, TwinsDraw
    <3>3. CASE i \notin ready_nodes
      <4>1. j \notin ready_nodes
        BY <3>1, <3>3 DEF ready_nodes
      <4> QED
        BY <1>1, <3>1, <3>3, <4>1
    <3> QED
      BY <3>2, <3>3
  <2> QED
    BY <1>1, <1>2, <2>1 DEF TwinsInLockstep, Twins
<1>9. ClockOK'
  BY <1>a, <1>1 DEF IInv, InputOK, ClockOK
<1>10. BusyOK'
  BY <1>a, <1>1 DEF IInv, InputOK, ClockOK, BusyOK
<1> QED
  BY <1>2, <1>6, <1>7, <1>8, <1>9, <1>10 DEF IInv, NodesOK

\* Every step keeps the invariant.
LEMMA NextStep ==
  IInv /\ [Next]_vars => IInv'
<1>1. IInv /\ UNCHANGED vars => IInv'
  <2> SUFFICES ASSUME IInv, UNCHANGED vars PROVE IInv'
    OBVIOUS
  <2>1. UNCHANGED <<n_nodes, l_pkt, Rs, max_time, nodes, utilized_time, time_tick, busy>>
    BY DEF vars, input
  <2>2. InputOK' /\ ClockOK' /\ BusyOK'
    BY <2>1 DEF IInv, InputOK, ClockOK, BusyOK
  <2>3. Ids' = Ids /\ max_collision' = max_collision
    BY <2>1 DEF Ids, max_collision
  <2>4. BackoffInRange'
    BY <2>1, <2>3 DEF IInv, NodesOK, BackoffInRange
  <2>5. TwinsInLockstep'
    BY <2>1, <2>3 DEF IInv, NodesOK, TwinsInLockstep, Twins
  <2>6. NodesOK'
    BY <2>1, <2>3, <2>4, <2>5 DEF IInv, NodesOK
  <2> QED
    BY <2>2, <2>6 DEF IInv
<1> QED
  BY <1>1, IdleStep, TransmitStep, CollideStep DEF Next

\* The inductive invariant holds of every execution.
THEOREM Invariant == Spec => []IInv
BY InitInv, NextStep, PTL DEF Spec

\* The variables of the simulation keep to their types for every input.
THEOREM TypeCorrectness == Spec => []TypeOK
<1>1. IInv => TypeOK
  <2> SUFFICES ASSUME IInv PROVE TypeOK
    OBVIOUS
  <2>1. busy \subseteq Nat
    BY DEF IInv, ClockOK, BusyOK
  <2> QED
    BY <2>1 DEF IInv, InputOK, NodesOK, ClockOK, TypeOK
<1> QED
  BY <1>1, Invariant, PTL

\* Every node keeps a backoff inside the range its collisions select.
THEOREM BackoffStaysInRange == Spec => []BackoffInRange
<1>1. IInv => BackoffInRange
  BY DEF IInv, NodesOK
<1> QED
  BY <1>1, Invariant, PTL

\* Two nodes with congruent numbers never part, for every list of ranges.
THEOREM TwinsStayInLockstep == Spec => []TwinsInLockstep
<1>1. IInv => TwinsInLockstep
  BY DEF IInv, NodesOK
<1> QED
  BY <1>1, Invariant, PTL

\* So neither of them ever transmits.
THEOREM TwinsStarve == Spec => TwinsNeverTransmit
<1>1. IInv => \A j, k \in Ids : Twins(j, k) => ready_nodes # {j}
  <2>1. SUFFICES ASSUME IInv, NEW j \in Ids, NEW k \in Ids, Twins(j, k), ready_nodes = {j}
                 PROVE  FALSE
    OBVIOUS
  <2>2. nodes[j] = nodes[k] /\ j # k
    BY <2>1 DEF IInv, NodesOK, TwinsInLockstep, Twins
  <2> QED
    BY <2>1, <2>2 DEF ready_nodes
<1>2. IInv => [\A j, k \in Ids : Twins(j, k) => ~ Transmit(j)]_vars
  BY <1>1 DEF Transmit
<1> QED
  BY <1>2, Invariant, PTL DEF TwinsNeverTransmit

\* The numerator of the rate counts the busy ticks before max_time, for a
\* packet of any length that ends past max_time.
THEOREM UtilizationIsExact == Spec => []UtilizationExact
<1>1. IInv => UtilizationExact
  <2>1. SUFFICES ASSUME IInv, Done
                 PROVE  Utilized = Cardinality({t \in busy : t < max_time})
    BY DEF UtilizationExact
  <2> DEFINE early == {t \in busy : t < max_time}
             late == max_time..(time_tick - 1)
  <2>2. /\ max_time \in Nat /\ time_tick \in Nat /\ max_time <= time_tick
        /\ utilized_time \in Nat
        /\ busy \subseteq 0..(time_tick - 1) /\ Cardinality(busy) = utilized_time
        /\ \A t \in max_time..(time_tick - 1) : t \in busy
    BY <2>1 DEF IInv, InputOK, ClockOK, BusyOK, Done
  <2>3. IsFiniteSet(busy)
    <3>1. time_tick - 1 \in Int /\ 0 \in Int
      BY <2>2
    <3>2. IsFiniteSet(0..(time_tick - 1))
      BY <3>1, FS_Interval
    <3> QED
      BY <2>2, <3>2, FS_Subset
  <2>4. IsFiniteSet(early) /\ Cardinality(early) \in Nat
    <3>1. early \in SUBSET busy
      OBVIOUS
    <3> HIDE DEF early
    <3>2. IsFiniteSet(early)
      BY <2>3, <3>1, FS_Subset
    <3> QED
      BY <3>2, FS_CardinalityType
  <2>5. IsFiniteSet(late) /\ Cardinality(late) = time_tick - max_time
    <3>1. time_tick - 1 \in Int /\ max_time \in Int
      BY <2>2
    <3>2. /\ IsFiniteSet(late)
          /\ Cardinality(late) =
               IF max_time > time_tick - 1 THEN 0 ELSE time_tick - 1 - max_time + 1
      BY <3>1, FS_Interval
    <3> QED
      BY <2>2, <3>2
  <2>6. busy = early \cup late /\ early \cap late = {}
    <3>1. ASSUME NEW t \in busy
          PROVE  t \in early \/ t \in late
      BY <2>2
    <3>2. \A t \in early : t \in busy /\ t \notin late
      BY <2>2
    <3>3. \A t \in late : t \in busy
      BY <2>2
    <3> HIDE DEF early, late
    <3> QED
      BY <3>1, <3>2, <3>3
  <2> HIDE DEF early, late
  <2>7. Cardinality(busy) = Cardinality(early) + Cardinality(late) - Cardinality({})
    BY <2>4, <2>5, <2>6, FS_Union
  <2>8. utilized_time = Cardinality(early) + (time_tick - max_time)
    BY <2>2, <2>4, <2>5, <2>7, FS_EmptySet
  <2>9. Utilized = Cardinality(early)
    BY <2>2, <2>4, <2>8 DEF Utilized
  <2> QED
    BY <2>9 DEF early
<1> QED
  BY <1>1, Invariant, PTL
=============================================================================
