------------------------------ MODULE WindowProofs ------------------------------
(***************************************************************************)
(* Proofs about ReliableTransfer that need more than what is in flight:    *)
(* the send times in time_q, which go with the window, and the order of    *)
(* the datagrams on a path that keeps it.                                  *)
(***************************************************************************)
EXTENDS ReliableTransferProofs

\* While the sender sends, packets of its chunk are left; time_q covers those
\* in flight; and where it waits for an acknowledgement, or has just got the
\* third duplicate, its whole window is in flight.
QueueInv ==
  /\ sstate \in Sending \cup {"s_time_out", "s_before_fast_recovery"} => cw_head < ChunkLen
  /\ sstate \in Sending \cup {"s_before_fast_recovery"} =>
       time_q >= Smaller(next_pkt, ChunkLen) - cw_head
  /\ (sstate \in Sending /\ sphase = "recv") \/ sstate = "s_before_fast_recovery" =>
       next_pkt >= Smaller(cw_head + cw_width, ChunkLen)

-----------------------------------------------------------------------------
\* Where the sender stands.
LEMMA WindowTyped ==
  ASSUME IInv
  PROVE  /\ cw_head \in Nat /\ cw_width \in Nat \ {0} /\ next_pkt \in Nat /\ time_q \in Int
         /\ sstate \in SState
         /\ cw_head_offset \in Nat /\ file_offset \in Nat /\ head \in Nat
         /\ ~ SenderClosing => ChunkLen \in Nat \ {0}
BY Position DEF IInv, Typed, SenderTyped, BufferInv

\* A step that leaves the window alone and does not make the sender wait.
LEMMA QueueKept ==
  ASSUME QueueInv, UNCHANGED <<window, chunk>>,
         sstate' \in Sending => sstate \in Sending /\ sphase' \in {sphase, "run"},
         sstate' = "s_time_out" => sstate \in Sending \cup {"s_time_out"},
         sstate' = "s_before_fast_recovery" =>
           \/ sstate = "s_before_fast_recovery"
           \/ sstate \in Sending /\ sphase = "recv"
  PROVE  QueueInv'
<1>1. ChunkLen' = ChunkLen
  BY DEF ChunkLen, chunk
<1>2. UNCHANGED <<cw_head, cw_width, next_pkt, time_q>>
  BY DEF window
<1> QED
  BY <1>1, <1>2 DEF QueueInv, Sending

\* The loops that fill the window send no less than they take for sent, and
\* stop at its end or have passed it.
LEMMA FillKeepsQueue ==
  IInv /\ QueueInv /\ (FillWindow \/ FillWindowOnce) => QueueInv'
<1> SUFFICES ASSUME IInv, QueueInv, FillWindow \/ FillWindowOnce PROVE QueueInv'
  OBVIOUS
<1> DEFINE end == LoopEnd(next_pkt, cw_width)
<1>1. /\ sstate \in Sending /\ sstate' = sstate /\ sphase' = "recv"
      /\ next_pkt' = end /\ UNCHANGED <<cw_head, cw_width, chunk>>
  BY DEF FillWindow, FillWindowOnce, Sending
<1>2. ~ SenderClosing
  BY <1>1 DEF SenderClosing, Sending
<1>3. /\ cw_head \in Nat /\ cw_width \in Nat \ {0} /\ next_pkt \in Nat /\ time_q \in Int
      /\ ChunkLen \in Nat \ {0}
  BY <1>2, WindowTyped
<1>4. /\ end \in Nat /\ next_pkt <= end
      /\ end >= Smaller(cw_head + cw_width, ChunkLen)
  BY <1>3 DEF LoopEnd, Smaller
<1>5. time_q' \in Int /\ time_q' >= time_q + (end - next_pkt)
  <2>1. CASE FillWindow
    BY <1>3, <1>4, <2>1 DEF FillWindow, ExtraPushes
  <2>2. CASE FillWindowOnce
    BY <1>3, <1>4, <2>2 DEF FillWindowOnce
  <2> QED
    BY <2>1, <2>2
<1> HIDE DEF end
<1>6. cw_head < ChunkLen /\ time_q >= Smaller(next_pkt, ChunkLen) - cw_head
  BY <1>1 DEF QueueInv
<1>7. ChunkLen' = ChunkLen
  BY <1>1 DEF ChunkLen, chunk
<1>8. time_q' >= Smaller(next_pkt', ChunkLen) - cw_head
  BY <1>1, <1>3, <1>4, <1>5, <1>6 DEF Smaller
<1> QED
  BY <1>1, <1>4, <1>6, <1>7, <1>8 DEF QueueInv, Sending

\* An acknowledgement pops no more send times than it covers packets.
LEMMA AdvanceKeepsQueue ==
  ASSUME NEW m
  PROVE  IInv /\ QueueInv /\ AdvanceWindow(m) => QueueInv'
<1> SUFFICES ASSUME IInv, QueueInv, AdvanceWindow(m) PROVE QueueInv'
  OBVIOUS
<1> DEFINE step == NewAck(m) + 1 - cw_head
<1>1. /\ sstate \in Sending /\ SGets(m) /\ "ACK" \in m.flags /\ NewAck(m) > LastAcked
      /\ IF sstate = "s_slow_start"
         THEN time_q' = IF PopsTooMany(step) THEN 0 ELSE time_q - step
         ELSE step - time_q < DequeNode /\ time_q' = time_q - step
      /\ cw_head' = NewAck(m) + 1
      /\ IF NewAck(m) + 1 >= ChunkLen
         THEN Enter("s_check_next_chunk")
         ELSE \E after \in AfterAck(step) : Enter(after[1]) /\ cw_width' = after[2]
      /\ UNCHANGED <<next_pkt, chunk>>
  BY DEF AdvanceWindow, AwaitsAck
<1>2. ~ SenderClosing
  BY <1>1 DEF SenderClosing, Sending
<1>3. /\ cw_head \in Nat /\ cw_width \in Nat \ {0} /\ next_pkt \in Nat /\ time_q \in Int
      /\ ChunkLen \in Nat \ {0}
  BY <1>2, WindowTyped
<1>4. NewAck(m) \in Int /\ cw_head <= NewAck(m)
  <2>1. FromReceiver(m) /\ m \in Datagram
    BY <1>1, SenderReceives
  <2> HIDE DEF step
  <2>2. step = NewAck(m) + 1 - cw_head
    BY DEF step
  <2> QED
    BY <1>1, <2>1, <2>2, NewAckFact
<1>5. step \in Nat \ {0} /\ cw_head' = cw_head + step
  BY <1>1, <1>3, <1>4
<1> HIDE DEF step
<1>6. ChunkLen' = ChunkLen
  BY <1>1 DEF ChunkLen, chunk
<1>7. CASE cw_head' >= ChunkLen
  <2>1. sstate' = "s_check_next_chunk"
    BY <1>1, <1>7 DEF Enter
  <2> QED
    BY <2>1 DEF QueueInv, Sending
<1>8. CASE ~ (cw_head' >= ChunkLen)
  <2>1. sstate' \in {"s_slow_start", "s_congestion_avoidance"} /\ sphase' = "run"
    BY <1>1, <1>5, <1>8, AfterAckFact DEF Enter
  <2>2. time_q >= Smaller(next_pkt, ChunkLen) - cw_head
    BY <1>1 DEF QueueInv
  <2>3. time_q' \in Int /\ time_q' >= time_q - step
    BY <1>1, <1>3, <1>5 DEF PopsTooMany
  <2>4. time_q' >= Smaller(next_pkt, ChunkLen) - cw_head'
    BY <1>3, <1>5, <2>2, <2>3 DEF Smaller
  <2>5. cw_head' < ChunkLen
    BY <1>3, <1>5, <1>8
  <2> QED
    BY <1>1, <1>6, <2>1, <2>4, <2>5 DEF QueueInv, Sending
<1> QED
  BY <1>7, <1>8

\* The new window of s_before_fast_recovery starts where the old one ends, up
\* to which everything is in flight.
LEMMA RetransmitKeepsQueue ==
  IInv /\ QueueInv /\ Retransmit => QueueInv'
<1> SUFFICES ASSUME IInv, QueueInv, Retransmit PROVE QueueInv'
  OBVIOUS
<1> DEFINE width == cw_width \div 2 + 3
           from == cw_head + cw_width
           end == LoopEnd(from, width)
           more == IF width > cw_width THEN end - from ELSE 0
<1>1. sstate = "s_before_fast_recovery" /\ ~ SenderClosing
  BY DEF Retransmit, SenderClosing
<1>2. /\ cw_head \in Nat /\ cw_width \in Nat \ {0} /\ next_pkt \in Nat /\ time_q \in Int
      /\ ChunkLen \in Nat \ {0}
  BY <1>1, WindowTyped
<1>3. /\ cw_head < ChunkLen
      /\ time_q >= Smaller(next_pkt, ChunkLen) - cw_head
      /\ next_pkt >= Smaller(from, ChunkLen)
  BY <1>1 DEF QueueInv
<1>4. /\ next_pkt' = IF width > cw_width THEN end ELSE next_pkt
      /\ \E extra \in ExtraPushes(1) : time_q' = time_q + more + extra
      /\ sstate' = "s_fast_recovery" /\ sphase' = "run"
      /\ UNCHANGED <<cw_head, chunk>>
  <2>1. ~ (cw_head >= ChunkLen)
    BY <1>2, <1>3
  <2> QED
    BY <2>1 DEF Retransmit, Enter
<1>5. width \in Nat
  BY <1>2
<1>6. /\ from \in Nat /\ end \in Nat
      /\ \/ end = from /\ from >= Smaller(cw_head + width, ChunkLen)
         \/ from < end /\ end <= ChunkLen
  BY <1>2, <1>5 DEF LoopEnd, Smaller
<1> HIDE DEF end, width
<1>7. time_q' \in Int /\ time_q' >= time_q + more
  BY <1>2, <1>4, <1>5, <1>6 DEF ExtraPushes
<1>8. ChunkLen' = ChunkLen
  BY <1>4 DEF ChunkLen, chunk
<1>9. time_q' >= Smaller(next_pkt', ChunkLen) - cw_head
  <2>1. CASE width > cw_width
    <3>1. next_pkt' = end /\ time_q' >= time_q + (end - from)
      BY <1>4, <1>7, <2>1
    <3>2. CASE from < end /\ end <= ChunkLen
      <4>1. time_q >= from - cw_head
        BY <1>2, <1>3, <1>6, <3>2 DEF Smaller
      <4> QED
        BY <1>2, <1>6, <1>7, <3>1, <3>2, <4>1 DEF Smaller
    <3>3. CASE end = from /\ from >= Smaller(cw_head + width, ChunkLen)
      <4>1. from >= ChunkLen
        BY <1>2, <1>5, <2>1, <3>3 DEF Smaller
      <4>2. time_q >= ChunkLen - cw_head
        BY <1>2, <1>3, <1>6, <4>1 DEF Smaller
      <4> QED
        BY <1>2, <1>6, <1>7, <3>1, <3>3, <4>1, <4>2 DEF Smaller
    <3> QED
      BY <1>6, <3>2, <3>3
  <2>2. CASE ~ (width > cw_width)
    BY <1>2, <1>3, <1>4, <1>7, <2>2 DEF Smaller
  <2> QED
    BY <2>1, <2>2
<1> QED
  BY <1>3, <1>4, <1>8, <1>9 DEF QueueInv, Sending

\* The steps that empty time_q start the window anew.
LEMMA RestartKeepsQueue ==
  ASSUME NEW m
  PROVE  IInv /\ IInv' /\ QueueInv /\ (GotSyn(m) \/ TimeOut \/ CheckNextChunk) => QueueInv'
<1> SUFFICES ASSUME IInv, IInv', QueueInv, GotSyn(m) \/ TimeOut \/ CheckNextChunk
             PROVE  QueueInv'
  OBVIOUS
<1>1. sstate' = "s_slow_start" => ChunkLen' \in Nat \ {0}
  <2>1. IInv' /\ ~ SenderClosing' => (ChunkLen \in Nat \ {0})'
    BY WindowTyped, PTL
  <2> QED
    BY <2>1 DEF SenderClosing
<1>2. cw_head \in Nat
  BY WindowTyped
<1>3. CASE GotSyn(m)
  BY <1>1, <1>3 DEF GotSyn, Enter, QueueInv, Sending, Smaller
<1>4. CASE TimeOut
  <2>1. cw_head < ChunkLen /\ ChunkLen' = ChunkLen
    BY <1>4 DEF TimeOut, QueueInv, ChunkLen, chunk
  <2> QED
    BY <1>1, <1>2, <1>4, <2>1 DEF TimeOut, Enter, QueueInv, Sending, Smaller
<1>5. CASE CheckNextChunk
  <2>1. \/ sstate' = "s_ready_send_fin"
        \/ /\ sstate' = "s_slow_start" /\ sphase' = "run"
           /\ cw_head' = 0 /\ next_pkt' = 0 /\ time_q' = 0
    BY <1>5 DEF CheckNextChunk, Enter
  <2> QED
    BY <1>1, <2>1 DEF QueueInv, Sending, Smaller
<1> QED
  BY <1>3, <1>4, <1>5

\* Every step keeps time_q and the window together.
LEMMA QueueStep == IInv /\ IInv' /\ QueueInv /\ [Next]_vars => QueueInv'
<1> SUFFICES ASSUME IInv, IInv', QueueInv, [Next]_vars PROVE QueueInv'
  OBVIOUS
<1>1. CASE UNCHANGED sender
  BY <1>1, QueueKept DEF sender
<1>2. CASE SenderNext
  <2>1. ASSUME NEW m, SenderGets(m) PROVE QueueInv'
    <3>1. CASE NotSyn(m)
      BY <3>1 DEF NotSyn, Enter, QueueInv, Sending
    <3>2. CASE InflateWindow(m)
      <4>1. ChunkLen' = ChunkLen
        BY <3>2 DEF InflateWindow, ChunkLen, chunk
      <4> QED
        BY <3>2, <4>1 DEF InflateWindow, QueueInv, Sending
    <3>3. CASE IgnoredAck(m)
      BY <3>3, QueueKept DEF IgnoredAck, AwaitsAck, Sending
    <3>4. CASE DuplicateAck(m)
      <4>1. /\ sstate \in Sending /\ sphase = "recv" /\ sphase' = "run"
            /\ sstate' \in {"s_before_fast_recovery", sstate}
            /\ UNCHANGED <<cw_head, cw_width, next_pkt, time_q, chunk>>
        BY <3>4 DEF DuplicateAck, AwaitsAck, Enter
      <4>2. ChunkLen' = ChunkLen
        BY <4>1 DEF ChunkLen, chunk
      <4> QED
        BY <4>1, <4>2 DEF QueueInv, Sending
    <3>5. CASE CrashInPop(m) \/ AwaitFinAck(m) \/ AckFin(m)
      BY <3>5 DEF CrashInPop, AwaitFinAck, AckFin, Finish, Enter, QueueInv, Sending
    <3> QED
      BY <2>1, <3>1, <3>2, <3>3, <3>4, <3>5, AdvanceKeepsQueue, RestartKeepsQueue DEF SenderGets
  <2>2. CASE SenderRuns
    <3>1. CASE SendSyn \/ SendFin
      BY <3>1 DEF SendSyn, SendFin, QueueInv, Sending
    <3> QED
      BY <2>2, <3>1, FillKeepsQueue, RetransmitKeepsQueue, RestartKeepsQueue DEF SenderRuns
  <2>3. CASE SenderTimeout
    <3>1. CASE SynTimeout \/ RetryFin \/ NoFin
      BY <3>1 DEF SynTimeout, RetryFin, NoFin, Finish, Enter, QueueInv, Sending
    <3>2. CASE ReceiveTimeout
      BY <3>2, QueueKept DEF ReceiveTimeout, Enter, Sending
    <3> QED
      BY <2>3, <3>1, <3>2 DEF SenderTimeout
  <2> QED
    BY <1>2, <2>1, <2>2, <2>3 DEF SenderNext
<1> QED
  BY <1>1, <1>2 DEF Next, vars

\* Whenever a case of the sender reads time_q.front() there is one, and the
\* send times are no fewer than the packets in flight.
THEOREM SendTimesCoverTheWindow == Spec => []TimeQueueCovers
<1>1. Init => QueueInv
  BY DEF Init, SenderInit, QueueInv, Sending
<1>2. IInv /\ QueueInv => TimeQueueCovers
  <2> SUFFICES ASSUME IInv, QueueInv, sstate \in Sending
               PROVE  /\ time_q >= Smaller(next_pkt, ChunkLen) - cw_head
                      /\ sphase = "recv" => time_q >= 1
    BY DEF TimeQueueCovers
  <2>1. ~ SenderClosing
    BY DEF SenderClosing, Sending
  <2>2. /\ cw_head \in Nat /\ cw_width \in Nat \ {0} /\ next_pkt \in Nat /\ time_q \in Int
        /\ ChunkLen \in Nat \ {0}
    BY <2>1, WindowTyped
  <2>3. time_q >= Smaller(next_pkt, ChunkLen) - cw_head /\ cw_head < ChunkLen
    BY DEF QueueInv
  <2>4. ASSUME sphase = "recv" PROVE time_q >= 1
    <3>1. next_pkt >= Smaller(cw_head + cw_width, ChunkLen)
      BY <2>4 DEF QueueInv
    <3> QED
      BY <2>2, <2>3, <3>1 DEF Smaller
  <2> QED
    BY <2>3, <2>4
<1>3. IInv /\ IInv' /\ QueueInv /\ [Next]_vars => QueueInv'
  BY QueueStep
<1> QED
  BY <1>1, <1>2, <1>3, Invariant, PTL DEF Spec

-----------------------------------------------------------------------------
(* The order of the datagrams.                                             *)

\* Until packet 0 is in the file, nothing else was sent of the file, and
\* nothing acknowledged: with a window of one the sender waits for it.
FirstPacketInv ==
  /\ head = 0 =>
       /\ sstate \in {"s_0", "s_wait_syn", "s_slow_start", "s_time_out"}
       /\ cw_width = 1
       /\ \A m \in InFlight(toReceiver) : m.flags = {} => m.seq = 0
  /\ \A m \in InFlight(toSender) : "ACK" \in m.flags => m.ack >= 0

\* On a path that keeps the order the SYNs come first, and they have all
\* arrived when the receiver leaves the handshake; no packet of a chunk is
\* more than a chunk ahead of what the receiver has.
SynsFirst(ch) ==
  \A i, j \in 1..Len(ch) : i < j /\ "SYN" \in ch[j].flags => "SYN" \in ch[i].flags

HandshakeInv ==
  Ordered =>
    /\ ChunkPkts <= MemSlots => rstate # "crashed"
    /\ sstate \in {"s_0", "s_wait_syn"} =>
         /\ rstate \in {"s_0", "s_reveived_syn"}
         /\ \A m \in InFlight(toReceiver) : "SYN" \in m.flags
    /\ rstate \notin {"s_0", "s_reveived_syn"} =>
         \A m \in InFlight(toReceiver) : "SYN" \notin m.flags
    /\ SynsFirst(toReceiver)

\* The acknowledgements on such a path never fall, and none is older than the
\* last one the sender took.
AcksRise(ch) ==
  \A i, j \in 1..Len(ch) :
    i < j /\ "ACK" \in ch[i].flags /\ "ACK" \in ch[j].flags => ch[i].ack <= ch[j].ack

AckOrderInv ==
  Ordered =>
    /\ AcksRise(toSender)
    /\ ~ SenderClosing =>
         \A m \in InFlight(toSender) : "ACK" \in m.flags => m.ack >= Acked - 1

-----------------------------------------------------------------------------
(* Channels that keep the order.                                           *)

\* What a datagram was, in front of the sent ones or one of them.
LEMMA OrderedTransmit ==
  ASSUME Ordered, NEW ch \in Channel, NEW ms \in Seq(Datagram)
  PROVE  LET sent == Transmit(ch, ms)
         IN  /\ ch \in Seq(Datagram) /\ sent \in Seq(Datagram)
             /\ \A i \in 1..Len(sent) :
                  \/ i \in 1..Len(ch) /\ sent[i] = ch[i]
                  \/ /\ i > Len(ch) /\ i - Len(ch) \in 1..Len(ms)
                     /\ sent[i] = ms[i - Len(ch)]
<1> DEFINE queue == ch \o ms
           n == Smaller(Len(queue), Capacity)
<1>1. /\ ch \in Seq(Datagram)
      /\ queue \in Seq(Datagram)
      /\ Len(queue) = Len(ch) + Len(ms)
      /\ \A i \in 1..Len(ch) : queue[i] = ch[i]
      /\ \A i \in (Len(ch) + 1)..(Len(ch) + Len(ms)) : queue[i] = ms[i - Len(ch)]
  BY ConcatFact DEF Channel
<1>2. Transmit(ch, ms) = SubSeq(queue, 1, n) /\ n \in 0..Len(queue)
  BY <1>1, UdpAssumption DEF Transmit, Smaller
<1> HIDE DEF queue, n
<1>3. /\ SubSeq(queue, 1, n) \in Seq(Datagram)
      /\ Len(SubSeq(queue, 1, n)) = n
      /\ \A i \in 1..n : SubSeq(queue, 1, n)[i] = queue[i]
  BY <1>1, <1>2
<1>4. ASSUME NEW i \in 1..n
      PROVE  \/ i \in 1..Len(ch) /\ queue[i] = ch[i]
             \/ /\ i > Len(ch) /\ i - Len(ch) \in 1..Len(ms)
                /\ queue[i] = ms[i - Len(ch)]
  <2>1. i \in Nat /\ 1 <= i /\ i <= Len(ch) + Len(ms) /\ Len(ch) \in Nat /\ Len(ms) \in Nat
    BY <1>1, <1>2
  <2>2. CASE i <= Len(ch)
    BY <1>1, <2>1, <2>2
  <2>3. CASE i > Len(ch)
    <3>1. i \in (Len(ch) + 1)..(Len(ch) + Len(ms)) /\ i - Len(ch) \in 1..Len(ms)
      BY <2>1, <2>3
    <3> QED
      BY <1>1, <2>3, <3>1
  <2> QED
    BY <2>1, <2>2, <2>3
<1> QED
  BY <1>1, <1>2, <1>3, <1>4

\* What a channel holds after its first datagram left it.
LEMMA OrderedTail ==
  ASSUME Ordered, NEW ch \in Channel, ch # << >>
  PROVE  /\ ch \in Seq(Datagram) /\ Tail(ch) \in Seq(Datagram)
         /\ Len(ch) \in Nat \ {0} /\ Len(Tail(ch)) = Len(ch) - 1
         /\ \A i \in 1..Len(Tail(ch)) : i + 1 \in 1..Len(ch) /\ Tail(ch)[i] = ch[i + 1]
<1>1. ch \in Seq(Datagram)
  BY DEF Channel
<1> QED
  BY <1>1

\* The first datagram is the one received.
LEMMA OrderedConsume ==
  ASSUME Ordered, NEW ch \in Channel, NEW m \in Deliverable(ch)
  PROVE  ch # << >> /\ m = ch[1] /\ Consume(ch) = Tail(ch)
BY DEF Deliverable, Consume, Channel

\* What is in flight, by its place.
LEMMA InFlightOrdered ==
  ASSUME Ordered, NEW ch \in Seq(Datagram)
  PROVE  /\ \A i \in 1..Len(ch) : ch[i] \in InFlight(ch)
         /\ \A m \in InFlight(ch) : \E i \in 1..Len(ch) : m = ch[i]
BY DEF InFlight, Range

NoSyn(ch) == \A m \in InFlight(ch) : "SYN" \notin m.flags

OnlySyn(ch) == \A m \in InFlight(ch) : "SYN" \in m.flags

\* Sending no SYN, or a SYN behind SYNs, keeps the SYNs first.
LEMMA SynsFirstTransmit ==
  ASSUME Ordered, NEW ch \in Channel, NEW ms \in Seq(Datagram), SynsFirst(ch),
         \/ \A i \in 1..Len(ms) : "SYN" \notin ms[i].flags
         \/ OnlySyn(ch) /\ \A i \in 1..Len(ms) : "SYN" \in ms[i].flags
  PROVE  SynsFirst(Transmit(ch, ms))
<1> DEFINE sent == Transmit(ch, ms)
<1>1. /\ ch \in Seq(Datagram) /\ sent \in Seq(Datagram)
      /\ \A i \in 1..Len(sent) :
           \/ i \in 1..Len(ch) /\ sent[i] = ch[i]
           \/ /\ i > Len(ch) /\ i - Len(ch) \in 1..Len(ms)
              /\ sent[i] = ms[i - Len(ch)]
  BY OrderedTransmit
<1> HIDE DEF sent
<1>2. ASSUME NEW i \in 1..Len(sent), NEW j \in 1..Len(sent), i < j, "SYN" \in sent[j].flags
      PROVE  "SYN" \in sent[i].flags
  <2>1. CASE \A k \in 1..Len(ms) : "SYN" \notin ms[k].flags
    <3>1. j \in 1..Len(ch) /\ sent[j] = ch[j]
      BY <1>1, <1>2, <2>1
    <3>2. i \in 1..Len(ch) /\ sent[i] = ch[i]
      BY <1>1, <1>2, <3>1
    <3> QED
      BY <1>2, <3>1, <3>2 DEF SynsFirst
  <2>2. CASE OnlySyn(ch) /\ \A k \in 1..Len(ms) : "SYN" \in ms[k].flags
    <3>1. \A k \in 1..Len(ch) : "SYN" \in ch[k].flags
      BY <1>1, <2>2, InFlightOrdered DEF OnlySyn
    <3> QED
      BY <1>1, <2>2, <3>1
  <2> QED
    BY <2>1, <2>2
<1> QED
  BY <1>2 DEF SynsFirst, sent

\* So does taking the first; if that is no SYN there is none left.
LEMMA SynsFirstTail ==
  ASSUME Ordered, NEW ch \in Channel, ch # << >>, SynsFirst(ch)
  PROVE  /\ SynsFirst(Tail(ch))
         /\ "SYN" \notin ch[1].flags => NoSyn(Tail(ch))
<1>1. /\ ch \in Seq(Datagram) /\ Tail(ch) \in Seq(Datagram)
      /\ Len(ch) \in Nat \ {0} /\ Len(Tail(ch)) = Len(ch) - 1
      /\ \A i \in 1..Len(Tail(ch)) : i + 1 \in 1..Len(ch) /\ Tail(ch)[i] = ch[i + 1]
  BY OrderedTail
<1>2. SynsFirst(Tail(ch))
  <2>1. ASSUME NEW i \in 1..Len(Tail(ch)), NEW j \in 1..Len(Tail(ch)), i < j,
               "SYN" \in Tail(ch)[j].flags
        PROVE  "SYN" \in Tail(ch)[i].flags
    <3>1. /\ i + 1 \in 1..Len(ch) /\ j + 1 \in 1..Len(ch) /\ i + 1 < j + 1
          /\ Tail(ch)[i] = ch[i + 1] /\ Tail(ch)[j] = ch[j + 1]
      BY <1>1, <2>1
    <3> QED
      BY <2>1, <3>1 DEF SynsFirst
  <2> QED
    BY <2>1 DEF SynsFirst
<1>3. ASSUME "SYN" \notin ch[1].flags PROVE NoSyn(Tail(ch))
  <2>1. ASSUME NEW i \in 1..Len(Tail(ch)) PROVE "SYN" \notin Tail(ch)[i].flags
    <3>1. 1 \in 1..Len(ch) /\ i + 1 \in 1..Len(ch) /\ 1 < i + 1 /\ Tail(ch)[i] = ch[i + 1]
      BY <1>1, <2>1
    <3> QED
      BY <1>3, <3>1 DEF SynsFirst
  <2> QED
    BY <1>1, <2>1, InFlightOrdered DEF NoSyn
<1> QED
  BY <1>2, <1>3

-----------------------------------------------------------------------------
(* What the send loops send.                                               *)

\* Packets of the file, with their sequence numbers.
LEMMA BurstFact ==
  ASSUME NEW from \in Nat, NEW to \in Nat, from <= to,
         cw_head_offset \in Nat, file_offset \in Nat
  PROVE  /\ Burst(from, to) \in Seq(Datagram)
         /\ Len(Burst(from, to)) = to - from
         /\ \A i \in 1..(to - from) :
              /\ Burst(from, to)[i].flags = {}
              /\ Burst(from, to)[i].seq = cw_head_offset + from + i - 1
<1> DEFINE P(i) == DataPacket(from + i - 1)
<1>1. \A i \in 1..(to - from) :
        P(i) \in Datagram /\ P(i).flags = {} /\ P(i).seq = cw_head_offset + from + i - 1
  <2> TAKE i \in 1..(to - from)
  <2>1. cw_head_offset + (from + i - 1) \in Int /\ file_offset + (from + i - 1) \in Int
    OBVIOUS
  <2>2. P(i) = Packet(cw_head_offset + (from + i - 1), file_offset + (from + i - 1))
    BY DEF DataPacket
  <2> QED
    BY <2>1, <2>2, PacketTyped DEF Packet
<1>2. Burst(from, to) = [i \in 1..(to - from) |-> P(i)] /\ to - from \in Nat
  BY DEF Burst
<1> HIDE DEF P
<1> QED
  BY <1>1, <1>2

\* Packets without flag bits, one or more.
DataOnly(ms) ==
  ms \in Seq(Datagram) /\ \A i \in 1..Len(ms) : ms[i].flags = {}

\* Two such bursts in a row.
LEMMA DataOnlyConcat ==
  ASSUME NEW a, NEW b, DataOnly(a), DataOnly(b)
  PROVE  DataOnly(a \o b)
<1>1. a \in Seq(Datagram) /\ b \in Seq(Datagram)
  BY DEF DataOnly
<1>2. /\ a \o b \in Seq(Datagram)
      /\ Len(a \o b) = Len(a) + Len(b)
      /\ \A i \in 1..Len(a) : (a \o b)[i] = a[i]
      /\ \A i \in (Len(a) + 1)..(Len(a) + Len(b)) : (a \o b)[i] = b[i - Len(a)]
  BY <1>1, ConcatFact
<1>3. ASSUME NEW i \in 1..Len(a \o b) PROVE (a \o b)[i].flags = {}
  <2>1. CASE i \in 1..Len(a)
    BY <1>2, <2>1 DEF DataOnly
  <2>2. CASE i \notin 1..Len(a)
    <3>1. i \in (Len(a) + 1)..(Len(a) + Len(b)) /\ i - Len(a) \in 1..Len(b)
      BY <1>1, <1>2, <1>3, <2>2
    <3> QED
      BY <1>2, <3>1 DEF DataOnly
  <2> QED
    BY <2>1, <2>2
<1> QED
  BY <1>2, <1>3 DEF DataOnly

\* The send loops and the retransmission send nothing else.
LEMMA LoopsSendData ==
  IInv /\ (FillWindow \/ FillWindowOnce \/ Retransmit) =>
    \/ UNCHANGED toReceiver
    \/ \E ms : DataOnly(ms) /\ toReceiver' = Transmit(toReceiver, ms)
<1> SUFFICES ASSUME IInv, FillWindow \/ FillWindowOnce \/ Retransmit
             PROVE  \/ UNCHANGED toReceiver
                    \/ \E ms : DataOnly(ms) /\ toReceiver' = Transmit(toReceiver, ms)
  OBVIOUS
<1>1. ~ SenderClosing
  BY DEF FillWindow, FillWindowOnce, Retransmit, SenderClosing
<1>2. /\ cw_head \in Nat /\ cw_width \in Nat \ {0} /\ next_pkt \in Nat
      /\ cw_head_offset \in Nat /\ file_offset \in Nat
  BY WindowTyped
<1>3. ASSUME NEW from \in Nat, NEW to \in Nat, from <= to PROVE DataOnly(Burst(from, to))
  BY <1>2, <1>3, BurstFact DEF DataOnly
<1>4. CASE FillWindow \/ FillWindowOnce
  <2> DEFINE end == LoopEnd(next_pkt, cw_width)
  <2>1. end \in Nat /\ next_pkt <= end
    BY <1>1, <1>2, LoopEndFact
  <2>2. \/ toReceiver' = Transmit(toReceiver, Burst(next_pkt, end))
        \/ \E k \in next_pkt..(end - 1) :
             toReceiver' = Transmit(toReceiver, Burst(next_pkt, k) \o Burst(k + 1, end))
    BY <1>4 DEF FillWindow, FillWindowOnce
  <2> HIDE DEF end
  <2>3. DataOnly(Burst(next_pkt, end))
    BY <1>2, <1>3, <2>1
  <2>4. ASSUME NEW k \in next_pkt..(end - 1)
        PROVE  DataOnly(Burst(next_pkt, k) \o Burst(k + 1, end))
    <3>1. k \in Nat /\ k + 1 \in Nat /\ next_pkt <= k /\ k + 1 <= end
      BY <1>2, <2>1
    <3> QED
      BY <1>2, <1>3, <2>1, <3>1, DataOnlyConcat
  <2> QED
    BY <2>2, <2>3, <2>4
<1>5. CASE Retransmit
  <2> DEFINE width == cw_width \div 2 + 3
             from == cw_head + cw_width
             end == LoopEnd(from, width)
             more == IF width > cw_width THEN end - from ELSE 0
  <2>1. \/ UNCHANGED toReceiver
        \/ toReceiver' = Transmit(toReceiver, << DataPacket(cw_head) >> \o Burst(from, from + more))
    BY <1>5 DEF Retransmit
  <2>2. width \in Nat /\ from \in Nat
    BY <1>2
  <2>3. end \in Nat /\ from <= end
    BY <1>1, <2>2, LoopEndFact
  <2> HIDE DEF width, from, end
  <2>4. from + more \in Nat /\ from <= from + more
    BY <1>2, <2>2, <2>3
  <2> HIDE DEF more
  <2>5. DataOnly(<< DataPacket(cw_head) >>)
    BY <1>2, PacketTyped DEF DataOnly, DataPacket, Packet
  <2> QED
    BY <1>3, <2>1, <2>2, <2>4, <2>5, DataOnlyConcat
<1> QED
  BY <1>4, <1>5

\* An acknowledgement that moves the window moves it to behind the packet it
\* names, which was not acknowledged before and is in the file.
LEMMA AdvancesTo ==
  ASSUME NEW m
  PROVE  IInv /\ AdvanceWindow(m) =>
           /\ sstate \in Sending
           /\ sstate' \in {"s_slow_start", "s_congestion_avoidance", "s_check_next_chunk"}
           /\ m \in Deliverable(toSender) /\ m \in Datagram /\ "ACK" \in m.flags
           /\ toSender' = Consume(toSender)
           /\ UNCHANGED <<toReceiver, chunk>>
           /\ cw_head' = m.ack - cw_head_offset + 1
           /\ cw_head < cw_head'
           /\ m.ack < head
<1> SUFFICES ASSUME IInv, AdvanceWindow(m)
             PROVE  /\ sstate \in Sending
                    /\ sstate' \in {"s_slow_start", "s_congestion_avoidance",
                                    "s_check_next_chunk"}
                    /\ m \in Deliverable(toSender) /\ m \in Datagram /\ "ACK" \in m.flags
                    /\ toSender' = Consume(toSender)
                    /\ UNCHANGED <<toReceiver, chunk>>
                    /\ cw_head' = m.ack - cw_head_offset + 1
                    /\ cw_head < cw_head'
                    /\ m.ack < head
  OBVIOUS
<1> DEFINE step == NewAck(m) + 1 - cw_head
<1>1. /\ sstate \in Sending /\ SGets(m) /\ "ACK" \in m.flags /\ NewAck(m) > LastAcked
      /\ sstate # "s_slow_start" => step - time_q < DequeNode
      /\ cw_head' = NewAck(m) + 1
      /\ IF NewAck(m) + 1 >= ChunkLen
         THEN Enter("s_check_next_chunk")
         ELSE \E after \in AfterAck(step) : Enter(after[1])
      /\ UNCHANGED chunk
  BY DEF AdvanceWindow, AwaitsAck
<1>2. FromReceiver(m) /\ m \in Datagram
  BY <1>1, SenderReceives
<1>3. /\ cw_head \in Nat /\ cw_head_offset \in Nat /\ head \in Nat /\ head <= Total
      /\ m.ack \in Int /\ -1 <= m.ack /\ m.ack < head
      /\ cw_head_offset <= head
  <2>1. cw_head_offset <= head
    BY <1>1, WindowTyped DEF IInv, SenderInv, SenderClosing, Sending, Acked
  <2> QED
    BY <1>1, <1>2, <2>1, WindowTyped, HeadBound DEF FromReceiver, Datagram
<1>4. NewAck(m) \in Int /\ cw_head <= NewAck(m) /\ cw_head_offset + NewAck(m) < head
  <2> HIDE DEF step
  <2>1. step = NewAck(m) + 1 - cw_head
    BY DEF step
  <2> QED
    BY <1>1, <1>2, <2>1, NewAckFact
<1>5. NewAck(m) = m.ack - cw_head_offset
  <2> DEFINE rel == m.ack - cw_head_offset
  <2>1. /\ rel \in Int /\ rel < Total /\ rel >= -1 - Total
        /\ Total \in Nat \ {0} /\ Wrap \in Nat /\ Wrap > 2 * Total + 1
    BY <1>3, SenderAssumption, UdpAssumption, WrapAssumption
  <2>2. NewAck(m) = rel \/ NewAck(m) = U32(rel)
    BY DEF NewAck, Unsigned
  <2> HIDE DEF rel
  <2>3. U32(rel) = rel \/ U32(rel) = rel + Wrap
    BY <2>1, UnsignedFact
  <2>4. NewAck(m) < Total
    BY <1>3, <1>4, SenderAssumption
  <2>5. rel + Wrap >= Total
    BY <2>1
  <2> QED
    BY <2>1, <2>2, <2>3, <2>4, <2>5 DEF rel
<1>6. step \in Nat \ {0}
  BY <1>3, <1>4
<1> HIDE DEF step
<1>7. sstate' \in {"s_slow_start", "s_congestion_avoidance", "s_check_next_chunk"}
  BY <1>1, <1>6, AfterAckFact DEF Enter
<1> QED
  BY <1>1, <1>2, <1>3, <1>4, <1>5, <1>7 DEF SGets

-----------------------------------------------------------------------------
(* The handshake on such a path.                                           *)

Opening == sstate \in {"s_0", "s_wait_syn"}

Handshaking == rstate \in {"s_0", "s_reveived_syn"}

\* A sender that does not send keeps it, if it does not go back to its start.
LEMMA HandshakeQuiet ==
  HandshakeInv /\ UNCHANGED <<receiver, toReceiver>> /\ (Opening' => Opening) => HandshakeInv'
BY DEF HandshakeInv, SynsFirst, receiver, Opening

\* A sender that has left its start sends what is no SYN behind the SYNs.
LEMMA HandshakeSends ==
  ASSUME NEW ms, IInv, HandshakeInv, UNCHANGED receiver, ~ Opening',
         ms \in Seq(Datagram), \A i \in 1..Len(ms) : "SYN" \notin ms[i].flags,
         toReceiver' = Transmit(toReceiver, ms)
  PROVE  HandshakeInv'
<1> SUFFICES ASSUME Ordered PROVE HandshakeInv'
  BY DEF HandshakeInv
<1>1. toReceiver \in Channel
  BY DEF IInv, Typed, NetworkTyped
<1>2. SynsFirst(toReceiver')
  BY <1>1, SynsFirstTransmit DEF HandshakeInv
<1>3. NoSyn(toReceiver) => NoSyn(toReceiver')
  BY <1>1, TransmitFact DEF NoSyn, Range
<1> QED
  BY <1>2, <1>3 DEF HandshakeInv, SynsFirst, NoSyn, receiver, Opening

\* The same of a single header.
LEMMA HandshakeSendsOne ==
  ASSUME NEW c \in Datagram, IInv, HandshakeInv, UNCHANGED receiver, ~ Opening',
         "SYN" \notin c.flags, toReceiver' = Transmit(toReceiver, << c >>)
  PROVE  HandshakeInv'
<1>1. << c >> \in Seq(Datagram) /\ \A i \in 1..Len(<< c >>) : << c >>[i] = c
  OBVIOUS
<1> QED
  BY <1>1, HandshakeSends

\* A SYN is sent only behind SYNs.
LEMMA HandshakeSyn ==
  IInv /\ HandshakeInv /\ SendSyn /\ UNCHANGED receiver => HandshakeInv'
<1> SUFFICES ASSUME IInv, HandshakeInv, SendSyn, UNCHANGED receiver, Ordered
             PROVE  HandshakeInv'
  BY DEF HandshakeInv
<1>1. toReceiver \in Channel
  BY DEF IInv, Typed, NetworkTyped
<1> DEFINE syn == Control({"SYN"}, -1, 0)
<1>2. /\ syn \in Datagram /\ "SYN" \in syn.flags
      /\ toReceiver' = Transmit(toReceiver, << syn >>)
  BY ControlTyped DEF SendSyn, SendsControl, Control
<1> HIDE DEF syn
<1>3. /\ << syn >> \in Seq(Datagram) /\ Len(<< syn >>) = 1 /\ << syn >>[1] = syn
      /\ Range(<< syn >>) = {syn}
  BY <1>2 DEF Range
<1>4. /\ rstate \in {"s_0", "s_reveived_syn"} /\ SynsFirst(toReceiver)
      /\ OnlySyn(toReceiver)
  BY DEF HandshakeInv, SendSyn, OnlySyn
<1>5. SynsFirst(toReceiver')
  <2>1. \A i \in 1..Len(<< syn >>) : "SYN" \in << syn >>[i].flags
    BY <1>2, <1>3
  <2>2. SynsFirst(Transmit(toReceiver, << syn >>))
    BY <1>1, <1>3, <1>4, <2>1, SynsFirstTransmit
  <2> QED
    BY <1>2, <2>2
<1>6. OnlySyn(toReceiver')
  BY <1>1, <1>2, <1>3, <1>4, TransmitFact DEF OnlySyn
<1> QED
  BY <1>4, <1>5, <1>6 DEF HandshakeInv, SynsFirst, OnlySyn, receiver

\* Every step of the sender.
LEMMA HandshakeSender ==
  IInv /\ HandshakeInv /\ SenderNext /\ UNCHANGED receiver => HandshakeInv'
<1> SUFFICES ASSUME IInv, HandshakeInv, SenderNext, UNCHANGED receiver PROVE HandshakeInv'
  OBVIOUS
<1>1. ASSUME NEW m, SenderGets(m) PROVE HandshakeInv'
  <2>1. CASE AckFin(m)
    <3>1. ~ Opening'
      BY <2>1 DEF AckFin, Finish, Opening
    <3>2. CASE "FIN" \in m.flags /\ "ACK" \notin m.flags
      <4> DEFINE c == Control({"ACK"}, -2, 0)
      <4>1. /\ c \in Datagram /\ "SYN" \notin c.flags
            /\ toReceiver' = Transmit(toReceiver, << c >>)
        BY <2>1, <3>2, ControlTyped DEF AckFin, SendsControl, Control
      <4> HIDE DEF c
      <4> QED
        BY <3>1, <4>1, HandshakeSendsOne
    <3>3. CASE ~ ("FIN" \in m.flags /\ "ACK" \notin m.flags)
      BY <2>1, <3>1, <3>3, HandshakeQuiet DEF AckFin
    <3> QED
      BY <3>2, <3>3
  <2>2. CASE ~ AckFin(m)
    <3>1. UNCHANGED toReceiver
      BY <1>1, <2>2 DEF SenderGets, NotSyn, GotSyn, IgnoredAck, DuplicateAck, InflateWindow,
            AdvanceWindow, CrashInPop, AwaitFinAck, AwaitsAck, SGets
    <3>2. Opening' => Opening
      <4>1. CASE NotSyn(m) \/ GotSyn(m) \/ CrashInPop(m) \/ AwaitFinAck(m) \/ DuplicateAck(m)
        BY <4>1 DEF NotSyn, GotSyn, CrashInPop, AwaitFinAck, DuplicateAck, Enter, Opening,
                    AwaitsAck, Sending
      <4>2. CASE IgnoredAck(m) \/ InflateWindow(m)
        BY <4>2 DEF IgnoredAck, InflateWindow, Opening
      <4>3. CASE AdvanceWindow(m)
        BY <4>3, AdvancesTo DEF Opening
      <4> QED
        BY <1>1, <2>2, <4>1, <4>2, <4>3 DEF SenderGets
    <3> QED
      BY <3>1, <3>2, HandshakeQuiet
  <2> QED
    BY <2>1, <2>2
<1>2. CASE SenderRuns
  <2>1. CASE FillWindow \/ FillWindowOnce \/ Retransmit
    <3>1. ~ Opening'
      BY <2>1 DEF FillWindow, FillWindowOnce, Retransmit, Enter, Opening
    <3> QED
      BY <2>1, <3>1, LoopsSendData, HandshakeSends, HandshakeQuiet DEF DataOnly
  <2>2. CASE SendFin
    <3> DEFINE c == Control({"FIN"}, -2, 0)
    <3>1. /\ c \in Datagram /\ "SYN" \notin c.flags
          /\ toReceiver' = Transmit(toReceiver, << c >>)
      BY <2>2, ControlTyped DEF SendFin, SendsControl, Control
    <3>2. ~ Opening'
      BY <2>2 DEF SendFin, Opening
    <3> HIDE DEF c
    <3> QED
      BY <3>1, <3>2, HandshakeSendsOne
  <2>3. CASE TimeOut \/ CheckNextChunk
    BY <2>3, HandshakeQuiet DEF TimeOut, CheckNextChunk, Enter, Opening, network
  <2> QED
    BY <1>2, <2>1, <2>2, <2>3, HandshakeSyn DEF SenderRuns
<1>3. CASE SenderTimeout
  BY <1>3, HandshakeQuiet
     DEF SenderTimeout, SynTimeout, ReceiveTimeout, RetryFin, NoFin, Finish, Enter, Opening, network
<1> QED
  BY <1>1, <1>2, <1>3 DEF SenderNext

\* A packet of the file finds its memory: it is of the sender's chunk or one
\* before, and the receiver has got everything before that chunk.
LEMMA DataFits ==
  ASSUME NEW m
  PROVE  /\ IInv /\ ChunkPkts <= MemSlots
         /\ FromSender(m) /\ m.flags \cap {"SYN", "FIN"} = {} /\ ~ ReceiverClosing
         => Fits(U32(m.seq))
<1> SUFFICES ASSUME IInv, ChunkPkts <= MemSlots, FromSender(m),
                    m.flags \cap {"SYN", "FIN"} = {}, ~ ReceiverClosing
             PROVE  Fits(U32(m.seq))
  OBVIOUS
<1>1. PICK k \in 0..(SentLimit - 1) : m = Packet(k, k)
  BY DEF FromSender, Control
<1>2. /\ file_offset \in Nat /\ cw_head \in Nat /\ cw_head_offset \in Nat /\ head \in Nat
      /\ after_tail \in Nat /\ head <= after_tail
  BY WindowTyped DEF IInv, BufferInv
<1>3. SentLimit \in Int /\ SentLimit <= Total /\ SentLimit <= file_offset + ChunkPkts
  BY <1>2, SenderAssumption DEF SentLimit, Smaller
<1>4. k \in Int /\ 0 <= k /\ k < SentLimit
  BY <1>1, <1>3
<1>5. U32(m.seq) = k
  <2>1. k < Wrap
    BY <1>3, <1>4, SenderAssumption, UdpAssumption, WrapAssumption
  <2> QED
    BY <1>1, <1>4, <2>1, UnsignedFact DEF Packet
<1>6. CASE SenderClosing
  <2>1. head = Total
    BY <1>6 DEF IInv, SenderInv
  <2> QED
    BY <1>2, <1>3, <1>4, <1>5, <2>1, SenderAssumption, MemSlotsAssumption DEF Fits
<1>7. CASE ~ SenderClosing
  <2>1. file_offset <= head
    BY <1>2, <1>7 DEF IInv, SenderInv, Acked
  <2> QED
    BY <1>2, <1>3, <1>4, <1>5, <2>1, SenderAssumption, MemSlotsAssumption DEF Fits
<1> QED
  BY <1>6, <1>7

\* Every step of the receiver.
LEMMA HandshakeReceiver ==
  IInv /\ HandshakeInv /\ ReceiverNext /\ UNCHANGED sender => HandshakeInv'
<1> SUFFICES ASSUME IInv, HandshakeInv, ReceiverNext, UNCHANGED sender, Ordered
             PROVE  HandshakeInv'
  BY DEF HandshakeInv
<1>0. toReceiver \in Channel /\ sstate' = sstate
  BY DEF IInv, Typed, NetworkTyped, sender
<1>1. ASSUME NEW m, ReceiverGets(m) PROVE HandshakeInv'
  <2>1. RGets(m)
    BY <1>1 DEF ReceiverGets, WaitForSyn, AnswerSynAgain, FinBeforeData, FirstData, MoreData,
                FinAfterData, FinAgain, LastDatagram
  <2>2. /\ toReceiver # << >> /\ m = toReceiver[1] /\ toReceiver' = Tail(toReceiver)
        /\ m \in InFlight(toReceiver) /\ FromSender(m)
    BY <1>0, <2>1, OrderedConsume, ConsumeFact, ReceiverReceives DEF RGets
  <2>3. SynsFirst(toReceiver)
    BY DEF HandshakeInv
  <2>4. SynsFirst(toReceiver') /\ ("SYN" \notin m.flags => NoSyn(toReceiver'))
    BY <1>0, <2>2, <2>3, SynsFirstTail
  <2>5. InFlight(toReceiver') \subseteq InFlight(toReceiver)
    BY <1>0, <2>2, LossFact
  <2>6. /\ ChunkPkts <= MemSlots => rstate # "crashed"
        /\ Opening => Handshaking /\ OnlySyn(toReceiver)
        /\ ~ Handshaking => NoSyn(toReceiver)
    BY DEF HandshakeInv, Opening, Handshaking, OnlySyn, NoSyn
  <2>7. rstate' = rstate \/ ~ Handshaking \/ "SYN" \notin m.flags \/ Handshaking'
    BY <1>1 DEF ReceiverGets, WaitForSyn, AnswerSynAgain, FinBeforeData, FirstData, MoreData,
                FinAfterData, FinAgain, LastDatagram, Handshaking, receiver
  <2>8. ~ Handshaking => ~ Handshaking'
    BY <1>1 DEF ReceiverGets, WaitForSyn, AnswerSynAgain, FinBeforeData, FirstData, MoreData,
                FinAfterData, FinAgain, LastDatagram, Handshaking, Accept, receiver
  <2>9. ~ Handshaking' => NoSyn(toReceiver')
    <3>1. CASE ~ Handshaking
      BY <2>5, <2>6, <3>1 DEF NoSyn
    <3>2. CASE Handshaking
      BY <2>4, <2>7, <3>2 DEF Handshaking
    <3> QED
      BY <3>1, <3>2
  <2>10. Opening' => Handshaking' /\ OnlySyn(toReceiver')
    <3> SUFFICES ASSUME Opening' PROVE Handshaking' /\ OnlySyn(toReceiver')
      OBVIOUS
    <3>1. Handshaking /\ OnlySyn(toReceiver) /\ "SYN" \in m.flags
      BY <1>0, <2>2, <2>6 DEF Opening, OnlySyn
    <3> QED
      BY <2>5, <2>7, <3>1 DEF Handshaking, OnlySyn
  <2>11. ASSUME ChunkPkts <= MemSlots PROVE rstate' # "crashed"
    <3>1. CASE FirstData(m) \/ MoreData(m)
      <4>1. m.flags \cap {"SYN", "FIN"} = {} /\ ~ ReceiverClosing
        <5>1. CASE FirstData(m)
          BY <5>1 DEF FirstData, ReceiverClosing
        <5>2. CASE MoreData(m)
          BY <2>2, <2>6, <5>2 DEF MoreData, ReceiverClosing, Handshaking, NoSyn
        <5> QED
          BY <3>1, <5>1, <5>2
      <4>2. Fits(U32(m.seq))
        BY <2>2, <2>11, <4>1, DataFits
      <4>3. Accept(m)
        BY <3>1 DEF FirstData, MoreData
      <4> QED
        BY <4>2, <4>3 DEF Accept
    <3>2. CASE ~ (FirstData(m) \/ MoreData(m))
      BY <1>1, <2>6, <2>11, <3>2
         DEF ReceiverGets, WaitForSyn, AnswerSynAgain, FinBeforeData, FinAfterData, FinAgain,
             LastDatagram, receiver
    <3> QED
      BY <3>1, <3>2
  <2> QED
    BY <2>4, <2>9, <2>10, <2>11
       DEF HandshakeInv, SynsFirst, Opening, Handshaking, OnlySyn, NoSyn
<1>2. CASE ReceiverRuns \/ FinTimeout
  BY <1>0, <1>2
     DEF ReceiverRuns, AnswerSyn, SendOwnFin, FinTimeout, network, HandshakeInv, SynsFirst
<1> QED
  BY <1>1, <1>2 DEF ReceiverNext

\* A loss.
LEMMA HandshakeLoss ==
  /\ IInv /\ HandshakeInv /\ UNCHANGED <<sender, receiver>>
  /\ LoseToReceiver \/ LoseToSender
  => HandshakeInv'
<1> SUFFICES ASSUME IInv, HandshakeInv, UNCHANGED <<sender, receiver>>, Ordered,
                    LoseToReceiver \/ LoseToSender
             PROVE  HandshakeInv'
  BY DEF HandshakeInv
<1>1. toReceiver \in Channel /\ sstate' = sstate /\ rstate' = rstate
  BY DEF IInv, Typed, NetworkTyped, sender, receiver
<1>2. CASE LoseToSender
  BY <1>1, <1>2 DEF LoseToSender, HandshakeInv, SynsFirst
<1>3. CASE LoseToReceiver
  <2>1. toReceiver # << >> /\ toReceiver' = Tail(toReceiver)
    BY <1>3 DEF LoseToReceiver
  <2>2. SynsFirst(toReceiver)
    BY DEF HandshakeInv
  <2>3. SynsFirst(toReceiver') /\ InFlight(toReceiver') \subseteq InFlight(toReceiver)
    BY <1>1, <2>1, <2>2, SynsFirstTail, LossFact
  <2> QED
    BY <1>1, <2>3 DEF HandshakeInv, SynsFirst
<1> QED
  BY <1>2, <1>3

\* On a path that keeps the order the SYNs stay first, whatever is lost.
LEMMA HandshakeInvariant == Spec => []HandshakeInv
<1>1. Init => HandshakeInv
  <2> SUFFICES ASSUME Init, Ordered PROVE HandshakeInv
    BY DEF HandshakeInv
  <2>1. toReceiver = << >> /\ rstate = "s_0"
    BY DEF Init, EmptyChannel, ReceiverInit
  <2>2. InFlight(toReceiver) = {} /\ Len(toReceiver) = 0
    BY <2>1 DEF InFlight, Range
  <2> QED
    BY <2>1, <2>2 DEF HandshakeInv, SynsFirst
<1>2. IInv /\ HandshakeInv /\ [Next]_vars => HandshakeInv'
  <2> SUFFICES ASSUME IInv, HandshakeInv, [Next]_vars PROVE HandshakeInv'
    OBVIOUS
  <2>1. CASE UNCHANGED vars
    BY <2>1 DEF vars, network, sender, receiver, HandshakeInv, SynsFirst
  <2> QED
    BY <2>1, HandshakeSender, HandshakeReceiver, HandshakeLoss DEF Next
<1> QED
  BY <1>1, <1>2, Invariant, PTL DEF Spec

\* Where the memory holds a chunk, no SYN arrives after the handshake on a
\* path that keeps the order, and the receiver never asks for more than there
\* is.
THEOREM NoSynAfterTheHandshake ==
  ASSUME ChunkPkts <= MemSlots
  PROVE  Spec => []NoLateSyn
<1>1. HandshakeInv => NoLateSyn
  BY DEF HandshakeInv, NoLateSyn
<1> QED
  BY <1>1, HandshakeInvariant, PTL

-----------------------------------------------------------------------------
(* What the receiver answers.                                              *)

\* What it hands to its buffer is a packet of the file.
LEMMA AcceptsPacket ==
  ASSUME NEW m
  PROVE  /\ IInv
         /\ FirstData(m) \/ MoreData(m)
         /\ Fits(U32(m.seq))
         => \E k \in Nat : m = Packet(k, k) /\ gotpacket(k, k)
<1> SUFFICES ASSUME IInv, FirstData(m) \/ MoreData(m), Fits(U32(m.seq))
             PROVE  \E k \in Nat : m = Packet(k, k) /\ gotpacket(k, k)
  OBVIOUS
<1>1. /\ FromSender(m) /\ "FIN" \notin m.flags /\ ~ ReceiverClosing /\ Accept(m)
      /\ after_tail \in Nat /\ after_tail <= Total
      /\ SentLimit \in Int /\ SentLimit <= Total
  <2>1. file_offset \in Nat
    BY WindowTyped
  <2>2. SentLimit \in Int
    BY <2>1, SenderAssumption DEF SentLimit, Smaller
  <2> QED
    BY <2>2, ReceiverReceives, HeadBound
       DEF FirstData, MoreData, ReceiverClosing, IInv, BufferInv
<1>2. m # Control({"SYN"}, -1, 0)
  <2>1. U32(-1) = Wrap - 1
    BY UnsignedFact, UdpAssumption
  <2> QED
    BY <1>1, <2>1, MemoryAssumption, MemSlotsAssumption, UdpAssumption, SenderAssumption
       DEF Fits, Control
<1>3. PICK k \in 0..(SentLimit - 1) : m = Packet(k, k)
  BY <1>1, <1>2 DEF FromSender, Control
<1>4. k \in Nat /\ m.seq = k /\ m.data = k /\ U32(k) = k
  <2>1. k \in Nat /\ k < Wrap
    BY <1>1, <1>3, WrapAssumption, UdpAssumption, SenderAssumption
  <2> QED
    BY <1>3, <2>1, UnsignedFact DEF Packet
<1> QED
  BY <1>1, <1>3, <1>4 DEF Accept

\* It sends one header or none.  An ACK names the last packet of the file,
\* and either it has some or the packet that arrives is handed to the buffer.
LEMMA ReceiverAnswers ==
  IInv /\ ReceiverNext =>
    /\ head \in Nat /\ head' \in Nat /\ head <= head'
    /\ \/ UNCHANGED toSender
       \/ \E c \in Datagram :
            /\ toSender' = Transmit(toSender, << c >>)
            /\ "ACK" \in c.flags =>
                 /\ c.ack = head' - 1
                 /\ \/ head # 0
                    \/ \E k \in Nat : Packet(k, k) \in InFlight(toReceiver) /\ gotpacket(k, k)
<1> SUFFICES ASSUME IInv, ReceiverNext
             PROVE  /\ head \in Nat /\ head' \in Nat /\ head <= head'
                    /\ \/ UNCHANGED toSender
                       \/ \E c \in Datagram :
                            /\ toSender' = Transmit(toSender, << c >>)
                            /\ "ACK" \in c.flags =>
                                 /\ c.ack = head' - 1
                                 /\ \/ head # 0
                                    \/ \E k \in Nat : /\ Packet(k, k) \in InFlight(toReceiver)
                                                      /\ gotpacket(k, k)
  OBVIOUS
<1>1. head \in Nat
  BY WindowTyped
<1>2. ASSUME NEW bits \in SUBSET {"SYN", "FIN", "ACK"}, RSends(bits), UNCHANGED buffer,
             "ACK" \in bits => head # 0
      PROVE  /\ head' = head
             /\ \E c \in Datagram :
                  /\ toSender' = Transmit(toSender, << c >>)
                  /\ "ACK" \in c.flags => c.ack = head' - 1 /\ head # 0
  <2>1. Control(bits, -1, get_ack) \in Datagram
    BY AckTyped
  <2>2. Control(bits, -1, get_ack).flags = bits /\ Control(bits, -1, get_ack).ack = head - 1
    BY DEF Control, get_ack
  <2> QED
    BY <1>2, <2>1, <2>2 DEF RSends, buffer
<1>3. ASSUME NEW m, FinBeforeData(m) \/ FinAfterData(m) \/ FinAgain(m)
      PROVE  /\ UNCHANGED buffer /\ head # 0
             /\ RSends({"ACK"}) \/ RSends({"ACK", "FIN"})
  <2>1. RGets(m) /\ "FIN" \in m.flags /\ UNCHANGED buffer
        /\ (RSends({"ACK"}) \/ RSends({"ACK", "FIN"}))
    BY <1>3 DEF FinBeforeData, FinAfterData, FinAgain
  <2>2. head = Total
    BY <2>1, ReceiverReceives, FinArrives
  <2> QED
    BY <2>1, <2>2, SenderAssumption
<1>4. ASSUME NEW m, FirstData(m) \/ MoreData(m)
      PROVE  /\ head' \in Nat /\ head <= head'
             /\ \/ UNCHANGED toSender
                \/ \E c \in Datagram :
                     /\ toSender' = Transmit(toSender, << c >>)
                     /\ c.ack = head' - 1
                     /\ \E k \in Nat : Packet(k, k) \in InFlight(toReceiver) /\ gotpacket(k, k)
  <2>1. RGets(m) /\ Accept(m)
    BY <1>4 DEF FirstData, MoreData
  <2>2. CASE Fits(U32(m.seq))
    <3>1. PICK k \in Nat : m = Packet(k, k) /\ gotpacket(k, k)
      BY <1>4, <2>1, <2>2, AcceptsPacket
    <3>2. BufferInv' /\ head <= head'
      BY <3>1, GotPacketFact DEF IInv
    <3>3. head' \in Nat
      BY <3>2 DEF BufferInv
    <3>4. m \in InFlight(toReceiver)
      BY <2>1, ConsumeFact DEF RGets, IInv, Typed, NetworkTyped
    <3>5. PICK c \in Datagram : c = Control({"ACK"}, -1, head' - 1)
      BY <3>3, ControlTyped
    <3>6. toSender' = Transmit(toSender, << c >>) /\ c.ack = head' - 1
      BY <2>1, <2>2, <3>5 DEF Accept, get_ack, Control
    <3> QED
      BY <3>1, <3>2, <3>3, <3>4, <3>6
  <2>3. CASE ~ Fits(U32(m.seq))
    BY <1>1, <2>1, <2>3 DEF Accept, buffer
  <2> QED
    BY <2>2, <2>3
<1>5. ASSUME NEW m, ReceiverGets(m)
      PROVE  \/ FinBeforeData(m) \/ FinAfterData(m) \/ FinAgain(m)
             \/ FirstData(m) \/ MoreData(m)
             \/ UNCHANGED buffer /\ (UNCHANGED toSender \/ RSends({"SYN"}))
  BY <1>5 DEF ReceiverGets, WaitForSyn, AnswerSynAgain, LastDatagram
<1>6. ReceiverRuns \/ FinTimeout =>
        UNCHANGED buffer /\ (UNCHANGED toSender \/ RSends({"SYN"}) \/ RSends({"FIN"}))
  BY DEF ReceiverRuns, AnswerSyn, SendOwnFin, FinTimeout, network
<1>7. CASE UNCHANGED buffer /\ (UNCHANGED toSender \/ RSends({"SYN"}) \/ RSends({"FIN"}))
  BY <1>1, <1>2, <1>7 DEF buffer
<1>8. CASE \E m : FinBeforeData(m) \/ FinAfterData(m) \/ FinAgain(m)
  BY <1>1, <1>2, <1>3, <1>8
<1>9. CASE \E m : FirstData(m) \/ MoreData(m)
  BY <1>1, <1>4, <1>9
<1> QED
  BY <1>5, <1>6, <1>7, <1>8, <1>9 DEF ReceiverNext

-----------------------------------------------------------------------------
(* The first packet.                                                       *)

\* Before it is in the file the sender stands at it.
LEMMA AtFirstPacket ==
  ASSUME IInv, head = 0
  PROVE  ~ SenderClosing /\ cw_head = 0 /\ cw_head_offset = 0 /\ file_offset = 0
<1>1. ~ SenderClosing
  BY SenderAssumption DEF IInv, SenderInv
<1> QED
  BY <1>1, WindowTyped DEF IInv, SenderInv, Acked

\* What is on the way is no less in order when less is.
LEMMA FirstPacketKept ==
  ASSUME FirstPacketInv, IInv, IInv', head <= head',
         InFlight(toSender') \subseteq InFlight(toSender),
         head' = 0 => /\ sstate' \in {"s_0", "s_wait_syn", "s_slow_start", "s_time_out"}
                      /\ cw_width' = 1
                      /\ \A m \in InFlight(toReceiver') :
                           m \in InFlight(toReceiver) \/ m.flags # {} \/ m.seq = 0
  PROVE  FirstPacketInv'
<1>1. head \in Nat /\ head' = 0 => head = 0
  BY WindowTyped
<1> QED
  BY <1>1, WindowTyped DEF FirstPacketInv

\* A sender that stands at packet 0 with a window of one sends it.
LEMMA FirstPacketSends ==
  IInv /\ FirstPacketInv /\ head = 0 /\ FillWindow =>
    \A m \in InFlight(toReceiver') : m \in InFlight(toReceiver) \/ m.seq = 0
<1> SUFFICES ASSUME IInv, FirstPacketInv, head = 0, FillWindow
             PROVE  \A m \in InFlight(toReceiver') : m \in InFlight(toReceiver) \/ m.seq = 0
  OBVIOUS
<1>1. /\ ~ SenderClosing /\ cw_head = 0 /\ cw_head_offset = 0 /\ file_offset = 0
      /\ cw_width = 1 /\ next_pkt \in Nat /\ ChunkLen \in Nat \ {0}
  BY AtFirstPacket, WindowTyped DEF FirstPacketInv
<1> DEFINE end == LoopEnd(next_pkt, cw_width)
<1>2. end \in Nat /\ next_pkt <= end /\ (end = next_pkt \/ end <= 1)
  BY <1>1 DEF LoopEnd, Smaller
<1>3. toReceiver' = Transmit(toReceiver, Burst(next_pkt, end))
  BY DEF FillWindow
<1> HIDE DEF end
<1>4. /\ Burst(next_pkt, end) \in Seq(Datagram)
      /\ Len(Burst(next_pkt, end)) = end - next_pkt
      /\ \A i \in 1..(end - next_pkt) : Burst(next_pkt, end)[i].seq = 0 + next_pkt + i - 1
  BY <1>1, <1>2, BurstFact
<1>5. \A i \in 1..(end - next_pkt) : Burst(next_pkt, end)[i].seq = 0
  <2> TAKE i \in 1..(end - next_pkt)
  <2>1. next_pkt = 0 /\ i = 1
    BY <1>1, <1>2
  <2> QED
    BY <1>4, <2>1
<1>6. \A m \in Range(Burst(next_pkt, end)) : m.seq = 0
  BY <1>4, <1>5 DEF Range
<1>7. InFlight(toReceiver') \subseteq InFlight(toReceiver) \cup Range(Burst(next_pkt, end))
  BY <1>3, <1>4, TransmitFact DEF IInv, Typed, NetworkTyped
<1> QED
  BY <1>6, <1>7

\* Every step of the sender.
LEMMA FirstPacketSender ==
  IInv /\ IInv' /\ FirstPacketInv /\ SenderNext /\ UNCHANGED buffer => FirstPacketInv'
<1> SUFFICES ASSUME IInv, IInv', FirstPacketInv, SenderNext, UNCHANGED buffer
             PROVE  FirstPacketInv'
  OBVIOUS
<1>1. toSender \in Channel /\ toReceiver \in Channel /\ head' = head /\ head \in Nat
  BY WindowTyped DEF IInv, Typed, NetworkTyped, buffer
<1>2. InFlight(toSender') \subseteq InFlight(toSender)
  <2>1. toSender' = toSender \/ \E m \in Deliverable(toSender) : toSender' = Consume(toSender)
    BY DEF SenderNext, SenderGets, SenderRuns, SenderTimeout, NotSyn, GotSyn, IgnoredAck,
           DuplicateAck, InflateWindow, AdvanceWindow, CrashInPop, AwaitFinAck, AckFin, AwaitsAck,
           SGets, SendSyn, TimeOut, FillWindow, FillWindowOnce, Retransmit, CheckNextChunk,
           SendFin, SynTimeout, ReceiveTimeout, RetryFin, NoFin, network
  <2> QED
    BY <1>1, <2>1, ConsumeFact
<1>3. ASSUME head' = 0
      PROVE  /\ sstate' \in {"s_0", "s_wait_syn", "s_slow_start", "s_time_out"}
             /\ cw_width' = 1
             /\ \A m \in InFlight(toReceiver') :
                  m \in InFlight(toReceiver) \/ m.flags # {} \/ m.seq = 0
  <2>1. /\ sstate \in {"s_0", "s_wait_syn", "s_slow_start", "s_time_out"} /\ cw_width = 1
        /\ ~ SenderClosing
    BY <1>1, <1>3, AtFirstPacket DEF FirstPacketInv
  <2>2. ASSUME NEW m \in Deliverable(toSender), SenderGets(m)
        PROVE  /\ sstate' \in {"s_0", "s_wait_syn", "s_slow_start", "s_time_out"}
               /\ cw_width' = 1 /\ toReceiver' = toReceiver
    <3>1. "ACK" \notin m.flags
      <4>1. m \in InFlight(toSender) /\ m \in Datagram /\ FromReceiver(m)
        BY <1>1, ConsumeFact DEF IInv, NetworkInv
      <4>2. "ACK" \in m.flags => m.ack >= 0 /\ m.ack < 0 /\ m.ack \in Int
        BY <1>1, <1>3, <4>1 DEF FirstPacketInv, FromReceiver, Datagram
      <4> QED
        BY <4>2
    <3>2. NotSyn(m) \/ GotSyn(m) \/ IgnoredAck(m)
      BY <2>1, <2>2, <3>1 DEF SenderGets, DuplicateAck, InflateWindow, AdvanceWindow, CrashInPop,
                              AwaitFinAck, AckFin, SenderClosing
    <3> QED
      BY <2>1, <3>2 DEF NotSyn, GotSyn, IgnoredAck, AwaitsAck, SGets, Enter, window
  <2>3. CASE FillWindow
    BY <1>1, <1>3, <2>1, <2>3, FirstPacketSends DEF FillWindow
  <2>4. CASE SendSyn
    <3> DEFINE syn == Control({"SYN"}, -1, 0)
    <3>1. syn \in Datagram /\ toReceiver' = Transmit(toReceiver, << syn >>)
      BY <2>4, ControlTyped DEF SendSyn, SendsControl
    <3>2. syn.flags # {}
      <4>1. syn.flags = {"SYN"}
        BY DEF Control
      <4> QED
        BY <4>1
    <3> HIDE DEF syn
    <3>3. << syn >> \in Seq(Datagram) /\ Range(<< syn >>) = {syn}
      BY <3>1 DEF Range
    <3>4. InFlight(toReceiver') \subseteq InFlight(toReceiver) \cup {syn}
      BY <1>1, <3>1, <3>3, TransmitFact
    <3> QED
      BY <2>1, <2>4, <3>2, <3>4 DEF SendSyn
  <2>5. CASE TimeOut \/ SynTimeout \/ ReceiveTimeout
    BY <2>1, <2>5 DEF TimeOut, SynTimeout, ReceiveTimeout, Enter, network, window
  <2>6. ~ (FillWindowOnce \/ Retransmit \/ CheckNextChunk \/ SendFin \/ RetryFin \/ NoFin)
    BY <2>1 DEF FillWindowOnce, Retransmit, CheckNextChunk, SendFin, RetryFin, NoFin, SenderClosing
  <2> QED
    BY <2>2, <2>3, <2>4, <2>5, <2>6 DEF SenderNext, SenderRuns, SenderTimeout
<1> QED
  BY <1>1, <1>2, <1>3, FirstPacketKept

\* Every step of the receiver: with packet 0 its file is no longer empty.
LEMMA FirstPacketReceiver ==
  IInv /\ IInv' /\ FirstPacketInv /\ ReceiverNext /\ UNCHANGED sender => FirstPacketInv'
<1> SUFFICES ASSUME IInv, IInv', FirstPacketInv, ReceiverNext, UNCHANGED sender
             PROVE  FirstPacketInv'
  OBVIOUS
<1>1. /\ toSender \in Channel /\ toReceiver \in Channel
      /\ sstate' = sstate /\ cw_width' = cw_width
  BY DEF IInv, Typed, NetworkTyped, sender, window
<1>2. /\ head \in Nat /\ head' \in Nat /\ head <= head'
      /\ \/ UNCHANGED toSender
         \/ \E c \in Datagram :
              /\ toSender' = Transmit(toSender, << c >>)
              /\ "ACK" \in c.flags =>
                   /\ c.ack = head' - 1
                   /\ \/ head # 0
                      \/ \E k \in Nat : Packet(k, k) \in InFlight(toReceiver) /\ gotpacket(k, k)
  BY ReceiverAnswers
<1>3. InFlight(toReceiver') \subseteq InFlight(toReceiver)
  <2>1. toReceiver' = toReceiver \/ \E m : RGets(m)
    BY DEF ReceiverNext, ReceiverGets, ReceiverRuns, WaitForSyn, AnswerSynAgain, FinBeforeData,
           FirstData, MoreData, FinAfterData, FinAgain, LastDatagram, AnswerSyn, SendOwnFin,
           FinTimeout, network
  <2> QED
    BY <2>1, ReceiverReceives
<1>4. ASSUME NEW k \in Nat, Packet(k, k) \in InFlight(toReceiver), gotpacket(k, k), head = 0
      PROVE  head' >= 1
  <2>1. k = 0
    BY <1>4 DEF FirstPacketInv, Packet
  <2>2. CASE TakeHead(k, k)
    BY <1>2, <1>4, <2>1, <2>2 DEF TakeHead
  <2>3. CASE TakeRun(k, k)
    <3>1. flags \in Seq(BOOLEAN)
      BY DEF IInv, BufferInv
    <3>2. PICK n \in 1..Len(flags) : head' = head + n
      BY <2>3 DEF TakeRun
    <3> QED
      BY <1>4, <3>1, <3>2
  <2>4. ~ (FillSlot(k, k) \/ Grow(k, k) \/ Stale(k))
    BY <1>4, <2>1 DEF FillSlot, Grow, Stale
  <2> QED
    BY <1>4, <2>2, <2>3, <2>4 DEF gotpacket
<1>5. ASSUME NEW m \in InFlight(toSender'), "ACK" \in m.flags PROVE m.ack >= 0
  <2>1. CASE m \in InFlight(toSender)
    BY <1>5, <2>1 DEF FirstPacketInv
  <2>2. CASE m \notin InFlight(toSender)
    <3>1. PICK c \in Datagram :
            /\ toSender' = Transmit(toSender, << c >>)
            /\ "ACK" \in c.flags =>
                 /\ c.ack = head' - 1
                 /\ \/ head # 0
                    \/ \E k \in Nat : Packet(k, k) \in InFlight(toReceiver) /\ gotpacket(k, k)
      BY <1>2, <1>5, <2>2
    <3>2. m = c
      BY <1>5, <2>2, <3>1, ReceiverSendsOne
    <3>3. head' >= 1
      BY <1>2, <1>4, <1>5, <3>1, <3>2
    <3> QED
      BY <1>2, <1>5, <3>1, <3>2, <3>3
  <2> QED
    BY <2>1, <2>2
<1>6. head' = 0 =>
        /\ sstate' \in {"s_0", "s_wait_syn", "s_slow_start", "s_time_out"}
        /\ cw_width' = 1
        /\ \A m \in InFlight(toReceiver') : m.flags = {} => m.seq = 0
  BY <1>1, <1>2, <1>3 DEF FirstPacketInv
<1> QED
  BY <1>5, <1>6 DEF FirstPacketInv

\* Nothing but packet 0 travels until it is in the file.
LEMMA FirstPacketInvariant == Spec => []FirstPacketInv
<1>1. Init => FirstPacketInv
  <2> SUFFICES ASSUME Init PROVE FirstPacketInv
    OBVIOUS
  <2>1. InFlight(toReceiver) = {} /\ InFlight(toSender) = {}
    BY DEF Init, EmptyChannel, InFlight, Range
  <2> QED
    BY <2>1 DEF Init, SenderInit, FirstPacketInv
<1>2. IInv /\ IInv' /\ FirstPacketInv /\ [Next]_vars => FirstPacketInv'
  <2> SUFFICES ASSUME IInv, IInv', FirstPacketInv, [Next]_vars PROVE FirstPacketInv'
    OBVIOUS
  <2>1. CASE UNCHANGED vars
    BY <2>1 DEF vars, network, sender, window, buffer, FirstPacketInv
  <2>2. CASE (LoseToReceiver \/ LoseToSender) /\ UNCHANGED <<sender, receiver, buffer>>
    <3>1. /\ InFlight(toReceiver') \subseteq InFlight(toReceiver)
          /\ InFlight(toSender') \subseteq InFlight(toSender)
      BY <2>2, LossFact DEF LoseToReceiver, LoseToSender, IInv, Typed, NetworkTyped
    <3> QED
      BY <2>2, <3>1 DEF sender, window, buffer, FirstPacketInv
  <2> QED
    BY <2>1, <2>2, FirstPacketSender, FirstPacketReceiver DEF Next
<1> QED
  BY <1>1, <1>2, Invariant, PTL DEF Spec

-----------------------------------------------------------------------------
(* The order of the acknowledgements.                                      *)

\* One that is not older than those in flight, behind them.
LEMMA AcksRiseTransmit ==
  ASSUME Ordered, NEW ch \in Channel, NEW c \in Datagram, AcksRise(ch),
         "ACK" \in c.flags => \A m \in InFlight(ch) : "ACK" \in m.flags => m.ack <= c.ack
  PROVE  AcksRise(Transmit(ch, << c >>))
<1> DEFINE ms == << c >>
           sent == Transmit(ch, ms)
<1>1. ms \in Seq(Datagram) /\ Len(ms) = 1 /\ ms[1] = c
  OBVIOUS
<1> HIDE DEF ms
<1>2. /\ ch \in Seq(Datagram) /\ sent \in Seq(Datagram)
      /\ \A i \in 1..Len(sent) :
           \/ i \in 1..Len(ch) /\ sent[i] = ch[i]
           \/ /\ i > Len(ch) /\ i - Len(ch) \in 1..Len(ms)
              /\ sent[i] = ms[i - Len(ch)]
  BY <1>1, OrderedTransmit
<1> HIDE DEF sent
<1>3. \A i \in 1..Len(sent) :
        \/ i \in 1..Len(ch) /\ sent[i] = ch[i]
        \/ i = Len(ch) + 1 /\ sent[i] = c
  BY <1>1, <1>2
<1>4. ASSUME NEW i \in 1..Len(sent), NEW j \in 1..Len(sent), i < j,
             "ACK" \in sent[i].flags, "ACK" \in sent[j].flags
      PROVE  sent[i].ack <= sent[j].ack
  <2>1. i \in 1..Len(ch) /\ sent[i] = ch[i]
    BY <1>2, <1>3, <1>4
  <2>2. CASE j \in 1..Len(ch) /\ sent[j] = ch[j]
    BY <1>4, <2>1, <2>2 DEF AcksRise
  <2>3. CASE sent[j] = c
    <3>1. ch[i] \in InFlight(ch)
      BY <1>2, <2>1, InFlightOrdered
    <3> QED
      BY <1>4, <2>1, <2>3, <3>1
  <2> QED
    BY <1>3, <2>2, <2>3
<1> QED
  BY <1>4 DEF AcksRise, sent, ms

\* Those behind the first are not older than it.
LEMMA AcksRiseTail ==
  ASSUME Ordered, NEW ch \in Channel, ch # << >>, AcksRise(ch)
  PROVE  /\ AcksRise(Tail(ch))
         /\ \A m \in InFlight(Tail(ch)) :
              "ACK" \in m.flags /\ "ACK" \in ch[1].flags => ch[1].ack <= m.ack
<1>1. /\ ch \in Seq(Datagram) /\ Tail(ch) \in Seq(Datagram)
      /\ Len(ch) \in Nat \ {0} /\ Len(Tail(ch)) = Len(ch) - 1
      /\ \A i \in 1..Len(Tail(ch)) : i + 1 \in 1..Len(ch) /\ Tail(ch)[i] = ch[i + 1]
  BY OrderedTail
<1>2. ASSUME NEW i \in 1..Len(Tail(ch)), NEW j \in 1..Len(Tail(ch)), i < j,
             "ACK" \in Tail(ch)[i].flags, "ACK" \in Tail(ch)[j].flags
      PROVE  Tail(ch)[i].ack <= Tail(ch)[j].ack
  <2>1. /\ i + 1 \in 1..Len(ch) /\ j + 1 \in 1..Len(ch) /\ i + 1 < j + 1
        /\ Tail(ch)[i] = ch[i + 1] /\ Tail(ch)[j] = ch[j + 1]
    BY <1>1, <1>2
  <2> QED
    BY <1>2, <2>1 DEF AcksRise
<1>3. ASSUME NEW m \in InFlight(Tail(ch)), "ACK" \in m.flags, "ACK" \in ch[1].flags
      PROVE  ch[1].ack <= m.ack
  <2>1. PICK i \in 1..Len(Tail(ch)) : m = Tail(ch)[i]
    BY <1>1, InFlightOrdered
  <2>2. 1 \in 1..Len(ch) /\ i + 1 \in 1..Len(ch) /\ 1 < i + 1 /\ m = ch[i + 1]
    BY <1>1, <2>1
  <2> QED
    BY <1>3, <2>2 DEF AcksRise
<1>4. AcksRise(Tail(ch))
  BY <1>2 DEF AcksRise
<1> QED
  BY <1>3, <1>4

\* Taking or losing the first keeps the order of the rest.
LEMMA AckOrderTail ==
  ASSUME IInv, AckOrderInv, Ordered, toSender # << >>, toSender' = Tail(toSender),
         SenderClosing => SenderClosing', Acked' <= Acked, Acked \in Int, Acked' \in Int
  PROVE  AckOrderInv'
<1>1. toSender \in Channel /\ AcksRise(toSender)
  BY DEF IInv, Typed, NetworkTyped, AckOrderInv
<1>2. AcksRise(toSender') /\ InFlight(toSender') \subseteq InFlight(toSender)
  BY <1>1, AcksRiseTail, LossFact
<1>3. \A m \in InFlight(toSender) : m \in Datagram
  BY <1>1, InFlightOrdered DEF Channel
<1>4. ASSUME ~ SenderClosing', NEW m \in InFlight(toSender'), "ACK" \in m.flags
      PROVE  m.ack >= Acked' - 1
  <2>1. m \in Datagram /\ m.ack >= Acked - 1
    BY <1>2, <1>3, <1>4 DEF AckOrderInv
  <2> QED
    BY <2>1 DEF Datagram
<1> QED
  BY <1>2, <1>4 DEF AckOrderInv, AcksRise

\* So does a step that takes none.
LEMMA AckOrderQuiet ==
  ASSUME IInv, AckOrderInv, UNCHANGED toSender,
         SenderClosing => SenderClosing', ~ SenderClosing' => Acked' <= Acked,
         Acked \in Int, Acked' \in Int
  PROVE  AckOrderInv'
<1> SUFFICES ASSUME Ordered PROVE AckOrderInv'
  BY DEF AckOrderInv
<1>1. AcksRise(toSender')
  BY DEF AckOrderInv
<1>2. \A m \in InFlight(toSender) : m \in Datagram
  BY InFlightOrdered DEF IInv, Typed, NetworkTyped, Channel
<1>3. ASSUME ~ SenderClosing', NEW m \in InFlight(toSender'), "ACK" \in m.flags
      PROVE  m.ack >= Acked' - 1
  <2>1. m \in Datagram /\ m.ack >= Acked - 1
    BY <1>2, <1>3 DEF AckOrderInv
  <2> QED
    BY <1>3, <2>1 DEF Datagram
<1> QED
  BY <1>1, <1>3 DEF AckOrderInv, AcksRise

\* Where the sender stands, before and after.
LEMMA AckedTyped == IInv /\ IInv' => Acked \in Int /\ Acked' \in Int
BY DEF IInv, Typed, SenderTyped, Acked

\* Every step of the sender.
LEMMA AckOrderSender ==
  IInv /\ IInv' /\ AckOrderInv /\ SenderNext => AckOrderInv'
<1> SUFFICES ASSUME IInv, IInv', AckOrderInv, SenderNext, Ordered PROVE AckOrderInv'
  BY DEF AckOrderInv
<1>1. /\ Acked \in Int /\ Acked' \in Int /\ cw_head \in Nat /\ cw_head_offset \in Nat
      /\ toSender \in Channel
  BY AckedTyped, WindowTyped DEF IInv, Typed, NetworkTyped
<1>2. ASSUME NEW m \in Deliverable(toSender), SenderGets(m) PROVE AckOrderInv'
  <2>1. toSender # << >> /\ m = toSender[1] /\ toSender' = Tail(toSender)
    <3>1. toSender' = Consume(toSender)
      BY <1>2 DEF SenderGets, NotSyn, GotSyn, IgnoredAck, DuplicateAck, InflateWindow,
            AdvanceWindow, CrashInPop, AwaitFinAck, AckFin, AwaitsAck, SGets
    <3> QED
      BY <1>1, <1>2, <3>1, OrderedConsume
  <2>2. CASE AdvanceWindow(m)
    <3>1. /\ sstate' \notin {"s_ready_send_fin", "Finished"}
          /\ m \in Datagram /\ "ACK" \in m.flags
          /\ UNCHANGED chunk
          /\ cw_head' = m.ack - cw_head_offset + 1
      BY <2>2, AdvancesTo
    <3>2. Acked' = m.ack + 1
      BY <1>1, <3>1 DEF Acked, chunk, Datagram
    <3>3. AcksRise(toSender)
      BY DEF AckOrderInv
    <3>4. /\ AcksRise(toSender')
          /\ \A a \in InFlight(toSender') : "ACK" \in a.flags => m.ack <= a.ack
      BY <1>1, <2>1, <3>1, <3>3, AcksRiseTail
    <3>5. \A a \in InFlight(toSender') : a \in Datagram
      BY DEF IInv, Typed, NetworkTyped, Channel, InFlight, Range
    <3>6. ASSUME NEW a \in InFlight(toSender'), "ACK" \in a.flags PROVE a.ack >= Acked' - 1
      BY <3>1, <3>2, <3>4, <3>5, <3>6 DEF Datagram
    <3> QED
      BY <3>4, <3>6 DEF AckOrderInv, AcksRise
  <2>3. CASE ~ AdvanceWindow(m)
    <3>1. /\ UNCHANGED chunk
          /\ cw_head' \in {0, cw_head}
          /\ SenderClosing => SenderClosing'
      BY <1>2, <2>3 DEF SenderGets, NotSyn, GotSyn, IgnoredAck, DuplicateAck, InflateWindow,
            CrashInPop, AwaitFinAck, AckFin, Finish, Enter, AwaitsAck, SGets, SenderClosing,
            Sending, window
    <3>2. cw_head_offset' = cw_head_offset /\ (cw_head' = 0 \/ cw_head' = cw_head)
      BY <3>1 DEF chunk
    <3>3. cw_head_offset' + cw_head' <= cw_head_offset + cw_head
      BY <1>1, <3>2
    <3>4. Acked' <= Acked
      BY <3>3 DEF Acked
    <3> QED
      BY <1>1, <2>1, <3>1, <3>4, AckOrderTail
  <2> QED
    BY <2>2, <2>3
<1>3. CASE SenderRuns \/ SenderTimeout
  <2>1. /\ UNCHANGED toSender
        /\ SenderClosing => SenderClosing'
        /\ ~ SenderClosing' => cw_head_offset' + cw_head' = cw_head_offset + cw_head
    <3>1. CASE CheckNextChunk
      <4>1. /\ sstate = "s_check_next_chunk" /\ UNCHANGED network
            /\ \/ sstate' = "s_ready_send_fin"
               \/ cw_head_offset' = cw_head_offset + cw_head /\ cw_head' = 0
        BY <3>1 DEF CheckNextChunk, Enter
      <4> QED
        BY <1>1, <4>1 DEF SenderClosing, network
    <3>2. CASE ~ CheckNextChunk
      <4>1. /\ UNCHANGED <<toSender, cw_head, cw_head_offset>>
            /\ SenderClosing => SenderClosing'
        BY <1>3, <3>2 DEF SenderRuns, SenderTimeout, SendSyn, TimeOut, FillWindow, FillWindowOnce,
              Retransmit, SendFin, SynTimeout, ReceiveTimeout, RetryFin, NoFin, Finish, Enter,
              network, window, chunk, SenderClosing, Sending
      <4> QED
        BY <4>1
    <3> QED
      BY <3>1, <3>2
  <2>2. ~ SenderClosing' => Acked' <= Acked
    BY <1>1, <2>1 DEF Acked
  <2> QED
    BY <1>1, <2>1, <2>2, AckOrderQuiet
<1> QED
  BY <1>2, <1>3 DEF SenderNext

\* Every step of the receiver: what it acknowledges covers what it
\* acknowledged before.
LEMMA AckOrderReceiver ==
  IInv /\ IInv' /\ AckOrderInv /\ ReceiverNext /\ UNCHANGED sender => AckOrderInv'
<1> SUFFICES ASSUME IInv, IInv', AckOrderInv, ReceiverNext, UNCHANGED sender, Ordered
             PROVE  AckOrderInv'
  BY DEF AckOrderInv
<1>1. /\ Acked \in Int /\ Acked' = Acked /\ SenderClosing' = SenderClosing
      /\ toSender \in Channel
  BY AckedTyped DEF IInv, Typed, NetworkTyped, sender, window, chunk, Acked, SenderClosing
<1>2. /\ head \in Nat /\ head' \in Nat /\ head <= head'
      /\ \/ UNCHANGED toSender
         \/ \E c \in Datagram :
              /\ toSender' = Transmit(toSender, << c >>)
              /\ "ACK" \in c.flags => c.ack = head' - 1
  BY ReceiverAnswers
<1>3. CASE UNCHANGED toSender
  BY <1>1, <1>3, AckOrderQuiet
<1>4. CASE \E c \in Datagram :
             /\ toSender' = Transmit(toSender, << c >>)
             /\ "ACK" \in c.flags => c.ack = head' - 1
  <2>1. PICK c \in Datagram :
          /\ toSender' = Transmit(toSender, << c >>)
          /\ "ACK" \in c.flags => c.ack = head' - 1
    BY <1>4
  <2>2. \A m \in InFlight(toSender) : m \in Datagram /\ ("ACK" \in m.flags => m.ack < head)
    BY <1>1, InFlightOrdered DEF Channel, IInv, NetworkInv, FromReceiver
  <2>3. \A m \in InFlight(toSender) : "ACK" \in m.flags /\ "ACK" \in c.flags => m.ack <= c.ack
    BY <1>2, <2>1, <2>2 DEF Datagram
  <2>4. AcksRise(toSender)
    BY DEF AckOrderInv
  <2>5. AcksRise(toSender')
    BY <1>1, <2>1, <2>3, <2>4, AcksRiseTransmit
  <2>6. \A m \in InFlight(toSender') : m \in InFlight(toSender) \/ m = c
    BY <2>1, ReceiverSendsOne
  <2>7. ASSUME ~ SenderClosing', NEW m \in InFlight(toSender'), "ACK" \in m.flags
        PROVE  m.ack >= Acked' - 1
    <3>1. CASE m \in InFlight(toSender)
      BY <1>1, <2>7, <3>1 DEF AckOrderInv
    <3>2. CASE m = c
      <4>1. Acked' <= head'
        BY <2>7 DEF IInv, SenderInv
      <4> QED
        BY <1>1, <1>2, <2>1, <2>7, <3>2, <4>1
    <3> QED
      BY <2>6, <3>1, <3>2
  <2> QED
    BY <2>5, <2>7 DEF AckOrderInv, AcksRise
<1> QED
  BY <1>2, <1>3, <1>4

\* On a path that keeps the order the acknowledgements never fall.
LEMMA AckOrderInvariant == Spec => []AckOrderInv
<1>1. Init => AckOrderInv
  <2> SUFFICES ASSUME Init, Ordered PROVE AckOrderInv
    BY DEF AckOrderInv
  <2>1. InFlight(toSender) = {} /\ Len(toSender) = 0
    BY DEF Init, EmptyChannel, InFlight, Range
  <2> QED
    BY <2>1 DEF AckOrderInv, AcksRise
<1>2. IInv /\ IInv' /\ AckOrderInv /\ [Next]_vars => AckOrderInv'
  <2> SUFFICES ASSUME IInv, IInv', AckOrderInv, [Next]_vars PROVE AckOrderInv'
    OBVIOUS
  <2>1. CASE UNCHANGED <<sender, toSender>>
    BY <2>1 DEF sender, window, chunk, AckOrderInv, AcksRise, Acked, SenderClosing
  <2>2. CASE LoseToSender /\ UNCHANGED sender
    <3>1. Acked \in Int /\ Acked' = Acked /\ SenderClosing' = SenderClosing
      BY <2>2, AckedTyped DEF sender, window, chunk, Acked, SenderClosing
    <3> QED
      BY <2>2, <3>1, AckOrderTail DEF LoseToSender
  <2> QED
    BY <2>1, <2>2, AckOrderSender, AckOrderReceiver DEF Next, vars, network, LoseToReceiver
<1> QED
  BY <1>1, <1>2, Invariant, PTL DEF Spec

\* An acknowledgement that counts as new is new: one older than the chunk,
\* which wraps around, is at most one packet old on a path that keeps the
\* order, and there is none in the first chunk.
THEOREM StaleAcksAreRecognised == Spec => []StaleAckRecognised
<1>1. IInv /\ FirstPacketInv /\ AckOrderInv => StaleAckRecognised
  <2> SUFFICES ASSUME IInv, FirstPacketInv, AckOrderInv, Ordered \/ file_offset = 0,
                      NEW m \in InFlight(toSender), sstate \in Sending, "ACK" \in m.flags,
                      NewAck(m) > LastAcked
               PROVE  m.ack >= Acked
    BY DEF StaleAckRecognised
  <2> DEFINE rel == m.ack - cw_head_offset
  <2>1. ~ SenderClosing
    BY DEF SenderClosing, Sending
  <2>2. /\ cw_head \in Nat /\ cw_head_offset \in Nat /\ head \in Nat /\ file_offset \in Nat
        /\ cw_head_offset = file_offset /\ cw_head_offset + cw_head <= head
        /\ head <= Total /\ Total \in Nat /\ Wrap \in Nat /\ Total < Wrap
    BY <2>1, WindowTyped, HeadBound, SenderAssumption, UdpAssumption, WrapAssumption
       DEF IInv, SenderInv, Acked
  <2>3. FromReceiver(m) /\ m \in Datagram
    BY DEF IInv, NetworkInv, Typed, NetworkTyped, Channel, InFlight, Range
  <2>4. m.ack \in Int /\ m.ack < head
    BY <2>3 DEF FromReceiver, Datagram
  <2>5. CASE sstate = "s_slow_start"
    BY <2>2, <2>4, <2>5 DEF NewAck, LastAcked, Unsigned, Acked
  <2>6. CASE sstate # "s_slow_start"
    <3>1. NewAck(m) = U32(rel) /\ LastAcked = U32(cw_head - 1)
      BY <2>6 DEF NewAck, LastAcked, Unsigned
    <3>2. rel \in Int /\ rel < Wrap
      BY <2>2, <2>4
    <3>3. cw_head # 0
      <4>1. U32(-1) = Wrap - 1 /\ U32(rel) < Wrap /\ U32(rel) \in Int
        BY <2>2, <3>2, UnsignedFact, UdpAssumption DEF U32
      <4>2. cw_head = 0 => cw_head - 1 = -1
        OBVIOUS
      <4> QED
        BY <2>2, <3>1, <4>1, <4>2
    <3>4. LastAcked = cw_head - 1
      <4>1. cw_head - 1 \in Int /\ 0 <= cw_head - 1 /\ cw_head - 1 < Wrap
        BY <2>2, <3>3
      <4> QED
        BY <3>1, <4>1, UnsignedFact
    <3>5. rel >= 0
      <4>1. CASE file_offset = 0
        BY <2>2, <2>4, <4>1 DEF FirstPacketInv
      <4>2. CASE Ordered
        BY <2>1, <2>2, <2>4, <3>3, <4>2 DEF AckOrderInv, Acked
      <4> QED
        BY <4>1, <4>2
    <3>6. NewAck(m) = rel
      BY <3>1, <3>2, <3>5, UnsignedFact
    <3> QED
      BY <2>2, <2>4, <3>4, <3>6 DEF Acked
  <2> QED
    BY <2>5, <2>6
<1> QED
  BY <1>1, Invariant, FirstPacketInvariant, AckOrderInvariant, PTL
=================================================================================
