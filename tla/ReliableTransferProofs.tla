------------------------ MODULE ReliableTransferProofs ------------------------
(***************************************************************************)
(* Proofs about ReliableTransfer, for every size of file, chunk, window,   *)
(* channel and memory, and for both kinds of network.                      *)
(* At the end, OpenReceiver: the receiver with any senders on its port.    *)
(***************************************************************************)
EXTENDS ReliableTransfer, PacketsBufferProofs, TLAPS

-----------------------------------------------------------------------------
(* The network: sending adds at most what is sent, receiving adds nothing. *)

\* What is in flight after sending was in flight before or has just been sent.
LEMMA TransmitFact ==
  ASSUME NEW ch \in Channel, NEW ms \in Seq(Datagram)
  PROVE  /\ Transmit(ch, ms) \in Channel
         /\ InFlight(Transmit(ch, ms)) \subseteq InFlight(ch) \cup Range(ms)
<1>1. CASE ~ Ordered
  BY <1>1 DEF Transmit, Channel, InFlight, Range
<1>2. CASE Ordered
  <2> DEFINE queue == ch \o ms
             n == Smaller(Len(queue), Capacity)
  <2>1. /\ ch \in Seq(Datagram)
        /\ queue \in Seq(Datagram)
        /\ Transmit(ch, ms) = SubSeq(queue, 1, n)
        /\ n \in 0..Len(queue)
    BY <1>2, UdpAssumption DEF Channel, Transmit, Smaller
  <2>2. /\ SubSeq(queue, 1, n) \in Seq(Datagram)
        /\ Len(SubSeq(queue, 1, n)) = n
        /\ \A i \in 1..n : SubSeq(queue, 1, n)[i] = queue[i]
    BY <2>1
  <2>3. \A i \in 1..n : queue[i] \in Range(ch) \cup Range(ms)
    BY <2>1 DEF Range
  <2> QED
    BY <1>2, <2>1, <2>2, <2>3, SMTT(30) DEF Channel, InFlight, Range
<1> QED
  BY <1>1, <1>2

\* What is in flight after receiving was in flight before.
LEMMA ConsumeFact ==
  ASSUME NEW ch \in Channel, NEW m \in Deliverable(ch)
  PROVE  /\ m \in Datagram
         /\ m \in InFlight(ch)
         /\ Consume(ch) \in Channel
         /\ InFlight(Consume(ch)) \subseteq InFlight(ch)
<1>1. CASE ~ Ordered
  BY <1>1 DEF Deliverable, Consume, Channel, InFlight
<1>2. CASE Ordered
  <2>1. /\ ch \in Seq(Datagram)
        /\ ch # << >>
        /\ m = ch[1]
        /\ Consume(ch) = Tail(ch)
    BY <1>2 DEF Deliverable, Consume, Channel
  <2>2. /\ Tail(ch) \in Seq(Datagram)
        /\ \A i \in DOMAIN Tail(ch) : i + 1 \in DOMAIN ch /\ Tail(ch)[i] = ch[i + 1]
        /\ 1 \in DOMAIN ch
    BY <2>1
  <2> QED
    BY <1>2, <2>1, <2>2 DEF Channel, InFlight, Range
<1> QED
  BY <1>1, <1>2

\* A loss adds no datagram.
LEMMA LossFact ==
  ASSUME NEW ch \in Channel, Ordered, ch # << >>
  PROVE  /\ Tail(ch) \in Channel
         /\ InFlight(Tail(ch)) \subseteq InFlight(ch)
<1>1. /\ ch \in Seq(Datagram)
      /\ Tail(ch) \in Seq(Datagram)
      /\ \A i \in DOMAIN Tail(ch) : i + 1 \in DOMAIN ch /\ Tail(ch)[i] = ch[i + 1]
  BY DEF Channel
<1> QED
  BY <1>1 DEF Channel, InFlight, Range


-----------------------------------------------------------------------------
(***************************************************************************)
(* The inductive invariant.  What it adds to the properties is what is in  *)
(* flight: data only of packets below SentLimit, acknowledgements only of  *)
(* packets in the file, a FIN only once the file is whole, and the ACK of  *)
(* the receiver's FIN only once it closes.                                 *)
(***************************************************************************)

\* The end, in the file, of the chunk the sender is at.
SentLimit == Smaller(file_offset + ChunkPkts, Total)

SenderTyped ==
  /\ sstate \in SState
  /\ sphase \in {"run", "recv", "recv_fin"}
  /\ cw_head \in Nat
  /\ cw_width \in Nat \ {0}
  /\ next_pkt \in Nat
  /\ ssthresh \in Nat
  /\ dupAckCnt \in Nat
  /\ time_q \in Int
  /\ cw_head_offset \in Nat
  /\ file_offset \in Nat

ReceiverTyped ==
  /\ rstate \in RState
  /\ rphase \in {"run", "recv"}

NetworkTyped ==
  /\ toReceiver \in Channel
  /\ toSender \in Channel

SenderInv ==
  /\ ~ SenderClosing => /\ cw_head_offset = file_offset
                        /\ file_offset < Total
                        /\ Acked <= head
  /\ SenderClosing => head = Total
  /\ sstate = "s_check_next_chunk" => cw_head >= ChunkLen
  /\ time_q <= MaxQueue

ReceiverInv ==
  /\ after_tail <= SentLimit
  /\ ReceiverClosing => head = Total

FromSender(m) ==
  \/ \E k \in 0..(SentLimit - 1) : m = Packet(k, k)
  \/ m = Control({"SYN"}, -1, 0)
  \/ m = Control({"FIN"}, -2, 0) /\ head = Total
  \/ m = Control({"ACK"}, -2, 0) /\ ReceiverClosing

FromReceiver(m) ==
  /\ "ACK" \in m.flags => -1 <= m.ack /\ m.ack < head
  /\ "FIN" \in m.flags => ReceiverClosing

NetworkInv ==
  /\ \A m \in InFlight(toReceiver) : FromSender(m)
  /\ \A m \in InFlight(toSender) : FromReceiver(m)

Typed == SenderTyped /\ ReceiverTyped /\ NetworkTyped

IInv ==
  /\ Typed
  /\ BufferInv
  /\ SenderInv
  /\ ReceiverInv
  /\ NetworkInv

-----------------------------------------------------------------------------
(* Sending and receiving, in terms of the invariant.                       *)

\* A burst of datagrams the sender may send now.
SentOK(ms) ==
  /\ ms \in Seq(Datagram)
  /\ \A i \in 1..Len(ms) : FromSender(ms[i])

AllFromSender(ch) == \A m \in InFlight(ch) : FromSender(m)

\* Sending datagrams that are in order keeps the channel to the receiver in order.
LEMMA SentOKTransmit ==
  ASSUME NEW ch \in Channel, NEW ms, SentOK(ms), AllFromSender(ch)
  PROVE  Transmit(ch, ms) \in Channel /\ AllFromSender(Transmit(ch, ms))
<1>1. ms \in Seq(Datagram) /\ \A m \in Range(ms) : FromSender(m)
  BY DEF SentOK, Range
<1>2. /\ Transmit(ch, ms) \in Channel
      /\ InFlight(Transmit(ch, ms)) \subseteq InFlight(ch) \cup Range(ms)
  BY <1>1, TransmitFact
<1> QED
  BY <1>1, <1>2 DEF AllFromSender

\* The same of two bursts in a row.
LEMMA SentOKConcat ==
  ASSUME NEW a, NEW b, SentOK(a), SentOK(b)
  PROVE  SentOK(a \o b)
<1>1. a \in Seq(Datagram) /\ b \in Seq(Datagram)
  BY DEF SentOK
<1>2. /\ a \o b \in Seq(Datagram)
      /\ Len(a \o b) = Len(a) + Len(b)
      /\ \A i \in 1..Len(a) : (a \o b)[i] = a[i]
      /\ \A i \in (Len(a) + 1)..(Len(a) + Len(b)) : (a \o b)[i] = b[i - Len(a)]
  BY <1>1, ConcatFact
<1>3. ASSUME NEW i \in 1..Len(a \o b)
      PROVE  FromSender((a \o b)[i])
  <2>1. CASE i \in 1..Len(a)
    BY <1>2, <2>1 DEF SentOK
  <2>2. CASE i \notin 1..Len(a)
    <3>1. /\ i \in (Len(a) + 1)..(Len(a) + Len(b))
          /\ i - Len(a) \in 1..Len(b)
      BY <1>1, <1>2, <1>3, <2>2
    <3> QED
      BY <1>2, <3>1 DEF SentOK
  <2> QED
    BY <2>1, <2>2
<1> QED
  BY <1>2, <1>3 DEF SentOK

\* The same of a single datagram.
LEMMA SentOKOne ==
  ASSUME NEW m \in Datagram, FromSender(m)
  PROVE  SentOK(<< m >>)
BY DEF SentOK

\* A data packet is a datagram.
LEMMA PacketTyped ==
  ASSUME NEW a \in Int, NEW b \in Int
  PROVE  Packet(a, b) \in Datagram
BY DEF Packet, Datagram

\* A control packet is a datagram.
LEMMA ControlTyped ==
  ASSUME NEW bits \in SUBSET {"SYN", "FIN", "ACK"}, NEW a \in Int, NEW b \in Int
  PROVE  Control(bits, a, b) \in Datagram
BY DEF Control, Datagram, NoData

\* Where a sender that has not sent its FIN stands in the file.
LEMMA Position ==
  ASSUME IInv, ~ SenderClosing
  PROVE  /\ ChunkLen \in Nat \ {0}
         /\ cw_head_offset = file_offset
         /\ SentLimit = file_offset + ChunkLen
         /\ SentLimit <= Total
         /\ cw_head <= ChunkLen
BY UdpAssumption, SenderAssumption
   DEF IInv, Typed, SenderTyped, BufferInv, SenderInv, ReceiverInv, ChunkLen,
       SentLimit, Smaller, Acked

\* A data packet carries the bytes its sequence number stands for.
LEMMA DataPacketOK ==
  ASSUME IInv, ~ SenderClosing, NEW k \in Nat, k < ChunkLen
  PROVE  DataPacket(k) \in Datagram /\ FromSender(DataPacket(k))
<1>1. file_offset \in Nat
  BY DEF IInv, Typed, SenderTyped
<1>2. /\ DataPacket(k) = Packet(file_offset + k, file_offset + k)
      /\ file_offset + k \in 0..(SentLimit - 1)
  BY <1>1, Position DEF DataPacket
<1> QED
  BY <1>1, <1>2, PacketTyped DEF FromSender

\* So do the packets of a burst.
LEMMA BurstOK ==
  ASSUME IInv, ~ SenderClosing, NEW from \in Nat, NEW to \in Nat,
         from <= to, from = to \/ to <= ChunkLen
  PROVE  SentOK(Burst(from, to))
<1>1. ChunkLen \in Nat
  BY Position
<1>2. \A i \in 1..(to - from) :
        /\ DataPacket(from + i - 1) \in Datagram
        /\ FromSender(DataPacket(from + i - 1))
  <2> TAKE i \in 1..(to - from)
  <2>1. from + i - 1 \in Nat /\ from + i - 1 < ChunkLen
    BY <1>1
  <2> QED
    BY <2>1, DataPacketOK
<1> DEFINE P(i) == DataPacket(from + i - 1)
<1>3. Burst(from, to) = [i \in 1..(to - from) |-> P(i)]
  BY DEF Burst
<1> HIDE DEF P
<1>4. to - from \in Nat
  OBVIOUS
<1>5. \A i \in 1..(to - from) : P(i) \in Datagram /\ FromSender(P(i))
  BY <1>2 DEF P
<1>6. /\ Burst(from, to) \in Seq(Datagram)
      /\ Len(Burst(from, to)) = to - from
      /\ \A i \in 1..(to - from) : Burst(from, to)[i] = P(i)
  BY <1>3, <1>4, <1>5
<1> QED
  BY <1>5, <1>6 DEF SentOK

\* Where the send loop ends.
LEMMA LoopEndFact ==
  ASSUME IInv, ~ SenderClosing, NEW from \in Nat, NEW width \in Nat
  PROVE  LET end == LoopEnd(from, width)
         IN  /\ end \in Nat
             /\ from <= end
             /\ from = end \/ end <= ChunkLen
<1>1. ChunkLen \in Nat /\ cw_head \in Nat
  BY Position DEF IInv, Typed, SenderTyped
<1> QED
  BY <1>1 DEF LoopEnd, Smaller

-----------------------------------------------------------------------------
(* The steps of the sender.                                                *)

\* A step of the sender keeps the invariant if it keeps the sender's part,
\* sends only what may be sent, and receives.
LEMMA SentLimitGrows ==
  ASSUME file_offset \in Nat, file_offset' \in Nat, file_offset <= file_offset'
  PROVE  SentLimit \in Int /\ SentLimit' \in Int /\ SentLimit <= SentLimit'
<1>1. \A a, b \in Nat : a <= b =>
        /\ Smaller(a + ChunkPkts, Total) \in Int
        /\ Smaller(b + ChunkPkts, Total) \in Int
        /\ Smaller(a + ChunkPkts, Total) <= Smaller(b + ChunkPkts, Total)
  BY SenderAssumption DEF Smaller
<1> QED
  BY <1>1 DEF SentLimit

SenderEffect ==
  /\ UNCHANGED <<receiver, buffer>>
  /\ SenderTyped'
  /\ SenderInv'
  /\ file_offset <= file_offset'

NetworkEffect ==
  /\ toReceiver' \in Channel
  /\ AllFromSender(toReceiver')
  /\ toSender' \in Channel
  /\ InFlight(toSender') \subseteq InFlight(toSender)

\* A step of the sender that leaves the conditions on its own state and on what it sends intact keeps the invariant.
LEMMA SenderFrame ==
  IInv /\ SenderEffect /\ NetworkEffect => IInv'
<1>a. SUFFICES ASSUME IInv, SenderEffect, NetworkEffect
               PROVE  IInv'
  OBVIOUS
<1>1. /\ ReceiverTyped' /\ BufferInv'
      /\ rstate' = rstate /\ head' = head /\ after_tail' = after_tail
  BY <1>a DEF SenderEffect, IInv, Typed, ReceiverTyped, BufferInv, FileIntegrity,
              BufferAligned, receiver, buffer
<1>2. SentLimit \in Int /\ SentLimit' \in Int /\ SentLimit <= SentLimit'
  BY <1>a, SentLimitGrows DEF SenderEffect, IInv, Typed, SenderTyped
<1>3. ReceiverInv'
  BY <1>1, <1>2, <1>a DEF IInv, ReceiverInv, BufferInv, ReceiverClosing
<1>4. \A m : FromSender(m) => FromSender(m)'
  <2>0. \A a, b \in Int : a <= b => \A k \in 0..(a - 1) : k \in 0..(b - 1)
    OBVIOUS
  <2>1. \A k \in 0..(SentLimit - 1) : k \in 0..(SentLimit' - 1)
    BY <1>2, <2>0
  <2>2. ASSUME NEW m, FromSender(m)
        PROVE  FromSender(m)'
    <3>1. CASE \E k \in 0..(SentLimit - 1) : m = Packet(k, k)
      BY <2>1, <3>1 DEF FromSender
    <3>2. CASE ~ \E k \in 0..(SentLimit - 1) : m = Packet(k, k)
      BY <1>1, <2>2, <3>2 DEF FromSender, ReceiverClosing
    <3> QED
      BY <3>1, <3>2
  <2> QED
    BY <2>2
<1>5. \A m : FromReceiver(m) => FromReceiver(m)'
  BY <1>1 DEF FromReceiver, ReceiverClosing
<1>6. \A m \in InFlight(toReceiver') : FromSender(m)'
  BY <1>4, <1>a DEF NetworkEffect, AllFromSender
<1>7. \A m \in InFlight(toSender') : FromReceiver(m)'
  BY <1>5, <1>a DEF NetworkEffect, IInv, NetworkInv
<1>8. NetworkInv'
  BY <1>6, <1>7 DEF NetworkInv
<1>9. NetworkTyped'
  BY <1>a DEF NetworkEffect, NetworkTyped
<1> QED
  BY <1>1, <1>3, <1>8, <1>9, <1>a DEF SenderEffect, IInv, Typed

\* The network when the sender receives.
LEMMA SenderReceives ==
  ASSUME NEW m
  PROVE  IInv /\ SGets(m) => FromReceiver(m) /\ m \in Datagram /\ NetworkEffect
BY ConsumeFact
   DEF SGets, IInv, Typed, NetworkTyped, NetworkInv, AllFromSender, NetworkEffect

\* The network when the sender sends.
LEMMA SenderSends ==
  ASSUME NEW ms
  PROVE  IInv /\ SentOK(ms) /\ toReceiver' = Transmit(toReceiver, ms) /\ UNCHANGED toSender
           => NetworkEffect
BY SentOKTransmit
   DEF IInv, Typed, NetworkTyped, NetworkInv, AllFromSender, NetworkEffect

\* The network when the sender does neither.
LEMMA SenderQuiet ==
  IInv /\ UNCHANGED network => NetworkEffect
BY DEF IInv, Typed, NetworkTyped, NetworkInv, AllFromSender, NetworkEffect, network

(* The handshake. *)

\* SendSyn keeps the invariant.
LEMMA SendSynStep ==
  IInv /\ SendSyn /\ UNCHANGED <<receiver, buffer>> => IInv'
<1>a. SUFFICES ASSUME IInv, SendSyn, UNCHANGED <<receiver, buffer>>
               PROVE  IInv'
  OBVIOUS
<1>1. SentOK(<< Control({"SYN"}, -1, 0) >>)
  BY ControlTyped, SentOKOne DEF FromSender
<1>2. NetworkEffect
  BY <1>1, <1>a, SenderSends DEF SendSyn, SendsControl
<1>3. SenderEffect
  BY <1>a DEF SendSyn, ExtraPushes, SenderEffect, SenderTyped, SenderInv, IInv, Typed,
              SenderClosing, SState, Acked, chunk, buffer
<1> QED
  BY <1>2, <1>3, <1>a, SenderFrame

\* SynTimeout keeps the invariant.
LEMMA SynTimeoutStep ==
  IInv /\ SynTimeout /\ UNCHANGED <<receiver, buffer>> => IInv'
<1>a. SUFFICES ASSUME IInv, SynTimeout, UNCHANGED <<receiver, buffer>>
               PROVE  IInv'
  OBVIOUS
<1>1. SenderEffect
  BY <1>a, SenderAssumption
     DEF SynTimeout, Enter, SenderEffect, SenderTyped, SenderInv, IInv, Typed,
              SenderClosing, SState, Acked, chunk, buffer
<1> QED
  BY <1>1, <1>a, SenderQuiet, SenderFrame DEF SynTimeout

\* NotSyn keeps the invariant.
LEMMA NotSynStep ==
  ASSUME NEW m
  PROVE  IInv /\ NotSyn(m) /\ UNCHANGED <<receiver, buffer>> => IInv'
<1>a. SUFFICES ASSUME IInv, NotSyn(m), UNCHANGED <<receiver, buffer>>
               PROVE  IInv'
  OBVIOUS
<1>1. SenderEffect
  BY <1>a, SenderAssumption
     DEF NotSyn, SGets, Enter, SenderEffect, SenderTyped, SenderInv, IInv, Typed,
              SenderClosing, SState, Acked, chunk, buffer
<1> QED
  BY <1>1, <1>a, SenderReceives, SenderFrame DEF NotSyn

\* GotSyn keeps the invariant.
LEMMA GotSynStep ==
  ASSUME NEW m
  PROVE  IInv /\ GotSyn(m) /\ UNCHANGED <<receiver, buffer>> => IInv'
<1>a. SUFFICES ASSUME IInv, GotSyn(m), UNCHANGED <<receiver, buffer>>
               PROVE  IInv'
  OBVIOUS
<1>1. SenderEffect
  BY <1>a, SenderAssumption
     DEF GotSyn, SGets, Enter, SenderEffect, SenderTyped, SenderInv, IInv, Typed,
         SenderClosing, SState, Sending, Acked, chunk, buffer, BufferInv
<1> QED
  BY <1>1, <1>a, SenderReceives, SenderFrame DEF GotSyn

(* The send loops. *)

\* TimeOut keeps the invariant.
LEMMA TimeOutStep ==
  IInv /\ TimeOut /\ UNCHANGED <<receiver, buffer>> => IInv'
<1>a. SUFFICES ASSUME IInv, TimeOut, UNCHANGED <<receiver, buffer>>
               PROVE  IInv'
  OBVIOUS
<1>1. ssthresh' \in Nat
  BY <1>a DEF TimeOut, IInv, Typed, SenderTyped
<1>2. SenderEffect
  BY <1>a, <1>1, SenderAssumption
     DEF TimeOut, Enter, SenderEffect, SenderTyped, SenderInv, IInv, Typed,
         SenderClosing, SState, Sending, Acked, chunk, buffer
<1> QED
  BY <1>2, <1>a, SenderQuiet, SenderFrame DEF TimeOut

\* FillWindow keeps the invariant.
LEMMA FillWindowStep ==
  IInv /\ FillWindow /\ UNCHANGED <<receiver, buffer>> => IInv'
<1>a. SUFFICES ASSUME IInv, FillWindow, UNCHANGED <<receiver, buffer>>
               PROVE  IInv'
  OBVIOUS
<1> DEFINE end == LoopEnd(next_pkt, cw_width)
<1>0. next_pkt \in Nat /\ cw_width \in Nat /\ ~ SenderClosing
  BY <1>a DEF IInv, Typed, SenderTyped, FillWindow, SenderClosing
<1>1. end \in Nat /\ next_pkt <= end /\ (next_pkt = end \/ end <= ChunkLen)
  BY <1>0, <1>a, LoopEndFact
<1>2. /\ toReceiver' = Transmit(toReceiver, Burst(next_pkt, end))
      /\ UNCHANGED toSender
      /\ next_pkt' = end
      /\ time_q' \in Int
  BY <1>0, <1>1, <1>a DEF FillWindow, ExtraPushes, IInv, Typed, SenderTyped
<1> HIDE DEF end
<1>3. SentOK(Burst(next_pkt, end))
  BY <1>0, <1>1, <1>a, BurstOK
<1>4. NetworkEffect
  BY <1>2, <1>3, <1>a, SenderSends
<1>5. SenderEffect
  BY <1>a, <1>1, <1>2, SenderAssumption
     DEF FillWindow, SenderEffect, SenderTyped, SenderInv, IInv, Typed,
         SenderClosing, SState, Sending, Acked, chunk, buffer
<1> QED
  BY <1>4, <1>5, <1>a, SenderFrame

\* FillWindowOnce keeps the invariant.
LEMMA FillWindowOnceStep ==
  IInv /\ FillWindowOnce /\ UNCHANGED <<receiver, buffer>> => IInv'
<1>a. SUFFICES ASSUME IInv, FillWindowOnce, UNCHANGED <<receiver, buffer>>
               PROVE  IInv'
  OBVIOUS
<1> DEFINE end == LoopEnd(next_pkt, cw_width)
<1>0. next_pkt \in Nat /\ cw_width \in Nat /\ time_q \in Int /\ ~ SenderClosing
  BY <1>a DEF IInv, Typed, SenderTyped, FillWindowOnce, SenderClosing
<1>1. end \in Nat /\ next_pkt <= end /\ (next_pkt = end \/ end <= ChunkLen)
  BY <1>0, <1>a, LoopEndFact
<1>2. /\ \/ toReceiver' = Transmit(toReceiver, Burst(next_pkt, end))
         \/ \E k \in next_pkt..(end - 1) :
              toReceiver' = Transmit(toReceiver, Burst(next_pkt, k) \o Burst(k + 1, end))
      /\ UNCHANGED toSender
      /\ next_pkt' = end
      /\ time_q' = time_q + (end - next_pkt) \/ time_q' = time_q + (end - next_pkt) + 1
      /\ time_q' <= MaxQueue
  BY <1>a DEF FillWindowOnce
<1> HIDE DEF end
<1>3. time_q' \in Int
  BY <1>0, <1>1, <1>2
<1>4. SentOK(Burst(next_pkt, end))
  BY <1>0, <1>1, <1>a, BurstOK
<1>5. \A k \in next_pkt..(end - 1) : SentOK(Burst(next_pkt, k) \o Burst(k + 1, end))
  <2> TAKE k \in next_pkt..(end - 1)
  <2>2. ChunkLen \in Nat
    BY <1>0, <1>a, Position
  <2>3. /\ k \in Nat /\ k + 1 \in Nat /\ next_pkt <= k /\ k + 1 <= end
        /\ k <= ChunkLen /\ end <= ChunkLen
    BY <1>0, <1>1, <2>2
  <2>4. SentOK(Burst(next_pkt, k))
    BY <1>0, <2>3, <1>a, BurstOK
  <2>5. SentOK(Burst(k + 1, end))
    BY <1>0, <1>1, <2>3, <1>a, BurstOK
  <2> QED
    BY <2>4, <2>5, SentOKConcat
<1>6. NetworkEffect
  BY <1>2, <1>4, <1>5, <1>a, SenderSends
<1>7. SenderEffect
  BY <1>a, <1>1, <1>2, <1>3, SenderAssumption
     DEF FillWindowOnce, SenderEffect, SenderTyped, SenderInv, IInv, Typed,
         SenderClosing, SState, Sending, Acked, chunk, buffer
<1> QED
  BY <1>6, <1>7, <1>a, SenderFrame

\* ReceiveTimeout keeps the invariant.
LEMMA ReceiveTimeoutStep ==
  IInv /\ ReceiveTimeout /\ UNCHANGED <<receiver, buffer>> => IInv'
<1>a. SUFFICES ASSUME IInv, ReceiveTimeout, UNCHANGED <<receiver, buffer>>
               PROVE  IInv'
  OBVIOUS
<1>1. SenderEffect
  BY <1>a, SenderAssumption
     DEF ReceiveTimeout, Enter, SenderEffect, SenderTyped, SenderInv, IInv, Typed,
         SenderClosing, SState, Sending, Acked, window, chunk, buffer
<1> QED
  BY <1>1, <1>a, SenderQuiet, SenderFrame DEF ReceiveTimeout

(* Acknowledgements. *)

\* The relative acknowledgement, wrapped or not.
LEMMA UnsignedFact ==
  \A n \in Int :
    /\ 0 <= n /\ n < Wrap => U32(n) = n
    /\ -Wrap <= n /\ n < 0 => U32(n) = n + Wrap
    /\ U32(n) < Wrap
BY UdpAssumption DEF U32

\* IgnoredAck keeps the invariant.
LEMMA IgnoredAckStep ==
  ASSUME NEW m
  PROVE  IInv /\ IgnoredAck(m) /\ UNCHANGED <<receiver, buffer>> => IInv'
<1>a. SUFFICES ASSUME IInv, IgnoredAck(m), UNCHANGED <<receiver, buffer>>
               PROVE  IInv'
  OBVIOUS
<1>1. SenderEffect
  BY <1>a, SenderAssumption
     DEF IgnoredAck, AwaitsAck, SGets, SenderEffect, SenderTyped, SenderInv, IInv, Typed,
         SenderClosing, SState, Sending, Acked, window, chunk, buffer
<1> QED
  BY <1>1, <1>a, SenderReceives, SenderFrame DEF IgnoredAck, AwaitsAck

\* DuplicateAck keeps the invariant.
LEMMA DuplicateAckStep ==
  ASSUME NEW m
  PROVE  IInv /\ DuplicateAck(m) /\ UNCHANGED <<receiver, buffer>> => IInv'
<1>a. SUFFICES ASSUME IInv, DuplicateAck(m), UNCHANGED <<receiver, buffer>>
               PROVE  IInv'
  OBVIOUS
<1>1. SenderEffect
  BY <1>a, SenderAssumption
     DEF DuplicateAck, AwaitsAck, SGets, Enter, SenderEffect, SenderTyped, SenderInv,
         IInv, Typed, SenderClosing, SState, Sending, Acked, chunk, buffer
<1> QED
  BY <1>1, <1>a, SenderReceives, SenderFrame DEF DuplicateAck, AwaitsAck

\* InflateWindow keeps the invariant.
LEMMA InflateWindowStep ==
  ASSUME NEW m
  PROVE  IInv /\ InflateWindow(m) /\ UNCHANGED <<receiver, buffer>> => IInv'
<1>a. SUFFICES ASSUME IInv, InflateWindow(m), UNCHANGED <<receiver, buffer>>
               PROVE  IInv'
  OBVIOUS
<1>1. SenderEffect
  BY <1>a, SenderAssumption
     DEF InflateWindow, AwaitsAck, SGets, SenderEffect, SenderTyped, SenderInv,
         IInv, Typed, SenderClosing, SState, Sending, Acked, chunk, buffer
<1> QED
  BY <1>1, <1>a, SenderReceives, SenderFrame DEF InflateWindow, AwaitsAck

\* CrashInPop keeps the invariant.
LEMMA CrashInPopStep ==
  ASSUME NEW m
  PROVE  IInv /\ CrashInPop(m) /\ UNCHANGED <<receiver, buffer>> => IInv'
<1>a. SUFFICES ASSUME IInv, CrashInPop(m), UNCHANGED <<receiver, buffer>>
               PROVE  IInv'
  OBVIOUS
<1>1. SenderEffect
  BY <1>a, SenderAssumption
     DEF CrashInPop, AwaitsAck, SGets, Enter, SenderEffect, SenderTyped, SenderInv,
         IInv, Typed, SenderClosing, SState, Sending, Acked, window, chunk, buffer
<1> QED
  BY <1>1, <1>a, SenderReceives, SenderFrame DEF CrashInPop, AwaitsAck

\* An acknowledgement that moves the window is new and covers written
\* packets: one that only seems new because it wrapped around would have to
\* pop more send times than survive.
LEMMA NewAckFact ==
  ASSUME NEW m \in Datagram, IInv, FromReceiver(m), sstate \in Sending,
         "ACK" \in m.flags, NewAck(m) > LastAcked,
         NEW step, step = NewAck(m) + 1 - cw_head,
         sstate # "s_slow_start" => step - time_q < DequeNode
  PROVE  /\ NewAck(m) \in Int
         /\ cw_head <= NewAck(m)
         /\ cw_head_offset + NewAck(m) < head
<1>0. /\ ~ SenderClosing
      /\ cw_head \in Nat /\ time_q \in Int /\ cw_head_offset \in Nat /\ head \in Nat
      /\ time_q <= MaxQueue
      /\ cw_head_offset < Total /\ cw_head_offset + cw_head <= head
      /\ head <= after_tail /\ after_tail \in Nat
  BY DEF IInv, Typed, SenderTyped, SenderInv, BufferInv, SenderClosing, Sending, Acked
<1>1. head <= Total
  <2>1. SentLimit <= Total /\ SentLimit \in Nat
    BY <1>0, Position, SenderAssumption DEF IInv, Typed, SenderTyped
  <2> QED
    BY <1>0, <2>1, SenderAssumption DEF IInv, ReceiverInv
<1>2. m.ack \in Int /\ -1 <= m.ack /\ m.ack < head
  BY DEF Datagram, FromReceiver
<1> DEFINE rel == m.ack - cw_head_offset
<1>3. rel \in Int /\ rel < Total /\ rel >= -Total
  BY <1>0, <1>1, <1>2, SenderAssumption
<1>4. CASE sstate = "s_slow_start"
  BY <1>0, <1>2, <1>4 DEF NewAck, LastAcked, Unsigned
<1>5. CASE sstate # "s_slow_start"
  <2>1. NewAck(m) = U32(rel) /\ LastAcked = U32(cw_head - 1)
    BY <1>5 DEF NewAck, LastAcked, Unsigned
  <2>2. Total < Wrap /\ cw_head < Wrap
    BY <1>0, <1>1, WrapAssumption, UdpAssumption, SenderAssumption
  <2>3. cw_head # 0
    <3>1. SUFFICES ASSUME cw_head = 0
                   PROVE  FALSE
      OBVIOUS
    <3>2. U32(cw_head - 1) = Wrap - 1
      BY <3>1, UnsignedFact, UdpAssumption
    <3>3. U32(rel) < Wrap /\ U32(rel) \in Int
      BY <1>3, UnsignedFact, UdpAssumption DEF U32
    <3> QED
      BY <2>1, <3>2, <3>3, UdpAssumption
  <2>4. LastAcked = cw_head - 1
    <3>1. cw_head - 1 \in Int /\ 0 <= cw_head - 1 /\ cw_head - 1 < Wrap
      BY <1>0, <2>2, <2>3, UdpAssumption
    <3> QED
      BY <2>1, <3>1, UnsignedFact
  <2>5. rel >= 0
    <3>1. SUFFICES ASSUME rel < 0
                   PROVE  FALSE
      BY <1>3
    <3>2. U32(rel) = rel + Wrap
      BY <1>3, <2>2, <3>1, UnsignedFact, UdpAssumption, SenderAssumption
    <3>3. step = rel + Wrap + 1 - cw_head /\ step - time_q < DequeNode
      BY <1>5, <2>1, <3>2
    <3> QED
      BY <1>0, <1>1, <1>3, <3>3, WrapAssumption, UdpAssumption, SenderAssumption
  <2>6. NewAck(m) = rel
    BY <1>3, <2>1, <2>2, <2>5, UnsignedFact, UdpAssumption, SenderAssumption
  <2> QED
    BY <1>0, <1>2, <2>4, <2>6
<1> QED
  BY <1>4, <1>5

\* The window stays at least one packet wide.
LEMMA AfterAckFact ==
  ASSUME IInv, sstate \in Sending, NEW step \in Nat \ {0}, NEW after \in AfterAck(step)
  PROVE  /\ after[1] \in {"s_slow_start", "s_congestion_avoidance"}
         /\ after[2] \in Nat \ {0}
<1>0. cw_width \in Nat \ {0} /\ ssthresh \in Nat
  BY DEF IInv, Typed, SenderTyped
<1>1. \A n \in Nat, w \in Nat \ {0} : n \div w \in Nat
  OBVIOUS
<1>2. CASE sstate = "s_slow_start"
  <2>1. after \in AfterSlowStart(step)
    BY <1>2 DEF AfterAck
  <2>2. CASE after = <<"s_slow_start", cw_width + step>>
    BY <1>0, <2>2
  <2>3. CASE after # <<"s_slow_start", cw_width + step>>
    <3> DEFINE over == cw_width + step - ssthresh
    <3>0. /\ over >= 0
          /\ after \in {<<"s_congestion_avoidance", ssthresh + over \div cw_width + carry>> :
                          carry \in IF over % cw_width > 1 THEN {0, 1} ELSE {0}}
      BY <1>0, <2>1, <2>3 DEF AfterSlowStart
    <3>1. PICK carry \in {0, 1} :
            /\ over >= 0
            /\ after = <<"s_congestion_avoidance", ssthresh + over \div cw_width + carry>>
      BY <3>0
    <3>2. over \in Nat
      BY <1>0, <3>1
    <3>3. over \div cw_width \in Nat
      BY <1>0, <1>1, <3>2
    <3>4. ssthresh + over \div cw_width + carry # 0
      <4>1. CASE ssthresh # 0
        BY <1>0, <3>3, <4>1
      <4>2. CASE ssthresh = 0
        <5>1. over >= cw_width
          BY <1>0, <4>2
        <5>2. over \div cw_width >= 1
          <6>1. \A n \in Nat, w \in Nat \ {0} : n >= w => n \div w >= 1
            OBVIOUS
          <6> QED
            BY <1>0, <3>2, <5>1, <6>1
        <5> QED
          BY <1>0, <3>3, <5>2
      <4> QED
        BY <4>1, <4>2
    <3> QED
      BY <1>0, <3>1, <3>3, <3>4
  <2> QED
    BY <2>2, <2>3
<1>3. ASSUME NEW width \in Nat \ {0}, NEW w \in Grown(width, step)
      PROVE  w \in Nat \ {0}
  <2>1. step \div width \in Nat
    BY <1>1
  <2> QED
    BY <2>1 DEF Grown
<1>4. CASE sstate = "s_fast_recovery"
  <2>1. after \in AfterFastRecovery(step)
    BY <1>4 DEF AfterAck
  <2> QED
    BY <1>0, <1>3, <2>1 DEF AfterFastRecovery
<1>5. CASE sstate = "s_congestion_avoidance"
  <2>1. after \in AfterAvoidance(step)
    BY <1>5 DEF AfterAck
  <2> QED
    BY <1>0, <1>3, <2>1 DEF AfterAvoidance
<1> QED
  BY <1>2, <1>4, <1>5 DEF Sending

\* AdvanceWindow keeps the invariant.
LEMMA AdvanceWindowStep ==
  ASSUME NEW m
  PROVE  IInv /\ AdvanceWindow(m) /\ UNCHANGED <<receiver, buffer>> => IInv'
<1>a. SUFFICES ASSUME IInv, AdvanceWindow(m), UNCHANGED <<receiver, buffer>>
               PROVE  IInv'
  OBVIOUS
<1> DEFINE step == NewAck(m) + 1 - cw_head
           newHead == NewAck(m) + 1
<1>0. /\ ~ SenderClosing /\ sstate \in Sending
      /\ cw_head \in Nat /\ time_q \in Int /\ cw_head_offset \in Nat /\ head \in Nat
      /\ time_q <= MaxQueue
  BY <1>a DEF IInv, Typed, SenderTyped, SenderInv, BufferInv, SenderClosing, Sending,
              AdvanceWindow, AwaitsAck
<1>1. /\ IF sstate = "s_slow_start"
         THEN time_q' = IF PopsTooMany(step) THEN 0 ELSE time_q - step
         ELSE step - time_q < DequeNode /\ time_q' = time_q - step
      /\ cw_head' = newHead
      /\ IF newHead >= ChunkLen
         THEN Enter("s_check_next_chunk") /\ UNCHANGED cw_width
         ELSE \E after \in AfterAck(step) :
                Enter(after[1]) /\ cw_width' = after[2]
      /\ dupAckCnt' = 0
      /\ UNCHANGED <<next_pkt, ssthresh, chunk>>
      /\ SGets(m)
      /\ "ACK" \in m.flags /\ NewAck(m) > LastAcked
  BY <1>a DEF AdvanceWindow, AwaitsAck
<1>2. FromReceiver(m) /\ m \in Datagram /\ NetworkEffect
  BY <1>1, <1>a, SenderReceives
<1>3. /\ NewAck(m) \in Int
      /\ cw_head <= NewAck(m)
      /\ cw_head_offset + NewAck(m) < head
  <2>1. "ACK" \in m.flags
    BY <1>1
  <2>2. NewAck(m) > LastAcked
    BY <1>1
  <2> HIDE DEF step
  <2>3. sstate # "s_slow_start" => step - time_q < DequeNode
    BY <1>1
  <2>4. step = NewAck(m) + 1 - cw_head
    BY DEF step
  <2> QED
    BY <1>0, <1>2, <1>a, <2>1, <2>2, <2>3, <2>4, NewAckFact
<1>4. step \in Nat \ {0} /\ newHead \in Nat /\ cw_head_offset + newHead <= head
  BY <1>0, <1>3
<1> HIDE DEF step, newHead
<1>5. time_q' \in Int /\ time_q' <= MaxQueue
  BY <1>0, <1>1, <1>4, SenderAssumption
<1>6. ChunkLen' = ChunkLen
  BY <1>1 DEF ChunkLen, chunk
<1>7. /\ sstate' \in {"s_slow_start", "s_congestion_avoidance", "s_check_next_chunk"}
      /\ sphase' = "run"
      /\ cw_width' \in Nat \ {0}
      /\ sstate' = "s_check_next_chunk" => cw_head' >= ChunkLen'
  <2>1. CASE newHead >= ChunkLen
    BY <1>1, <1>6, <1>a, <2>1 DEF Enter, IInv, Typed, SenderTyped
  <2>2. CASE ~ newHead >= ChunkLen
    <3>1. PICK after \in AfterAck(step) : Enter(after[1]) /\ cw_width' = after[2]
      BY <1>1, <2>2
    <3>2. /\ after[1] \in {"s_slow_start", "s_congestion_avoidance"}
          /\ after[2] \in Nat \ {0}
      BY <1>0, <1>4, <1>a, AfterAckFact
    <3> QED
      BY <3>1, <3>2 DEF Enter
  <2> QED
    BY <2>1, <2>2
<1>8. SenderTyped'
  BY <1>1, <1>4, <1>5, <1>7, <1>a DEF SenderTyped, IInv, Typed, SState, Sending, chunk
<1>9. SenderInv'
  BY <1>0, <1>1, <1>4, <1>5, <1>7, <1>a
     DEF SenderInv, IInv, Typed, SenderClosing, Acked, chunk, buffer
<1>10. SenderEffect
  BY <1>1, <1>8, <1>9, <1>a DEF SenderEffect, IInv, Typed, SenderTyped, chunk
<1> QED
  BY <1>2, <1>10, <1>a, SenderFrame

(* Retransmission, the next chunk, and the end. *)

\* Retransmit keeps the invariant.
LEMMA RetransmitStep ==
  IInv /\ Retransmit /\ UNCHANGED <<receiver, buffer>> => IInv'
<1>a. SUFFICES ASSUME IInv, Retransmit, UNCHANGED <<receiver, buffer>>
               PROVE  IInv'
  OBVIOUS
<1>0. /\ ~ SenderClosing /\ sstate = "s_before_fast_recovery"
      /\ cw_head \in Nat /\ cw_width \in Nat \ {0} /\ time_q \in Int /\ time_q <= MaxQueue
      /\ next_pkt \in Nat
  BY <1>a DEF IInv, Typed, SenderTyped, SenderInv, SenderClosing, Retransmit
<1>1. CASE cw_head >= ChunkLen
  <2>1. ChunkLen' = ChunkLen
    BY <1>a DEF ChunkLen, chunk, Retransmit
  <2>2. /\ UNCHANGED <<toReceiver, toSender, cw_head, cw_width, next_pkt, ssthresh,
                        dupAckCnt, time_q, chunk>>
        /\ Enter("s_check_next_chunk")
    BY <1>1, <1>a DEF Retransmit
  <2>3. SenderEffect
    BY <1>0, <1>1, <1>a, <2>1, <2>2, SenderAssumption
       DEF Enter, SenderEffect, SenderTyped, SenderInv, IInv, Typed,
           SenderClosing, SState, Acked, chunk, buffer
  <2> QED
    BY <1>a, <2>2, <2>3, SenderQuiet, SenderFrame DEF network
<1>2. CASE ~ cw_head >= ChunkLen
  <2> DEFINE width == cw_width \div 2 + 3
             from == cw_head + cw_width
             end == LoopEnd(from, width)
             more == IF width > cw_width THEN end - from ELSE 0
  <2>1. /\ ssthresh' = cw_width \div 2
        /\ cw_width' = width
        /\ next_pkt' = IF width > cw_width THEN end ELSE next_pkt
        /\ toReceiver' = Transmit(toReceiver,
                           << DataPacket(cw_head) >> \o Burst(from, from + more))
        /\ \E extra \in ExtraPushes(1) : time_q' = time_q + more + extra
        /\ time_q' <= MaxQueue
        /\ Enter("s_fast_recovery")
        /\ UNCHANGED <<toSender, cw_head, dupAckCnt, chunk>>
    BY <1>2, <1>a DEF Retransmit
  <2>2. ssthresh' \in Nat /\ width \in Nat \ {0} /\ from \in Nat
    BY <1>0, <2>1
  <2>3. end \in Nat /\ from <= end /\ (from = end \/ end <= ChunkLen)
    BY <1>0, <1>a, <2>2, LoopEndFact
  <2> HIDE DEF width, end
  <2>4. /\ more \in Nat
        /\ from + more \in Nat
        /\ from <= from + more
        /\ from = from + more \/ from + more <= ChunkLen
        /\ next_pkt' \in Nat
    BY <1>0, <2>1, <2>2, <2>3
  <2>5. time_q' \in Int
    BY <1>0, <2>1, <2>4 DEF ExtraPushes
  <2> HIDE DEF from, more
  <2>6. SentOK(Burst(from, from + more))
    BY <1>0, <1>a, <2>2, <2>4, BurstOK
  <2>7. SentOK(<< DataPacket(cw_head) >>)
    <3>1. ChunkLen \in Nat
      BY <1>0, <1>a, Position
    <3> QED
      BY <1>0, <1>2, <1>a, <3>1, DataPacketOK, SentOKOne
  <2>8. SentOK(<< DataPacket(cw_head) >> \o Burst(from, from + more))
    BY <2>6, <2>7, SentOKConcat
  <2>9. NetworkEffect
    BY <1>a, <2>1, <2>8, SenderSends
  <2>10. SenderEffect
    BY <1>0, <1>a, <2>1, <2>2, <2>4, <2>5, SenderAssumption
       DEF Enter, SenderEffect, SenderTyped, SenderInv, IInv, Typed,
           SenderClosing, SState, Sending, Acked, chunk, buffer
  <2> QED
    BY <1>a, <2>9, <2>10, SenderFrame
<1> QED
  BY <1>1, <1>2

\* CheckNextChunk keeps the invariant.
LEMMA CheckNextChunkStep ==
  IInv /\ CheckNextChunk /\ UNCHANGED <<receiver, buffer>> => IInv'
<1>a. SUFFICES ASSUME IInv, CheckNextChunk, UNCHANGED <<receiver, buffer>>
               PROVE  IInv'
  OBVIOUS
<1>0. /\ ~ SenderClosing /\ sstate = "s_check_next_chunk"
      /\ cw_head \in Nat /\ time_q \in Int /\ time_q <= MaxQueue
      /\ file_offset \in Nat /\ cw_head_offset = file_offset /\ file_offset < Total
      /\ file_offset + cw_head <= head /\ head \in Nat
      /\ cw_head >= ChunkLen
  BY <1>a DEF IInv, Typed, SenderTyped, SenderInv, BufferInv, SenderClosing, CheckNextChunk,
              Acked
<1>1. cw_head = ChunkLen /\ ChunkLen \in Nat
  BY <1>0, <1>a, Position
<1>2. head <= Total
  <2>1. SentLimit <= Total /\ SentLimit \in Nat
    BY <1>0, <1>1, <1>a, Position
  <2> QED
    BY <1>0, <1>a, <2>1, SenderAssumption DEF IInv, ReceiverInv, BufferInv
<1>3. /\ file_offset' = file_offset + ChunkPkts
      /\ UNCHANGED network
  BY <1>a DEF CheckNextChunk
<1>4. CASE file_offset' >= Total
  <2>1. cw_head = Total - file_offset
    BY <1>0, <1>1, <1>3, <1>4, SenderAssumption DEF ChunkLen, Smaller
  <2>2. head = Total
    BY <1>0, <1>2, <2>1, SenderAssumption
  <2>3. Enter("s_ready_send_fin") /\ UNCHANGED <<window, cw_head_offset>>
    BY <1>4, <1>a DEF CheckNextChunk
  <2>4. SenderEffect
    BY <1>0, <1>3, <1>a, <2>2, <2>3, SenderAssumption
       DEF Enter, SenderEffect, SenderTyped, SenderInv, IInv, Typed,
           SenderClosing, SState, window, buffer
  <2> QED
    BY <1>3, <1>a, <2>4, SenderQuiet, SenderFrame
<1>5. CASE ~ file_offset' >= Total
  <2>1. cw_head = ChunkPkts
    BY <1>0, <1>1, <1>3, <1>5, SenderAssumption DEF ChunkLen, Smaller
  <2>2. /\ cw_head_offset' = cw_head_offset + cw_head
        /\ cw_head' = 0
        /\ cw_width' = 1
        /\ next_pkt' = 0
        /\ time_q' = 0
        /\ Enter("s_slow_start")
        /\ UNCHANGED <<ssthresh, dupAckCnt>>
    BY <1>5, <1>a DEF CheckNextChunk
  <2>3. SenderEffect
    BY <1>0, <1>3, <1>5, <1>a, <2>1, <2>2, SenderAssumption
       DEF Enter, SenderEffect, SenderTyped, SenderInv, IInv, Typed,
           SenderClosing, SState, Sending, Acked, buffer
  <2> QED
    BY <1>3, <1>a, <2>3, SenderQuiet, SenderFrame
<1> QED
  BY <1>4, <1>5

\* SendFin keeps the invariant.
LEMMA SendFinStep ==
  IInv /\ SendFin /\ UNCHANGED <<receiver, buffer>> => IInv'
<1>a. SUFFICES ASSUME IInv, SendFin, UNCHANGED <<receiver, buffer>>
               PROVE  IInv'
  OBVIOUS
<1>1. head = Total
  BY <1>a DEF IInv, SenderInv, SenderClosing, SendFin
<1>2. SentOK(<< Control({"FIN"}, -2, 0) >>)
  BY <1>1, ControlTyped, SentOKOne DEF FromSender
<1>3. NetworkEffect
  BY <1>2, <1>a, SenderSends DEF SendFin, SendsControl
<1>4. SenderEffect
  BY <1>a, SenderAssumption
     DEF SendFin, SenderEffect, SenderTyped, SenderInv, IInv, Typed,
         SenderClosing, SState, window, chunk, buffer
<1> QED
  BY <1>3, <1>4, <1>a, SenderFrame

\* RetryFin and NoFin keep the invariant.
LEMMA FinTimeoutsStep ==
  IInv /\ (RetryFin \/ NoFin) /\ UNCHANGED <<receiver, buffer>> => IInv'
<1>a. SUFFICES ASSUME IInv, RetryFin \/ NoFin, UNCHANGED <<receiver, buffer>>
               PROVE  IInv'
  OBVIOUS
<1>1. UNCHANGED network
  BY <1>a DEF RetryFin, NoFin
<1>2. SenderEffect
  BY <1>a, SenderAssumption
     DEF RetryFin, NoFin, Finish, SenderEffect, SenderTyped, SenderInv, IInv, Typed,
         SenderClosing, SState, window, chunk, buffer
<1> QED
  BY <1>1, <1>2, <1>a, SenderQuiet, SenderFrame

\* AwaitFinAck keeps the invariant.
LEMMA AwaitFinAckStep ==
  ASSUME NEW m
  PROVE  IInv /\ AwaitFinAck(m) /\ UNCHANGED <<receiver, buffer>> => IInv'
<1>a. SUFFICES ASSUME IInv, AwaitFinAck(m), UNCHANGED <<receiver, buffer>>
               PROVE  IInv'
  OBVIOUS
<1>1. sphase' \in {"run", "recv_fin"}
  BY <1>a DEF AwaitFinAck
<1>2. SenderEffect
  BY <1>1, <1>a, SenderAssumption
     DEF AwaitFinAck, SGets, SenderEffect, SenderTyped, SenderInv, IInv, Typed,
         SenderClosing, SState, window, chunk, buffer
<1> QED
  BY <1>2, <1>a, SenderReceives, SenderFrame DEF AwaitFinAck

\* AckFin keeps the invariant.
LEMMA AckFinStep ==
  ASSUME NEW m
  PROVE  IInv /\ AckFin(m) /\ UNCHANGED <<receiver, buffer>> => IInv'
<1>a. SUFFICES ASSUME IInv, AckFin(m), UNCHANGED <<receiver, buffer>>
               PROVE  IInv'
  OBVIOUS
<1>1. SenderEffect
  BY <1>a, SenderAssumption
     DEF AckFin, Finish, SenderEffect, SenderTyped, SenderInv, IInv, Typed,
         SenderClosing, SState, window, chunk, buffer
<1>2. /\ m \in Deliverable(toSender)
      /\ toSender' = Consume(toSender)
      /\ toReceiver \in Channel /\ toSender \in Channel
      /\ AllFromSender(toReceiver)
  BY <1>a DEF AckFin, IInv, Typed, NetworkTyped, NetworkInv, AllFromSender
<1>3. /\ FromReceiver(m)
      /\ toSender' \in Channel
      /\ InFlight(toSender') \subseteq InFlight(toSender)
  BY <1>2, <1>a, ConsumeFact DEF IInv, NetworkInv
<1>4. toReceiver' \in Channel /\ AllFromSender(toReceiver')
  <2>1. CASE "FIN" \in m.flags /\ "ACK" \notin m.flags
    <3>1. ReceiverClosing
      BY <1>3, <2>1 DEF FromReceiver
    <3>2. SentOK(<< Control({"ACK"}, -2, 0) >>)
      BY <3>1, ControlTyped, SentOKOne DEF FromSender
    <3>3. toReceiver' = Transmit(toReceiver, << Control({"ACK"}, -2, 0) >>)
      BY <1>a, <2>1 DEF AckFin, SendsControl
    <3> QED
      BY <1>2, <3>2, <3>3, SentOKTransmit
  <2>2. CASE ~ ("FIN" \in m.flags /\ "ACK" \notin m.flags)
    <3>1. toReceiver' = toReceiver
      BY <1>a, <2>2 DEF AckFin
    <3> QED
      BY <1>2, <3>1
  <2> QED
    BY <2>1, <2>2
<1>5. NetworkEffect
  BY <1>3, <1>4 DEF NetworkEffect
<1> QED
  BY <1>1, <1>5, <1>a, SenderFrame

\* Every step of the sender keeps the invariant.
LEMMA SenderStep ==
  IInv /\ SenderNext /\ UNCHANGED <<receiver, buffer>> => IInv'
<1>a. SUFFICES ASSUME IInv, SenderNext, UNCHANGED <<receiver, buffer>>
               PROVE  IInv'
  OBVIOUS
<1>1. CASE \E m \in Deliverable(toSender) : SenderGets(m)
  BY <1>1, <1>a, NotSynStep, GotSynStep, IgnoredAckStep, DuplicateAckStep,
     InflateWindowStep, AdvanceWindowStep, CrashInPopStep, AwaitFinAckStep, AckFinStep
     DEF SenderGets
<1>2. CASE SenderRuns
  BY <1>2, <1>a, SendSynStep, TimeOutStep, FillWindowStep, FillWindowOnceStep,
     RetransmitStep, CheckNextChunkStep, SendFinStep
     DEF SenderRuns
<1>3. CASE SenderTimeout
  BY <1>3, <1>a, SynTimeoutStep, ReceiveTimeoutStep, FinTimeoutsStep DEF SenderTimeout
<1> QED
  BY <1>1, <1>2, <1>3, <1>a DEF SenderNext

-----------------------------------------------------------------------------
(* The steps of the receiver.                                              *)

\* A step of the receiver keeps the invariant if it keeps the receiver's
\* part, its file and its closing only progress, and it sends only what a
\* receiver in its new state may send.
ReceiverEffect ==
  /\ UNCHANGED sender
  /\ ReceiverTyped'
  /\ BufferInv'
  /\ ReceiverInv'
  /\ head <= head'
  /\ rstate \in {"s_received_fin", "Finished"} =>
       rstate' \in {"s_received_fin", "Finished"}

AckEffect ==
  /\ toReceiver' \in Channel
  /\ InFlight(toReceiver') \subseteq InFlight(toReceiver)
  /\ toSender' \in Channel
  /\ \A m \in InFlight(toSender') : m \in InFlight(toSender) \/ FromReceiver(m)'

\* The buffer's head never passes the end of the file.
LEMMA HeadBound ==
  ASSUME IInv
  PROVE  head <= Total /\ after_tail <= Total /\ SentLimit <= Total
<1>1. SentLimit \in Int /\ SentLimit <= Total
  BY SenderAssumption DEF SentLimit, Smaller, IInv, Typed, SenderTyped
<1> QED
  BY <1>1, SenderAssumption DEF IInv, ReceiverInv, BufferInv

\* The counterpart of SenderFrame for steps of the receiver.
LEMMA ReceiverFrame ==
  IInv /\ ReceiverEffect /\ AckEffect => IInv'
<1>a. SUFFICES ASSUME IInv, ReceiverEffect, AckEffect
               PROVE  IInv'
  OBVIOUS
<1>1. /\ SenderTyped'
      /\ sstate' = sstate /\ cw_head' = cw_head /\ cw_head_offset' = cw_head_offset
      /\ file_offset' = file_offset /\ time_q' = time_q
  BY <1>a DEF ReceiverEffect, sender, window, chunk, IInv, Typed, SenderTyped
<1>2. SentLimit' = SentLimit /\ ChunkLen' = ChunkLen
  BY <1>1 DEF SentLimit, ChunkLen
<1>3. head = Total => head' = Total
  <2>1. /\ head \in Nat /\ head' \in Nat /\ after_tail' \in Nat
        /\ head <= head' /\ head' <= after_tail'
        /\ after_tail' <= SentLimit' /\ SentLimit' \in Int
    BY <1>2, <1>a, SenderAssumption
       DEF ReceiverEffect, IInv, Typed, SenderTyped, BufferInv, ReceiverInv, SentLimit, Smaller
  <2>2. SentLimit' <= Total
    BY <1>2, <1>a, HeadBound
  <2> QED
    BY <2>1, <2>2, SenderAssumption
<1>4. SenderInv'
  BY <1>1, <1>2, <1>3, <1>a, SMTT(30)
     DEF SenderInv, IInv, Typed, SenderTyped, ReceiverEffect, BufferInv, SenderClosing, Acked
<1>5. \A m : FromSender(m) => FromSender(m)'
  <2>1. ASSUME NEW m, FromSender(m)
        PROVE  FromSender(m)'
    BY <1>2, <1>3, <1>a, <2>1 DEF FromSender, ReceiverEffect, ReceiverClosing
  <2> QED
    BY <2>1
<1>6. \A m \in InFlight(toSender) : FromReceiver(m)'
  <2> TAKE m \in InFlight(toSender)
  <2>1. FromReceiver(m) /\ toSender \in Channel
    BY <1>a DEF IInv, NetworkInv, Typed, NetworkTyped
  <2>2. m \in Datagram
    BY <2>1 DEF Channel, InFlight, Range
  <2>3. head \in Nat /\ head' \in Nat /\ head <= head' /\ m.ack \in Int
    BY <1>a, <2>2 DEF ReceiverEffect, IInv, BufferInv, Datagram
  <2> QED
    BY <1>a, <2>1, <2>3 DEF FromReceiver, ReceiverEffect, ReceiverClosing
<1>7. \A m \in InFlight(toReceiver') : FromSender(m)'
  BY <1>5, <1>a DEF AckEffect, IInv, NetworkInv
<1>8. \A m \in InFlight(toSender') : FromReceiver(m)'
  BY <1>6, <1>a DEF AckEffect
<1>9. NetworkInv'
  BY <1>7, <1>8 DEF NetworkInv
<1>10. NetworkTyped'
  BY <1>a DEF AckEffect, NetworkTyped
<1> QED
  BY <1>1, <1>4, <1>9, <1>10, <1>a DEF ReceiverEffect, IInv, Typed

\* The network when the receiver receives.
LEMMA ReceiverReceives ==
  ASSUME NEW m
  PROVE  IInv /\ RGets(m) =>
           /\ FromSender(m) /\ m \in Datagram
           /\ toReceiver' \in Channel
           /\ InFlight(toReceiver') \subseteq InFlight(toReceiver)
BY ConsumeFact DEF RGets, IInv, Typed, NetworkTyped, NetworkInv

\* The network when the receiver sends a header.
LEMMA ReceiverSendsOne ==
  ASSUME NEW c \in Datagram
  PROVE  IInv /\ toSender' = Transmit(toSender, << c >>) =>
           /\ toSender' \in Channel
           /\ \A m \in InFlight(toSender') : m \in InFlight(toSender) \/ m = c
<1>1. << c >> \in Seq(Datagram) /\ Range(<< c >>) = {c}
  BY DEF Range
<1> QED
  BY <1>1, TransmitFact DEF IInv, Typed, NetworkTyped

\* A header of the receiver is a datagram.
LEMMA AckTyped ==
  ASSUME IInv, NEW bits \in SUBSET {"SYN", "FIN", "ACK"}
  PROVE  Control(bits, -1, get_ack) \in Datagram
BY ControlTyped DEF IInv, BufferInv, get_ack

\* Steps without an effect on the buffer that send a header with the flag
\* bits "bits".
LEMMA SendsHeader ==
  ASSUME NEW bits \in SUBSET {"SYN", "FIN", "ACK"}
  PROVE  /\ IInv /\ ReceiverEffect /\ RSends(bits) /\ UNCHANGED buffer
         /\ toReceiver' \in Channel
         /\ InFlight(toReceiver') \subseteq InFlight(toReceiver)
         /\ "FIN" \in bits => rstate' \in {"s_received_fin", "Finished"}
         => IInv'
<1>a. SUFFICES ASSUME IInv, ReceiverEffect, RSends(bits), UNCHANGED buffer,
                      toReceiver' \in Channel,
                      InFlight(toReceiver') \subseteq InFlight(toReceiver),
                      "FIN" \in bits => rstate' \in {"s_received_fin", "Finished"}
               PROVE  IInv'
  OBVIOUS
<1>1. PICK c \in Datagram : c = Control(bits, -1, get_ack)
  BY <1>a, AckTyped
<1>2. toSender' = Transmit(toSender, << c >>)
  BY <1>1, <1>a DEF RSends
<1>3. c.flags = bits /\ c.ack = head - 1
  BY <1>1 DEF Control, get_ack
<1>4. /\ toSender' \in Channel
      /\ \A m \in InFlight(toSender') : m \in InFlight(toSender) \/ m = c
  BY <1>2, <1>a, ReceiverSendsOne
<1>5. head' = head /\ head \in Nat
  BY <1>a DEF buffer, IInv, BufferInv
<1>6. FromReceiver(c)'
  BY <1>3, <1>5, <1>a DEF FromReceiver, ReceiverClosing
<1>7. AckEffect
  BY <1>4, <1>6, <1>a DEF AckEffect
<1> QED
  BY <1>7, <1>a, ReceiverFrame

\* The network when the receiver does not send.
LEMMA SendsNothing ==
  /\ IInv /\ ReceiverEffect
  /\ UNCHANGED toSender
  /\ toReceiver' \in Channel
  /\ InFlight(toReceiver') \subseteq InFlight(toReceiver)
  => IInv'
<1>a. SUFFICES ASSUME IInv, ReceiverEffect, UNCHANGED toSender,
                      toReceiver' \in Channel,
                      InFlight(toReceiver') \subseteq InFlight(toReceiver)
               PROVE  IInv'
  OBVIOUS
<1>1. AckEffect
  BY <1>a DEF AckEffect, IInv, Typed, NetworkTyped
<1> QED
  BY <1>1, <1>a, ReceiverFrame

\* What changes when the buffer does not.
LEMMA BufferKept ==
  IInv /\ UNCHANGED <<sender, buffer>> =>
    BufferInv' /\ head' = head /\ after_tail' = after_tail /\ SentLimit' = SentLimit
BY DEF IInv, BufferInv, FileIntegrity, BufferAligned, sender, chunk, buffer, SentLimit

\* AnswerSyn keeps the invariant.
LEMMA AnswerSynStep ==
  IInv /\ AnswerSyn /\ UNCHANGED sender => IInv'
<1>a. SUFFICES ASSUME IInv, AnswerSyn, UNCHANGED sender
               PROVE  IInv'
  OBVIOUS
<1>1. BufferInv' /\ head' = head /\ after_tail' = after_tail /\ SentLimit' = SentLimit
  BY <1>a, BufferKept DEF AnswerSyn
<1>2. ReceiverEffect
  BY <1>1, <1>a
     DEF AnswerSyn, ReceiverEffect, ReceiverTyped, ReceiverInv, RState, IInv, Typed,
         BufferInv, ReceiverClosing
<1> QED
  BY <1>2, <1>a, SendsHeader DEF AnswerSyn, IInv, Typed, NetworkTyped

\* SendOwnFin keeps the invariant.
LEMMA SendOwnFinStep ==
  IInv /\ SendOwnFin /\ UNCHANGED sender => IInv'
<1>a. SUFFICES ASSUME IInv, SendOwnFin, UNCHANGED sender
               PROVE  IInv'
  OBVIOUS
<1>1. BufferInv' /\ head' = head /\ after_tail' = after_tail /\ SentLimit' = SentLimit
  BY <1>a, BufferKept DEF SendOwnFin
<1>2. ReceiverEffect /\ rstate' \in {"s_received_fin", "Finished"}
  BY <1>1, <1>a
     DEF SendOwnFin, ReceiverEffect, ReceiverTyped, ReceiverInv, RState, IInv, Typed,
         BufferInv, ReceiverClosing
<1> QED
  BY <1>2, <1>a, SendsHeader DEF SendOwnFin, IInv, Typed, NetworkTyped

\* FinTimeout keeps the invariant.
LEMMA FinTimeoutStep ==
  IInv /\ FinTimeout /\ UNCHANGED sender => IInv'
<1>a. SUFFICES ASSUME IInv, FinTimeout, UNCHANGED sender
               PROVE  IInv'
  OBVIOUS
<1>1. BufferInv' /\ head' = head /\ after_tail' = after_tail /\ SentLimit' = SentLimit
  BY <1>a, BufferKept DEF FinTimeout
<1>2. ReceiverEffect
  BY <1>1, <1>a
     DEF FinTimeout, ReceiverEffect, ReceiverTyped, ReceiverInv, RState, IInv, Typed,
         BufferInv, ReceiverClosing
<1> QED
  BY <1>2, <1>a, SendsNothing DEF FinTimeout, IInv, Typed, NetworkTyped, network

\* WaitForSyn keeps the invariant.
LEMMA WaitForSynStep ==
  ASSUME NEW m
  PROVE  IInv /\ WaitForSyn(m) /\ UNCHANGED sender => IInv'
<1>a. SUFFICES ASSUME IInv, WaitForSyn(m), UNCHANGED sender
               PROVE  IInv'
  OBVIOUS
<1>1. BufferInv' /\ head' = head /\ after_tail' = after_tail /\ SentLimit' = SentLimit
  BY <1>a, BufferKept DEF WaitForSyn
<1>2. rstate' \in {"s_0", "s_reveived_syn"} /\ rphase' \in {"run", "recv"} /\ rstate = "s_0"
  BY <1>a DEF WaitForSyn, receiver, IInv, Typed, ReceiverTyped
<1>3. ReceiverEffect
  BY <1>1, <1>2, <1>a
     DEF ReceiverEffect, ReceiverTyped, ReceiverInv, RState, IInv, Typed,
         BufferInv, ReceiverClosing
<1>4. RGets(m) /\ UNCHANGED toSender
  BY <1>a DEF WaitForSyn
<1> QED
  BY <1>3, <1>4, <1>a, ReceiverReceives, SendsNothing

\* LastDatagram keeps the invariant.
LEMMA LastDatagramStep ==
  ASSUME NEW m
  PROVE  IInv /\ LastDatagram(m) /\ UNCHANGED sender => IInv'
<1>a. SUFFICES ASSUME IInv, LastDatagram(m), UNCHANGED sender
               PROVE  IInv'
  OBVIOUS
<1>1. BufferInv' /\ head' = head /\ after_tail' = after_tail /\ SentLimit' = SentLimit
  BY <1>a, BufferKept DEF LastDatagram
<1>2. /\ rstate = "s_received_fin" /\ rstate' = "Finished" /\ rphase' = rphase
      /\ RGets(m) /\ UNCHANGED toSender
  BY <1>a DEF LastDatagram
<1>3. ReceiverEffect
  BY <1>1, <1>2, <1>a
     DEF ReceiverEffect, ReceiverTyped, ReceiverInv, RState, IInv, Typed,
         BufferInv, ReceiverClosing
<1> QED
  BY <1>2, <1>3, <1>a, ReceiverReceives, SendsNothing

\* AnswerSynAgain keeps the invariant.
LEMMA AnswerSynAgainStep ==
  ASSUME NEW m
  PROVE  IInv /\ AnswerSynAgain(m) /\ UNCHANGED sender => IInv'
<1>a. SUFFICES ASSUME IInv, AnswerSynAgain(m), UNCHANGED sender
               PROVE  IInv'
  OBVIOUS
<1>1. BufferInv' /\ head' = head /\ after_tail' = after_tail /\ SentLimit' = SentLimit
  BY <1>a, BufferKept DEF AnswerSynAgain
<1>2. /\ rstate' = rstate /\ rphase' = rphase /\ UNCHANGED buffer
      /\ RGets(m) /\ RSends({"SYN"})
  BY <1>a DEF AnswerSynAgain, receiver
<1>3. ReceiverEffect
  BY <1>1, <1>2, <1>a
     DEF ReceiverEffect, ReceiverTyped, ReceiverInv, RState, IInv, Typed,
         BufferInv, ReceiverClosing
<1> QED
  BY <1>2, <1>3, <1>a, ReceiverReceives, SendsHeader

\* A FIN arrives only when the file is whole.
LEMMA FinArrives ==
  ASSUME NEW m
  PROVE  FromSender(m) /\ "FIN" \in m.flags => head = Total
BY DEF FromSender, Packet, Control

\* FinBeforeData, FinAfterData and FinAgain keep the invariant.
LEMMA FinStep ==
  ASSUME NEW m
  PROVE  /\ IInv /\ UNCHANGED sender
         /\ FinBeforeData(m) \/ FinAfterData(m) \/ FinAgain(m)
         => IInv'
<1>a. SUFFICES ASSUME IInv, UNCHANGED sender,
                      FinBeforeData(m) \/ FinAfterData(m) \/ FinAgain(m)
               PROVE  IInv'
  OBVIOUS
<1>0. UNCHANGED buffer /\ RGets(m) /\ "FIN" \in m.flags
  BY <1>a DEF FinBeforeData, FinAfterData, FinAgain
<1>1. BufferInv' /\ head' = head /\ after_tail' = after_tail /\ SentLimit' = SentLimit
  BY <1>0, <1>a, BufferKept
<1>2. rstate' = "s_received_fin" /\ rphase' \in {"run", "recv"}
  BY <1>a DEF FinBeforeData, FinAfterData, FinAgain
<1>3. head = Total
  BY <1>0, <1>a, ReceiverReceives, FinArrives
<1>4. ReceiverEffect
  BY <1>1, <1>2, <1>3, <1>a
     DEF ReceiverEffect, ReceiverTyped, ReceiverInv, RState, IInv, Typed,
         BufferInv, ReceiverClosing
<1>5. RSends({"ACK"}) \/ RSends({"ACK", "FIN"})
  BY <1>a DEF FinBeforeData, FinAfterData, FinAgain
<1>6. toReceiver' \in Channel /\ InFlight(toReceiver') \subseteq InFlight(toReceiver)
  BY <1>0, <1>a, ReceiverReceives
<1> QED
  BY <1>0, <1>2, <1>4, <1>5, <1>6, <1>a, SendsHeader

\* The data of the file, or a SYN that exhausts the memory.
LEMMA AcceptStep ==
  ASSUME NEW m
  PROVE  /\ IInv /\ UNCHANGED sender
         /\ RGets(m) /\ Accept(m)
         /\ "FIN" \notin m.flags
         /\ rstate \in {"s_reveived_syn", "s_receiving"}
         => IInv'
<1>a. SUFFICES ASSUME IInv, UNCHANGED sender, RGets(m), Accept(m), "FIN" \notin m.flags,
                      rstate \in {"s_reveived_syn", "s_receiving"}
               PROVE  IInv'
  OBVIOUS
<1>0. /\ head \in Nat /\ after_tail \in Nat /\ head <= after_tail /\ after_tail <= Total
      /\ SentLimit \in Int /\ SentLimit <= Total /\ SentLimit' = SentLimit
  BY <1>a, HeadBound, SenderAssumption
     DEF IInv, BufferInv, Typed, SenderTyped, SentLimit, Smaller, sender, chunk
<1>1. FromSender(m) /\ toReceiver' \in Channel
      /\ InFlight(toReceiver') \subseteq InFlight(toReceiver)
  BY <1>a, ReceiverReceives
<1>2. CASE Fits(U32(m.seq))
  <2>1. /\ gotpacket(U32(m.seq), m.data)
        /\ toSender' = Transmit(toSender, << Control({"ACK"}, -1, get_ack') >>)
        /\ rstate' = "s_receiving" /\ rphase' = rphase
    BY <1>2, <1>a DEF Accept
  <2>2. m # Control({"SYN"}, -1, 0)
    <3>1. SUFFICES ASSUME m = Control({"SYN"}, -1, 0)
                   PROVE  FALSE
      OBVIOUS
    <3>2. U32(-1) = Wrap - 1
      BY UnsignedFact, UdpAssumption
    <3> QED
      BY <1>0, <1>2, <3>1, <3>2, MemoryAssumption, MemSlotsAssumption, UdpAssumption,
         SenderAssumption DEF Fits, Control
  <2>3. PICK k \in 0..(SentLimit - 1) : m = Packet(k, k)
    BY <1>1, <1>a, <2>2 DEF FromSender, Control, ReceiverClosing
  <2>4. k \in Nat /\ k < Wrap
    BY <1>0, WrapAssumption, UdpAssumption, SenderAssumption
  <2>5. gotpacket(k, k)
    <3>1. m.seq = k /\ m.data = k /\ U32(k) = k
      BY <2>3, <2>4, UnsignedFact DEF Packet
    <3> QED
      BY <2>1, <3>1
  <2>6. BufferInv' /\ head <= head' /\ (after_tail' = after_tail \/ after_tail' = k + 1)
    BY <1>a, <2>4, <2>5, GotPacketFact DEF IInv
  <2>7. after_tail' <= SentLimit'
    <3>1. after_tail <= SentLimit /\ k + 1 <= SentLimit
      BY <1>0, <1>a DEF IInv, ReceiverInv
    <3>2. after_tail' <= SentLimit
      BY <2>6, <3>1
    <3> QED
      BY <1>0, <3>2
  <2>8. ReceiverEffect
    BY <1>a, <2>1, <2>6, <2>7
       DEF ReceiverEffect, ReceiverTyped, ReceiverInv, RState, IInv, Typed, ReceiverClosing
  <2>9. PICK c \in Datagram : c = Control({"ACK"}, -1, head' - 1)
    BY <2>6, ControlTyped DEF BufferInv
  <2>10. toSender' = Transmit(toSender, << c >>)
    BY <2>1, <2>9 DEF get_ack
  <2>11. FromReceiver(c)'
    <3>1. head' \in Nat
      BY <2>6 DEF BufferInv
    <3>2. c.flags = {"ACK"} /\ c.ack = head' - 1
      BY <2>9 DEF Control
    <3>3. -1 <= c.ack /\ c.ack < head'
      BY <3>1, <3>2
    <3>4. "FIN" \notin c.flags
      BY <3>2
    <3> QED
      BY <3>3, <3>4 DEF FromReceiver, ReceiverClosing
  <2>12. AckEffect
    BY <1>1, <1>a, <2>10, <2>11, ReceiverSendsOne DEF AckEffect
  <2> QED
    BY <1>a, <2>8, <2>12, ReceiverFrame
<1>3. CASE ~ Fits(U32(m.seq))
  <2>1. rstate' = "crashed" /\ rphase' = rphase /\ UNCHANGED <<toSender, buffer>>
    BY <1>3, <1>a DEF Accept
  <2>2. BufferInv' /\ head' = head /\ after_tail' = after_tail /\ SentLimit' = SentLimit
    BY <1>a, <2>1, BufferKept
  <2>3. ReceiverEffect
    BY <1>a, <2>1, <2>2
       DEF ReceiverEffect, ReceiverTyped, ReceiverInv, RState, IInv, Typed, BufferInv,
           ReceiverClosing
  <2> QED
    BY <1>1, <1>a, <2>1, <2>3, SendsNothing
<1> QED
  BY <1>2, <1>3

\* Every step of the receiver keeps the invariant.
LEMMA ReceiverStep ==
  IInv /\ ReceiverNext /\ UNCHANGED sender => IInv'
<1>a. SUFFICES ASSUME IInv, ReceiverNext, UNCHANGED sender
               PROVE  IInv'
  OBVIOUS
<1>1. CASE \E m \in Deliverable(toReceiver) : ReceiverGets(m)
  <2>1. PICK m : ReceiverGets(m)
    BY <1>1
  <2>2. CASE FirstData(m) \/ MoreData(m)
    BY <1>a, <2>2, AcceptStep DEF FirstData, MoreData
  <2> QED
    BY <1>a, <2>1, <2>2, WaitForSynStep, AnswerSynAgainStep, FinStep, LastDatagramStep
       DEF ReceiverGets
<1>2. CASE ReceiverRuns \/ FinTimeout
  BY <1>2, <1>a, AnswerSynStep, SendOwnFinStep, FinTimeoutStep DEF ReceiverRuns
<1> QED
  BY <1>1, <1>2, <1>a DEF ReceiverNext

-----------------------------------------------------------------------------
(* The invariant holds.                                                    *)

\* A loss keeps the invariant.
LEMMA LossStep ==
  IInv /\ (LoseToReceiver \/ LoseToSender) /\ UNCHANGED <<sender, receiver, buffer>> => IInv'
<1>a. SUFFICES ASSUME IInv, LoseToReceiver \/ LoseToSender,
                      UNCHANGED <<sender, receiver, buffer>>
               PROVE  IInv'
  OBVIOUS
<1>1. BufferInv' /\ head' = head /\ after_tail' = after_tail /\ SentLimit' = SentLimit
  BY <1>a, BufferKept
<1>2. ReceiverEffect
  BY <1>1, <1>a
     DEF ReceiverEffect, ReceiverTyped, ReceiverInv, IInv, Typed, BufferInv,
         ReceiverClosing, receiver
<1>3. toReceiver \in Channel /\ toSender \in Channel
  BY <1>a DEF IInv, Typed, NetworkTyped
<1>4. /\ toReceiver' \in Channel /\ InFlight(toReceiver') \subseteq InFlight(toReceiver)
      /\ toSender' \in Channel /\ InFlight(toSender') \subseteq InFlight(toSender)
  <2>1. CASE LoseToReceiver
    BY <1>3, <2>1, LossFact DEF LoseToReceiver
  <2>2. CASE LoseToSender
    BY <1>3, <2>2, LossFact DEF LoseToSender
  <2> QED
    BY <1>a, <2>1, <2>2
<1>5. AckEffect
  BY <1>4 DEF AckEffect
<1> QED
  BY <1>2, <1>5, <1>a, ReceiverFrame

\* The initial states satisfy the invariant.
LEMMA InitInv ==
  Init => IInv
<1>a. SUFFICES ASSUME Init
               PROVE  IInv
  OBVIOUS
<1>1. EmptyChannel \in Channel /\ InFlight(EmptyChannel) = {}
  <2>1. CASE Ordered
    <3>1. << >> \in Seq(Datagram) /\ DOMAIN << >> = {}
      OBVIOUS
    <3>2. Range(<< >>) = {}
      BY <3>1 DEF Range
    <3> QED
      BY <2>1, <3>1, <3>2 DEF EmptyChannel, Channel, InFlight
  <2>2. CASE ~ Ordered
    BY <2>2 DEF EmptyChannel, Channel, InFlight
  <2> QED
    BY <2>1, <2>2
<1>2. BufferInv
  BY <1>a DEF Init, ReceiverInit, BufferInit, BufferInv, FileIntegrity, BufferAligned
<1>3. SenderTyped /\ ReceiverTyped
  BY <1>a, SenderAssumption
     DEF Init, SenderInit, ReceiverInit, SenderTyped, ReceiverTyped, SState, RState
<1>4. SenderInv
  BY <1>a, SenderAssumption
     DEF Init, SenderInit, ReceiverInit, BufferInit, SenderInv, SenderClosing, Acked
<1>5. ReceiverInv
  BY <1>a, SenderAssumption
     DEF Init, SenderInit, ReceiverInit, BufferInit, ReceiverInv, ReceiverClosing,
         SentLimit, Smaller
<1>6. NetworkTyped /\ NetworkInv
  BY <1>1, <1>a DEF Init, NetworkTyped, NetworkInv
<1> QED
  BY <1>2, <1>3, <1>4, <1>5, <1>6 DEF IInv, Typed

\* A step that changes nothing keeps the invariant.
LEMMA StutterStep ==
  IInv /\ UNCHANGED vars => IInv'
<1>a. SUFFICES ASSUME IInv, UNCHANGED vars
               PROVE  IInv'
  OBVIOUS
<1>0. UNCHANGED <<network, sender, receiver, buffer>>
  BY <1>a DEF vars
<1>1. BufferInv' /\ head' = head /\ after_tail' = after_tail /\ SentLimit' = SentLimit
  BY <1>0, <1>a, BufferKept
<1>2. ReceiverEffect
  BY <1>0, <1>1, <1>a
     DEF ReceiverEffect, ReceiverTyped, ReceiverInv, IInv, Typed, BufferInv,
         ReceiverClosing, receiver
<1>3. /\ UNCHANGED toSender
      /\ toReceiver' \in Channel
      /\ InFlight(toReceiver') \subseteq InFlight(toReceiver)
  BY <1>0, <1>a DEF network, IInv, Typed, NetworkTyped
<1> QED
  BY <1>2, <1>3, <1>a, SendsNothing

\* Every step keeps the invariant.
LEMMA NextStep ==
  IInv /\ [Next]_vars => IInv'
BY SenderStep, ReceiverStep, LossStep, StutterStep DEF Next

\* The inductive invariant holds of every execution.
THEOREM Invariant == Spec => []IInv
BY InitInv, NextStep, PTL DEF Spec

\* The variables of both programs and the network keep to their types.
THEOREM TypeCorrectness == Spec => []TypeOK
<1>1. IInv => TypeOK
  BY DEF IInv, Typed, SenderTyped, ReceiverTyped, NetworkTyped, BufferInv, TypeOK
<1> QED
  BY <1>1, Invariant, PTL

\* The destination file is at all times a prefix of the source file, for a
\* file of any length, chunks and windows of any size, and whatever the
\* network loses, duplicates or reorders.
THEOREM FileIsPrefix == Spec => []FileIntegrity
<1>1. IInv => FileIntegrity
  BY DEF IInv, BufferInv
<1> QED
  BY <1>1, Invariant, PTL

\* The vectors of packets_buffer stay aligned and never hold back the packet
\* the receiver waits for.
THEOREM BufferIsAligned == Spec => []BufferAligned
<1>1. IInv => BufferAligned
  BY DEF IInv, BufferInv
<1> QED
  BY <1>1, Invariant, PTL

\* The sender moves on only over packets that are in the file.
THEOREM AckedPacketsAreReceived == Spec => []AckedIsReceived
<1>1. IInv => AckedIsReceived
  BY DEF IInv, BufferInv, SenderInv, AckedIsReceived
<1> QED
  BY <1>1, Invariant, PTL

\* An acknowledgement, however old, covers only packets that are in the file.
THEOREM AcksCoverTheFile == Spec => []AcksAreWritten
<1>1. IInv => AcksAreWritten
  BY DEF IInv, BufferInv, NetworkInv, FromReceiver, AcksAreWritten
<1> QED
  BY <1>1, Invariant, PTL

\* A FIN is sent, and a program ends, only when the file is whole.
THEOREM FinMeansComplete == Spec => []FinImpliesComplete
<1>1. IInv => FinImpliesComplete
  <2>1. SUFFICES ASSUME IInv PROVE FinImpliesComplete
    OBVIOUS
  <2>2. Len(written) = head
    BY <2>1 DEF IInv, BufferInv
  <2>3. SenderClosing \/ ReceiverClosing => head = Total
    BY <2>1 DEF IInv, SenderInv, ReceiverInv
  <2>4. \A m \in InFlight(toReceiver) : "FIN" \in m.flags => head = Total
    BY <2>1, FinArrives DEF IInv, NetworkInv
  <2> QED
    BY <2>2, <2>3, <2>4 DEF FinImpliesComplete
<1> QED
  BY <1>1, Invariant, PTL

\* Only the answer to the FIN leads to the end of the sender.
LEMMA WayToTheEnd ==
  ASSUME IInv, SenderNext, sstate' = "Finished" \/ sphase' = "recv_fin"
  PROVE  \/ sphase = "recv_fin"
         \/ \E m \in InFlight(toSender) : FromReceiver(m) /\ "FIN" \in m.flags
<1>1. CASE \E m \in Deliverable(toSender) : SenderGets(m)
  <2>1. PICK m : SenderGets(m)
    BY <1>1
  <2>2. CASE AdvanceWindow(m)
    <3> DEFINE step == NewAck(m) + 1 - cw_head
    <3>1. sstate \in Sending
      BY <2>2 DEF AdvanceWindow, AwaitsAck
    <3>2. \/ Enter("s_check_next_chunk")
          \/ \E after \in AfterAck(step) : Enter(after[1])
      BY <2>2 DEF AdvanceWindow
    <3>3. \A after \in AfterAck(step) :
            after[1] \in {"s_slow_start", "s_congestion_avoidance"}
      BY <3>1 DEF Sending, AfterAck, AfterSlowStart, AfterFastRecovery, AfterAvoidance
    <3>4. sphase' = "run" /\ sstate' # "Finished"
      BY <3>2, <3>3 DEF Enter
    <3> QED
      BY <3>4
  <2>3. CASE AwaitFinAck(m)
    <3>1. sphase' = "recv_fin"
      BY <2>3 DEF AwaitFinAck
    <3>2. {"ACK", "FIN"} \subseteq m.flags
      BY <2>3, <3>1 DEF AwaitFinAck
    <3>3. m \in InFlight(toSender)
      BY <2>3, ConsumeFact DEF AwaitFinAck, SGets, IInv, Typed, NetworkTyped
    <3> QED
      BY <3>2, <3>3 DEF IInv, NetworkInv
  <2>4. CASE AckFin(m)
    BY <2>4 DEF AckFin
  <2>5. CASE NotSyn(m) \/ GotSyn(m) \/ CrashInPop(m)
    BY <2>5 DEF NotSyn, GotSyn, CrashInPop, Enter
  <2>6. CASE IgnoredAck(m) \/ DuplicateAck(m) \/ InflateWindow(m)
    BY <2>6 DEF IgnoredAck, DuplicateAck, InflateWindow, AwaitsAck, Enter, Sending
  <2> QED
    BY <2>1, <2>2, <2>3, <2>4, <2>5, <2>6 DEF SenderGets
<1>2. CASE SenderRuns
  BY <1>2 DEF SenderRuns, SendSyn, TimeOut, FillWindow, FillWindowOnce, Retransmit,
              CheckNextChunk, SendFin, Enter
<1>3. CASE SenderTimeout
  BY <1>3 DEF SenderTimeout, SynTimeout, ReceiveTimeout, RetryFin, NoFin, Enter
<1> QED
  BY <1>1, <1>2, <1>3 DEF SenderNext

\* A sender that has seen its FIN answered, or ended, leaves behind a
\* receiver that closes.
FinAnsweredInv ==
  sphase = "recv_fin" \/ sstate = "Finished" => ReceiverClosing

LEMMA ClosingIsForGood ==
  ReceiverClosing /\ ReceiverNext => ReceiverClosing'
BY DEF ReceiverClosing, ReceiverNext, ReceiverGets, ReceiverRuns, WaitForSyn, AnswerSynAgain,
       FinBeforeData, FirstData, MoreData, FinAfterData, FinAgain, LastDatagram, AnswerSyn,
       SendOwnFin, FinTimeout

LEMMA FinAnsweredStep ==
  IInv /\ FinAnsweredInv /\ [Next]_vars => FinAnsweredInv'
<1> SUFFICES ASSUME IInv, FinAnsweredInv, [Next]_vars,
                    sphase' = "recv_fin" \/ sstate' = "Finished"
             PROVE  ReceiverClosing'
  BY DEF FinAnsweredInv
<1>1. CASE SenderNext /\ UNCHANGED <<receiver, buffer>>
  <2>1. \/ sphase = "recv_fin"
        \/ \E m \in InFlight(toSender) : FromReceiver(m) /\ "FIN" \in m.flags
    BY <1>1, WayToTheEnd
  <2>2. ReceiverClosing
    BY <2>1 DEF FinAnsweredInv, FromReceiver
  <2> QED
    BY <1>1, <2>2 DEF ReceiverClosing, receiver
<1>2. CASE ReceiverNext /\ UNCHANGED sender
  <2>1. ReceiverClosing
    BY <1>2 DEF FinAnsweredInv, sender
  <2> QED
    BY <1>2, <2>1, ClosingIsForGood
<1>3. CASE UNCHANGED <<sender, receiver>>
  BY <1>3 DEF FinAnsweredInv, ReceiverClosing, sender, receiver
<1> QED
  BY <1>1, <1>2, <1>3 DEF Next, vars

\* A sender that has ended has not left the receiver waiting for a FIN.
THEOREM SenderEndsAfterReceiver == Spec => []FinIsAnswered
<1>1. Init => FinAnsweredInv
  BY DEF Init, SenderInit, FinAnsweredInv
<1>2. FinAnsweredInv => FinIsAnswered
  BY DEF FinAnsweredInv, FinIsAnswered
<1> QED
  BY <1>1, <1>2, FinAnsweredStep, Invariant, PTL DEF Spec

-----------------------------------------------------------------------------
(* The refinement: each step of mp2 is a step of FileTransfer or none.     *)

WrittenUpToHead ==
  written = Transfer!Prefix(head) /\ head \in Nat /\ head <= Total /\ Len(written) = head

\* A file that holds the right packets is a prefix of the source file.
LEMMA WrittenIsPrefix ==
  IInv => WrittenUpToHead
<1>a. SUFFICES ASSUME IInv
               PROVE  WrittenUpToHead
  OBVIOUS
<1>1. /\ written \in Seq(Int) /\ Len(written) = head /\ head \in Nat
      /\ \A i \in 1..head : written[i] = i - 1
  BY <1>a DEF IInv, BufferInv, FileIntegrity
<1>2. written = [i \in 1..head |-> i - 1]
  BY <1>1
<1> QED
  BY <1>a, <1>1, <1>2, HeadBound DEF Transfer!Prefix, WrittenUpToHead

\* The file grows only while both programs run, and only in such a step.
LEMMA Growth ==
  IInv /\ [Next]_vars => \/ written' = written
                         \/ /\ rstate \in {"s_reveived_syn", "s_receiving"}
                            /\ rstate' \in {"s_receiving", "crashed"}
                            /\ sstate' = sstate
                            /\ head <= head'
<1>a. SUFFICES ASSUME IInv, [Next]_vars
               PROVE  \/ written' = written
                      \/ /\ rstate \in {"s_reveived_syn", "s_receiving"}
                         /\ rstate' \in {"s_receiving", "crashed"}
                         /\ sstate' = sstate
                         /\ head <= head'
  OBVIOUS
<1>1. CASE UNCHANGED vars
  BY <1>1 DEF vars, buffer
<1>2. CASE SenderNext /\ UNCHANGED <<receiver, buffer>>
  BY <1>2 DEF buffer
<1>3. CASE (LoseToReceiver \/ LoseToSender) /\ UNCHANGED <<sender, receiver, buffer>>
  BY <1>3 DEF buffer
<1>4. CASE ReceiverNext /\ UNCHANGED sender
  <2>1. CASE ReceiverRuns \/ FinTimeout
    BY <2>1 DEF ReceiverRuns, AnswerSyn, SendOwnFin, FinTimeout, buffer
  <2>2. CASE \E m \in Deliverable(toReceiver) : ReceiverGets(m)
    <3>1. PICK m : ReceiverGets(m)
      BY <2>2
    <3>2. CASE FirstData(m) \/ MoreData(m)
      <4>1. /\ rstate \in {"s_reveived_syn", "s_receiving"}
            /\ RGets(m) /\ Accept(m) /\ "FIN" \notin m.flags
        BY <3>2 DEF FirstData, MoreData
      <4>2. rstate' \in {"s_receiving", "crashed"}
        BY <4>1 DEF Accept
      <4>3. sstate' = sstate
        BY <1>4 DEF sender
      <4>4. head <= head'
        <5>1. IInv'
          BY <1>a, NextStep
        <5>2. head \in Nat /\ head' \in Nat
          BY <1>a, <5>1 DEF IInv, BufferInv
        <5>3. CASE UNCHANGED buffer
          BY <5>2, <5>3 DEF buffer
        <5>4. CASE ~ UNCHANGED buffer
          <6>1. gotpacket(U32(m.seq), m.data)
            BY <4>1, <5>4 DEF Accept
          <6>2. CASE TakeRun(U32(m.seq), m.data)
            <7>1. PICK n \in 1..Len(flags) : head' = head + n
              BY <6>2 DEF TakeRun
            <7>2. Len(flags) \in Nat
              BY <1>a DEF IInv, BufferInv
            <7> QED
              BY <5>2, <7>1, <7>2
          <6>3. CASE ~ TakeRun(U32(m.seq), m.data)
            <7>1. head' = head \/ head' = head + 1
              BY <6>1, <6>3 DEF gotpacket, TakeHead, FillSlot, Grow, Stale, buffer
            <7> QED
              BY <5>2, <7>1
          <6> QED
            BY <6>2, <6>3
        <5> QED
          BY <5>3, <5>4
      <4> QED
        BY <4>1, <4>2, <4>3, <4>4
    <3>3. CASE ~ (FirstData(m) \/ MoreData(m))
      BY <3>1, <3>3
         DEF ReceiverGets, WaitForSyn, AnswerSynAgain, FinBeforeData, FinAfterData, FinAgain,
             LastDatagram, buffer
    <3> QED
      BY <3>2, <3>3
  <2> QED
    BY <1>4, <2>1, <2>2 DEF ReceiverNext
<1> QED
  BY <1>a, <1>1, <1>2, <1>3, <1>4 DEF Next

\* Only one program ends in a step, and only when the file is whole.
LEMMA Ends ==
  ASSUME IInv, [Next]_vars
  PROVE  /\ sstate' = sstate \/ rstate' = rstate
         /\ sstate = "Finished" => sstate' = "Finished"
         /\ rstate = "Finished" => rstate' = "Finished"
         /\ sstate' = "Finished" \/ rstate' = "Finished" => head' = Total
<1>1. sstate' = sstate \/ rstate' = rstate
  BY DEF Next, vars, sender, receiver
<1>2. sstate = "Finished" => sstate' = "Finished"
  BY DEF Next, vars, sender, SenderNext, SenderGets, SenderRuns, SenderTimeout,
         NotSyn, GotSyn, IgnoredAck, DuplicateAck, InflateWindow, AdvanceWindow, CrashInPop,
         AwaitsAck, Sending, AwaitFinAck, AckFin, SendSyn, TimeOut, FillWindow,
         FillWindowOnce, Retransmit, CheckNextChunk, SendFin, SynTimeout, ReceiveTimeout,
         RetryFin, NoFin
<1>3. rstate = "Finished" => rstate' = "Finished"
  BY DEF Next, vars, receiver, ReceiverNext, ReceiverGets, ReceiverRuns, WaitForSyn,
         AnswerSynAgain, FinBeforeData, FirstData, MoreData, FinAfterData, FinAgain,
         LastDatagram, AnswerSyn, SendOwnFin, FinTimeout
<1>4. IInv'
  BY NextStep
<1>5. sstate' = "Finished" \/ rstate' = "Finished" => head' = Total
  BY <1>4 DEF IInv, SenderInv, ReceiverInv, SenderClosing, ReceiverClosing
<1> QED
  BY <1>1, <1>2, <1>3, <1>5

\* Every step is a step of the abstract transfer or leaves it alone.
LEMMA StepRefines ==
  IInv /\ [Next]_vars => [Transfer!Next]_(Transfer!vars)
<1>a. SUFFICES ASSUME IInv, [Next]_vars
               PROVE  [Transfer!Next]_(Transfer!vars)
  OBVIOUS
<1>1. IInv'
  BY <1>a, NextStep
<1>2. WrittenUpToHead'
  <2>1. IInv' => WrittenUpToHead'
    BY WrittenIsPrefix, PTL
  <2> QED
    BY <1>1, <2>1
<1>3. /\ written = Transfer!Prefix(head) /\ head \in Nat /\ head <= Total
      /\ Len(written) = head
      /\ written' = Transfer!Prefix(head') /\ head' \in Nat /\ head' <= Total
      /\ Len(written') = head'
  BY <1>a, <1>2, WrittenIsPrefix DEF WrittenUpToHead, Transfer!Prefix
<1>4. CASE written' = written
  <2>1. sstate' = "Finished" \/ rstate' = "Finished" => Transfer!Whole
    BY <1>3, <1>4, <1>a, Ends DEF Transfer!Whole
  <2> QED
    BY <1>4, <1>a, <2>1, Ends
       DEF Transfer!Next, Transfer!vars, Transfer!SenderFinishes, Transfer!ReceiverFinishes
<1>5. CASE written' # written
  <2>1. /\ rstate \in {"s_reveived_syn", "s_receiving"}
        /\ rstate' \in {"s_receiving", "crashed"}
        /\ sstate' = sstate /\ head <= head'
    BY <1>5, <1>a, Growth
  <2>2. head # head'
    BY <1>3, <1>5 DEF Transfer!Prefix
  <2>3. sstate # "Finished"
    <3>1. SUFFICES ASSUME sstate = "Finished"
                   PROVE  FALSE
      OBVIOUS
    <3>2. head = Total
      BY <1>a, <3>1 DEF IInv, SenderInv, SenderClosing
    <3> QED
      BY <1>3, <2>1, <2>2, <3>2, SenderAssumption
  <2>4. head' \in (Len(written) + 1)..Total
    BY <1>3, <2>1, <2>2, SenderAssumption
  <2>5. Transfer!Deliver
    BY <1>3, <2>1, <2>3, <2>4 DEF Transfer!Deliver
  <2> QED
    BY <2>5 DEF Transfer!Next
<1> QED
  BY <1>4, <1>5

\* mp2 implements FileTransfer: the receiver's file only grows, by packets of
\* the sender's file in their order, and neither program ends before it is
\* whole.
THEOREM Refinement == Spec => Implements
<1>1. Init => Transfer!Init
  BY DEF Init, SenderInit, ReceiverInit, BufferInit, Transfer!Init
<1> QED
  BY <1>1, Invariant, StepRefines, PTL DEF Spec, Implements, Transfer!Spec

-----------------------------------------------------------------------------
(* The receiver with several senders on its port: whatever they send, in   *)
(* whatever order it arrives, file, buffer and acknowledgements agree.     *)

Any == INSTANCE OpenReceiver

AnyInv ==
  /\ BufferInv
  /\ after_tail <= Total
  /\ toReceiver = Any!SentBySenders
  /\ toSender \in Channel
  /\ \A m \in InFlight(toSender) : "ACK" \in m.flags => m.ack < head

\* What the senders send: a packet at its position, or a header without data.
LEMMA SentBySendersFact ==
  ASSUME NEW m \in Any!SentBySenders
  PROVE  \/ \E k \in 0..(Total - 1) : m.flags = {} /\ m.seq = k /\ m.data = k
         \/ m.flags \in {{"SYN"}, {"FIN"}, {"ACK"}} /\ m.seq \in {-1, -2}
BY DEF Any!SentBySenders, Any!Packet, Any!Control

\* A step that sends a header which acknowledges less than what is written.
LEMMA AnySends ==
  ASSUME NEW bits \in SUBSET {"SYN", "FIN", "ACK"}, NEW a \in Int
  PROVE  /\ AnyInv /\ BufferInv' /\ head <= head' /\ after_tail' <= Total
         /\ toReceiver' = toReceiver
         /\ a < head'
         /\ toSender' = Transmit(toSender, << Control(bits, -1, a) >>)
         => AnyInv'
<1>a. SUFFICES ASSUME AnyInv, BufferInv', head <= head', after_tail' <= Total,
                      toReceiver' = toReceiver, a < head',
                      toSender' = Transmit(toSender, << Control(bits, -1, a) >>)
               PROVE  AnyInv'
  OBVIOUS
<1>1. PICK c \in Datagram : c = Control(bits, -1, a)
  BY ControlTyped
<1>2. /\ toSender' \in Channel
      /\ \A m \in InFlight(toSender') : m \in InFlight(toSender) \/ m = c
  <2>1. toSender' = Transmit(toSender, << c >>) /\ toSender \in Channel
    BY <1>1, <1>a DEF AnyInv
  <2>2. << c >> \in Seq(Datagram) /\ Range(<< c >>) = {c}
    BY DEF Range
  <2> QED
    BY <2>1, <2>2, TransmitFact
<1>3. c.ack = a
  BY <1>1 DEF Control
<1>4. /\ head \in Int /\ head' \in Int
      /\ \A m \in InFlight(toSender) : "ACK" \in m.flags => m.ack < head
  BY <1>a DEF AnyInv, BufferInv
<1>5. InFlight(toSender) \subseteq Datagram
  BY <1>a DEF AnyInv, Channel, InFlight, Range
<1>6. ASSUME NEW m \in InFlight(toSender'), "ACK" \in m.flags PROVE m.ack < head'
  <2>1. CASE m = c
    BY <1>3, <1>a, <2>1
  <2>2. CASE m \in InFlight(toSender)
    <3>1. m.ack \in Int /\ m.ack < head
      BY <1>4, <1>5, <1>6, <2>2 DEF Datagram
    <3> QED
      BY <1>4, <1>a, <3>1
  <2> QED
    BY <1>2, <2>1, <2>2
<1>7. toReceiver' = Any!SentBySenders'
  BY <1>a DEF AnyInv, Any!SentBySenders, Any!Packet, Any!Control
<1> QED
  BY <1>2, <1>6, <1>7, <1>a DEF AnyInv

\* Its network is that of ReliableTransfer, ...
LEMMA SameSends ==
  \A ch, bits, a : Any!Transmit(ch, << Any!Control(bits, -1, a) >>)
                     = Transmit(ch, << Control(bits, -1, a) >>)
<1> SUFFICES ASSUME NEW ch, NEW bits, NEW a
             PROVE  Any!Transmit(ch, << Any!Control(bits, -1, a) >>)
                      = Transmit(ch, << Control(bits, -1, a) >>)
  OBVIOUS
<1>1. Any!Control(bits, -1, a) = Control(bits, -1, a)
  BY DEF Any!Control, Control, Any!NoData, NoData
<1>2. ASSUME NEW ms PROVE Any!Transmit(ch, ms) = Transmit(ch, ms)
  <2> DEFINE queue == ch \o ms
  <2>1. Any!Smaller(Len(queue), Capacity) = Smaller(Len(queue), Capacity)
    BY DEF Any!Smaller, Smaller
  <2>2. Any!Range(ms) = Range(ms)
    BY Zenon DEF Any!Range, Range
  <2>3. /\ Any!Transmit(ch, ms) = IF Ordered
                                  THEN SubSeq(queue, 1, Any!Smaller(Len(queue), Capacity))
                                  ELSE ch \cup Any!Range(ms)
        /\ Transmit(ch, ms) = IF Ordered
                              THEN SubSeq(queue, 1, Smaller(Len(queue), Capacity))
                              ELSE ch \cup Range(ms)
    BY Zenon DEF Any!Transmit, Transmit
  <2> QED
    BY ONLY <2>1, <2>2, <2>3
<1> QED
  BY <1>1, <1>2

\* ... and so is the receiver.
LEMMA SameReceiver == Any!ReceiverNext => ReceiverNext
<1>1. ASSUME NEW m, Any!ReceiverGets(m) PROVE ReceiverGets(m)
  <2>1. Any!RGets(m) <=> RGets(m)
    BY DEF Any!RGets, RGets, Any!Deliverable, Deliverable, Any!Consume, Consume
  <2>2. \A bits : Any!RSends(bits) <=> RSends(bits)
    BY SameSends DEF Any!RSends, RSends, Any!get_ack, get_ack
  <2>3. Any!Accept(m) <=> Accept(m)
    <3>1. \A k, x : Any!gotpacket(k, x) <=> gotpacket(k, x)
      BY DEF Any!gotpacket, gotpacket, Any!TakeHead, TakeHead, Any!TakeRun, TakeRun,
             Any!FillSlot, FillSlot, Any!Grow, Grow, Any!Stale, Stale, Any!buffer, buffer
    <3>2. \A k : Any!Fits(k) <=> Fits(k)
      BY DEF Any!Fits, Fits
    <3>3. Any!U32(m.seq) = U32(m.seq)
      BY DEF Any!U32, U32
    <3> QED
      BY <3>1, <3>2, <3>3, SameSends
         DEF Any!Accept, Accept, Any!get_ack, get_ack, Any!buffer, buffer
  <2> QED
    BY <1>1, <2>1, <2>2, <2>3
       DEF Any!ReceiverGets, ReceiverGets, Any!WaitForSyn, WaitForSyn,
           Any!AnswerSynAgain, AnswerSynAgain, Any!FinBeforeData, FinBeforeData,
           Any!FirstData, FirstData, Any!MoreData, MoreData, Any!FinAfterData, FinAfterData,
           Any!FinAgain, FinAgain, Any!LastDatagram, LastDatagram,
           Any!buffer, buffer, Any!receiver, receiver
<1>2. Any!ReceiverRuns => ReceiverRuns
  BY SameSends DEF Any!ReceiverRuns, ReceiverRuns, Any!AnswerSyn, AnswerSyn,
                   Any!SendOwnFin, SendOwnFin, Any!RSends, RSends, Any!get_ack, get_ack,
                   Any!buffer, buffer
<1>3. Any!FinTimeout => FinTimeout
  BY DEF Any!FinTimeout, FinTimeout, Any!network, network, Any!buffer, buffer
<1>4. Any!Deliverable(toReceiver) = Deliverable(toReceiver)
  BY DEF Any!Deliverable, Deliverable
<1> QED
  BY <1>1, <1>2, <1>3, <1>4 DEF Any!ReceiverNext, ReceiverNext

\* A step that sends a header and leaves the buffer as it is.
LEMMA AnySendsHeader ==
  ASSUME NEW bits \in SUBSET {"SYN", "FIN", "ACK"}
  PROVE  AnyInv /\ RSends(bits) /\ UNCHANGED buffer /\ toReceiver' = toReceiver => AnyInv'
<1>a. SUFFICES ASSUME AnyInv, RSends(bits), UNCHANGED buffer, toReceiver' = toReceiver
               PROVE  AnyInv'
  OBVIOUS
<1>1. /\ BufferInv' /\ head' = head /\ after_tail' = after_tail
      /\ head \in Nat /\ after_tail \in Nat /\ after_tail <= Total
  BY <1>a DEF AnyInv, BufferInv, buffer, FileIntegrity, BufferAligned
<1>2. toSender' = Transmit(toSender, << Control(bits, -1, head - 1) >>)
  BY <1>a DEF RSends, get_ack
<1> QED
  BY <1>1, <1>2, <1>a, AnySends

\* A step that sends nothing and leaves the buffer as it is.
LEMMA AnyQuiet ==
  AnyInv /\ UNCHANGED <<toReceiver, toSender, buffer>> => AnyInv'
BY DEF AnyInv, BufferInv, buffer, FileIntegrity, BufferAligned, InFlight, Channel,
       Any!SentBySenders, Any!Packet, Any!Control

\* A packet goes to its place; a header does not fit into the memory.
LEMMA AnyAccept ==
  ASSUME MemSlots < Wrap - Total - 1, NEW m \in Any!SentBySenders, "FIN" \notin m.flags
  PROVE  AnyInv /\ Accept(m) /\ toReceiver' = toReceiver => AnyInv'
<1>a. SUFFICES ASSUME AnyInv, Accept(m), toReceiver' = toReceiver
               PROVE  AnyInv'
  OBVIOUS
<1>0. /\ head \in Nat /\ after_tail \in Nat /\ after_tail <= Total
      /\ Total \in Nat /\ Wrap \in Nat /\ MemSlots \in Nat /\ Total < Wrap
  BY <1>a, SenderAssumption, UdpAssumption, MemSlotsAssumption, WrapAssumption
     DEF AnyInv, BufferInv
<1>1. CASE Fits(U32(m.seq))
  <2>1. ASSUME m.seq \in {-1, -2} PROVE FALSE
    <3>1. U32(-1) = Wrap - 1 /\ U32(-2) = Wrap - 2
      BY <1>0, UnsignedFact
    <3>2. U32(m.seq) \in Int /\ U32(m.seq) >= Wrap - 2
      BY <1>0, <2>1, <3>1
    <3>3. U32(m.seq) - after_tail < MemSlots
      BY <1>1 DEF Fits
    <3> QED
      BY <1>0, <3>2, <3>3
  <2>2. PICK k \in 0..(Total - 1) : m.seq = k /\ m.data = k
    BY <2>1, SentBySendersFact
  <2>3. k \in Nat /\ k < Wrap /\ k + 1 <= Total
    BY <1>0
  <2>4. U32(m.seq) = k
    BY <2>2, <2>3, UnsignedFact
  <2>5. /\ gotpacket(k, k)
        /\ toSender' = Transmit(toSender, << Control({"ACK"}, -1, head' - 1) >>)
    BY <1>1, <1>a, <2>2, <2>4 DEF Accept, get_ack
  <2>6. BufferInv' /\ head <= head' /\ (after_tail' = after_tail \/ after_tail' = k + 1)
    BY <1>a, <2>3, <2>5, GotPacketFact DEF AnyInv
  <2>7. head' \in Nat
    BY <2>6 DEF BufferInv
  <2>8. after_tail' <= Total
    BY <1>0, <2>3, <2>6
  <2>9. head' - 1 \in Int /\ head' - 1 < head'
    <3>1. PICK h \in Nat : h = head'
      BY <2>7
    <3>2. h - 1 \in Int /\ h - 1 < h
      OBVIOUS
    <3> QED
      BY <3>1, <3>2
  <2> QED
    BY <1>a, <2>5, <2>6, <2>8, <2>9, AnySends
<1>2. CASE ~ Fits(U32(m.seq))
  BY <1>2, <1>a, AnyQuiet DEF Accept
<1> QED
  BY <1>1, <1>2

\* Every step of the receiver keeps the invariant.
LEMMA AnyStep ==
  ASSUME Ordered = FALSE, MemSlots < Wrap - Total - 1
  PROVE  AnyInv /\ [Any!ReceiverNext]_(Any!vars) => AnyInv'
<1>a. SUFFICES ASSUME AnyInv, [Any!ReceiverNext]_(Any!vars)
               PROVE  AnyInv'
  OBVIOUS
<1>1. CASE UNCHANGED Any!vars
  BY <1>1, <1>a, AnyQuiet DEF Any!vars, Any!network, Any!buffer, buffer
<1>2. CASE Any!ReceiverNext
  <2>0. ReceiverNext
    BY <1>2, SameReceiver
  <2>1. CASE \E m \in Deliverable(toReceiver) : ReceiverGets(m)
    <3>1. PICK m : ReceiverGets(m)
      BY <2>1
    <3>2. ASSUME RGets(m) PROVE m \in Any!SentBySenders /\ toReceiver' = toReceiver
      BY <1>a, <3>2 DEF RGets, Deliverable, Consume, AnyInv
    <3>3. CASE WaitForSyn(m) \/ LastDatagram(m)
      BY <1>a, <3>2, <3>3, AnyQuiet DEF WaitForSyn, LastDatagram
    <3>4. CASE FirstData(m) \/ MoreData(m)
      <4>1. RGets(m) /\ Accept(m) /\ "FIN" \notin m.flags
        BY <3>4 DEF FirstData, MoreData
      <4> QED
        BY <1>a, <3>2, <4>1, AnyAccept
    <3>5. CASE AnswerSynAgain(m) \/ FinBeforeData(m) \/ FinAfterData(m) \/ FinAgain(m)
      <4>1. /\ RGets(m) /\ UNCHANGED buffer
            /\ RSends({"SYN"}) \/ RSends({"ACK"}) \/ RSends({"ACK", "FIN"})
        BY <3>5 DEF AnswerSynAgain, FinBeforeData, FinAfterData, FinAgain
      <4> QED
        BY <1>a, <3>2, <4>1, AnySendsHeader
    <3> QED
      BY <3>1, <3>3, <3>4, <3>5 DEF ReceiverGets
  <2>2. CASE ReceiverRuns
    BY <1>a, <2>2, AnySendsHeader DEF ReceiverRuns, AnswerSyn, SendOwnFin
  <2>3. CASE FinTimeout
    BY <1>a, <2>3, AnyQuiet DEF FinTimeout, network
  <2> QED
    BY <2>0, <2>1, <2>2, <2>3 DEF ReceiverNext
<1> QED
  BY <1>1, <1>2, <1>a

\* At first nothing is written or acknowledged.
LEMMA AnyInit ==
  ASSUME Ordered = FALSE
  PROVE  Any!Init => AnyInv
<1>a. SUFFICES ASSUME Any!Init PROVE AnyInv
  OBVIOUS
<1>1. /\ head = 0 /\ after_tail = 0 /\ packets = << >> /\ flags = << >> /\ written = << >>
      /\ toReceiver = Any!SentBySenders /\ toSender = {}
  BY <1>a DEF Any!Init, Any!ReceiverInit, Any!BufferInit, Any!EmptyChannel
<1>2. << >> \in Seq(Int) /\ << >> \in Seq(BOOLEAN) /\ Len(<< >>) = 0
  OBVIOUS
<1>3. BufferInv
  BY <1>1, <1>2 DEF BufferInv, FileIntegrity, BufferAligned
<1>4. toSender \in Channel /\ InFlight(toSender) = {}
  BY <1>1 DEF Channel, InFlight
<1> QED
  BY <1>1, <1>3, <1>4, SenderAssumption DEF AnyInv

\* Packets in any order, and headers of any sender, leave the file a prefix and
\* the buffer aligned, and no acknowledgement covers a packet that is not written.
THEOREM AnySenderIsSafe ==
  ASSUME Ordered = FALSE, MemSlots < Wrap - Total - 1
  PROVE  Any!Spec => [](FileIntegrity /\ BufferAligned /\ AcksAreWritten)
<1>1. Any!Init => AnyInv
  BY AnyInit
<1>2. AnyInv /\ [Any!ReceiverNext]_(Any!vars) => AnyInv'
  BY AnyStep
<1>3. AnyInv => FileIntegrity /\ BufferAligned /\ AcksAreWritten
  BY DEF AnyInv, BufferInv, AcksAreWritten
<1> QED
  BY <1>1, <1>2, <1>3, PTL DEF Any!Spec
=============================================================================
