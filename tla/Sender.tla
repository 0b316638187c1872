-------------------------------- MODULE Sender --------------------------------
(***************************************************************************)
(* reliablyTransfer of sender_main.C: one thread, a loop over the cases of *)
(* a state machine.  A case first runs (sphase = "run") and then, in most  *)
(* states, blocks in TCP_receive (sphase = "recv"; "recv_fin" is the       *)
(* second TCP_receive of s_ready_send_fin) until a datagram arrives or the *)
(* receive timeout expires.                                                *)
(*                                                                         *)
(* Lengths and offsets in bytes are counted in packets: "k * MSS >=        *)
(* len_file" is k >= ChunkLen.  The file is sent in chunks of ChunkPkts    *)
(* packets (MAX_FILE_LEN bytes); packets are numbered from 0 in a chunk.   *)
(*                                                                         *)
(* cw_width_double and ssthresh are represented by their integer parts,    *)
(* cw_width being floor(cw_width_double) wherever a case ends; where the   *)
(* code's result depends on the fractions, every outcome is allowed.       *)
(*                                                                         *)
(* time_q is represented by its length.  A pop from the empty std::queue   *)
(* is undefined: libstdc++ moves the front past the back (a negative       *)
(* length), and once it leaves the deque's node the process dies.  A push  *)
(* that would make time_q longer than MaxQueue is not modelled.            *)
(*                                                                         *)
(* The duration of the receive timeout (set_dt, update_timeout) is left    *)
(* out: a TCP_receive may time out whenever it waits.                      *)
(***************************************************************************)
EXTENDS Udp

CONSTANTS
  Total,         \* packets in the transfer (bytesToTransfer)
  ChunkPkts,     \* packets in a full chunk (MAX_FILE_LEN)
  InitSsthresh,  \* INIT_WINDOW_THRESHOLD
  DequeNode,     \* elements in a node of a std::deque<uint64_t>: 64
  SendMayFail,   \* whether a sendto may fail (once in a burst)
  MaxQueue,      \* bound on the length of time_q
  MaxWindow      \* bound on the window inflation of fast recovery

ASSUME SenderAssumption ==
  /\ Total \in Nat \ {0}
  /\ ChunkPkts \in Nat \ {0}
  /\ InitSsthresh \in Nat \ {0}
  /\ DequeNode \in Nat \ {0}
  /\ SendMayFail \in BOOLEAN
  /\ MaxQueue \in Nat
  /\ MaxWindow \in Nat

\* 2^32 is far above every count of packets, so that a relative
\* acknowledgement that wraps around is far above every count too.
ASSUME WrapAssumption == Wrap > MaxQueue + 2 * Total + DequeNode

VARIABLES
  sstate, sphase,
  cw_head, cw_width, next_pkt, ssthresh, dupAckCnt, time_q,
  cw_head_offset,  \* sequence number of packet 0 of the chunk
  file_offset      \* position in the file of packet 0 of the chunk

window == <<cw_head, cw_width, next_pkt, ssthresh, dupAckCnt, time_q>>
chunk == <<cw_head_offset, file_offset>>
sender == <<sstate, sphase, window, chunk>>

Sending == {"s_slow_start", "s_fast_recovery", "s_congestion_avoidance"}

SState == Sending \cup
  {"s_0", "s_wait_syn", "s_time_out", "s_before_fast_recovery",
   "s_check_next_chunk", "s_ready_send_fin", "Finished", "crashed"}

SenderInit ==
  /\ sstate = "s_0"
  /\ sphase = "run"
  /\ cw_head = 0
  /\ cw_width = 1
  /\ next_pkt = 0
  /\ ssthresh = InitSsthresh
  /\ dupAckCnt = 0
  /\ time_q = 0
  /\ cw_head_offset = 0
  /\ file_offset = 0

SenderClosing == sstate \in {"s_ready_send_fin", "Finished"}

\* Mutant of ChunkLen: the partial packet at the end is rounded away.
ChunkLenRoundedDown == Smaller(ChunkPkts, Total - file_offset) - 1

ChunkLen == Smaller(ChunkPkts, Total - file_offset)

-----------------------------------------------------------------------------
\* A failing sendto of the retry loops pushes another send time.
ExtraPushes(pkts) == IF SendMayFail /\ pkts > 0 THEN {0, 1} ELSE {0}

DataPacket(k) == Packet(cw_head_offset + k, file_offset + k)

Burst(from, to) == [i \in 1..(to - from) |-> DataPacket(from + i - 1)]

\* Where the send loop "for(; next < cw_head + width; next++)" stops: at the
\* end of the window or of the chunk, or at once.
LoopEnd(from, width) ==
  LET end == Smaller(cw_head + width, ChunkLen)
  IN  IF from < end THEN end ELSE from

SendsControl(flagbits, seq) ==
  toReceiver' = Transmit(toReceiver, << Control(flagbits, seq, 0) >>)

\* TCP_receive returns the datagram m.
SGets(m) ==
  /\ m \in Deliverable(toSender)
  /\ toSender' = Consume(toSender)
  /\ UNCHANGED toReceiver

Enter(state) == sstate' = state /\ sphase' = "run"

-----------------------------------------------------------------------------
\* case s_0.
SendSyn ==
  /\ sstate = "s_0"
  /\ \E extra \in ExtraPushes(1) :
       time_q' = time_q + 1 + extra
  /\ time_q' <= MaxQueue
  /\ SendsControl({"SYN"}, -1)
  /\ sstate' = "s_wait_syn"
  /\ sphase' = "recv"
  /\ UNCHANGED <<toSender, cw_head, cw_width, next_pkt, ssthresh, dupAckCnt, chunk>>

\* case s_wait_syn: the timeout, a datagram that is no SYN, and the SYN.
SynTimeout ==
  /\ sstate = "s_wait_syn"
  /\ time_q' = time_q - 1
  /\ Enter("s_0")
  /\ UNCHANGED <<network, cw_head, cw_width, next_pkt, ssthresh, dupAckCnt, chunk>>

NotSyn(m) ==
  /\ sstate = "s_wait_syn"
  /\ SGets(m)
  /\ "SYN" \notin m.flags
  /\ time_q' = time_q - 1
  /\ Enter("s_0")
  /\ UNCHANGED <<cw_head, cw_width, next_pkt, ssthresh, dupAckCnt, chunk>>

GotSyn(m) ==
  /\ sstate = "s_wait_syn"
  /\ SGets(m)
  /\ "SYN" \in m.flags
  /\ cw_head' = 0
  /\ cw_width' = 1
  /\ next_pkt' = 0
  /\ time_q' = 0
  /\ Enter("s_slow_start")
  /\ UNCHANGED <<ssthresh, dupAckCnt, chunk>>

-----------------------------------------------------------------------------
\* Mutant of TimeOut: next_pkt is not reset.
TimeOutWithoutRewind ==
  /\ sstate = "s_time_out"
  /\ time_q' = 0
  /\ ssthresh' = IF cw_width \div 2 < 1 THEN 1 ELSE cw_width \div 2
  /\ cw_width' = 1
  /\ dupAckCnt' = 0
  /\ Enter("s_slow_start")
  /\ UNCHANGED <<network, cw_head, next_pkt, chunk>>

\* case s_time_out: back to one packet at the head of the window.
TimeOut ==
  /\ sstate = "s_time_out"
  /\ time_q' = 0
  /\ next_pkt' = cw_head
  /\ ssthresh' = IF cw_width \div 2 < 1 THEN 1 ELSE cw_width \div 2
  /\ cw_width' = 1
  /\ dupAckCnt' = 0
  /\ Enter("s_slow_start")
  /\ UNCHANGED <<network, cw_head, chunk>>

\* The send loop of s_slow_start and s_fast_recovery, which retries a send
\* that fails ...
FillWindow ==
  /\ sstate \in {"s_slow_start", "s_fast_recovery"}
  /\ sphase = "run"
  /\ LET end == LoopEnd(next_pkt, cw_width)
     IN  /\ toReceiver' = Transmit(toReceiver, Burst(next_pkt, end))
         /\ \E extra \in ExtraPushes(end - next_pkt) :
              time_q' = time_q + (end - next_pkt) + extra
         /\ time_q' <= MaxQueue
         /\ next_pkt' = end
  /\ sphase' = "recv"
  /\ UNCHANGED <<toSender, sstate, cw_head, cw_width, ssthresh, dupAckCnt, chunk>>

\* ... and that of s_congestion_avoidance, which does not: packet k is
\* counted as sent and its send time is pushed twice.
FillWindowOnce ==
  /\ sstate = "s_congestion_avoidance"
  /\ sphase = "run"
  /\ LET end == LoopEnd(next_pkt, cw_width)
     IN  /\ \/ /\ toReceiver' = Transmit(toReceiver, Burst(next_pkt, end))
               /\ time_q' = time_q + (end - next_pkt)
            \/ \E k \in next_pkt..(end - 1) :
                 /\ SendMayFail
                 /\ toReceiver' = Transmit(toReceiver, Burst(next_pkt, k) \o Burst(k + 1, end))
                 /\ time_q' = time_q + (end - next_pkt) + 1
         /\ time_q' <= MaxQueue
         /\ next_pkt' = end
  /\ sphase' = "recv"
  /\ UNCHANGED <<toSender, sstate, cw_head, cw_width, ssthresh, dupAckCnt, chunk>>

ReceiveTimeout ==
  /\ sstate \in Sending
  /\ sphase = "recv"
  /\ Enter("s_time_out")
  /\ UNCHANGED <<network, window, chunk>>

-----------------------------------------------------------------------------
\* An acknowledgement relative to the chunk is an int32_t in s_slow_start and
\* a uint32_t in s_fast_recovery and s_congestion_avoidance; the comparisons
\* with cw_head - 1 are of that type too.
Unsigned(n) == IF sstate = "s_slow_start" THEN n ELSE U32(n)

NewAck(m) == Unsigned(m.ack - cw_head_offset)

\* Mutant of LastAcked: a duplicate passes for a new acknowledgement.
BeforeLastAcked == Unsigned(cw_head - 2)

LastAcked == Unsigned(cw_head - 1)

AwaitsAck(m) ==
  /\ sstate \in Sending
  /\ sphase = "recv"
  /\ SGets(m)

\* "Why not ack?", or an acknowledgement older than the window.
IgnoredAck(m) ==
  /\ AwaitsAck(m)
  /\ "ACK" \in m.flags => NewAck(m) < LastAcked
  /\ sphase' = "run"
  /\ UNCHANGED <<sstate, window, chunk>>

DuplicateAck(m) ==
  /\ AwaitsAck(m)
  /\ sstate # "s_fast_recovery"
  /\ "ACK" \in m.flags
  /\ NewAck(m) = LastAcked
  /\ dupAckCnt' = dupAckCnt + 1
  /\ Enter(IF dupAckCnt + 1 >= 3 THEN "s_before_fast_recovery" ELSE sstate)
  /\ UNCHANGED <<cw_head, cw_width, next_pkt, ssthresh, time_q, chunk>>

\* In s_fast_recovery a duplicate inflates the window instead.
InflateWindow(m) ==
  /\ AwaitsAck(m)
  /\ sstate = "s_fast_recovery"
  /\ "ACK" \in m.flags
  /\ NewAck(m) = LastAcked
  /\ cw_width < MaxWindow
  /\ cw_width' = cw_width + 1
  /\ sphase' = "run"
  /\ UNCHANGED <<sstate, cw_head, next_pkt, ssthresh, dupAckCnt, time_q, chunk>>

\* floor(width + step / floor(width)), for a width with any fraction.
Grown(width, step) ==
  {width + step \div width + carry :
     carry \in IF step % width = 0 THEN {0} ELSE {0, 1}}

\* The state and the window after a new acknowledgement of step packets that
\* does not complete the chunk.
AfterSlowStart(step) ==
  LET sum == cw_width + step
      over == sum - ssthresh
  IN  (IF over <= 0 THEN {<<"s_slow_start", sum>>} ELSE {})
      \cup
      (IF over >= 0
       THEN {<<"s_congestion_avoidance", ssthresh + over \div cw_width + carry>> :
               carry \in IF over % cw_width > 1 THEN {0, 1} ELSE {0}}
       ELSE {})

\* Mutant of AfterFastRecovery: the width 0 is not raised to 1.
AfterFastRecoveryUnraised(step) ==
  {"s_congestion_avoidance"} \X
    (IF ssthresh = 0 THEN {0} ELSE Grown(ssthresh, step))

\* A threshold below one makes the code divide by zero; on x86-64 the
\* conversion of the infinity to uint32_t yields 0, which becomes 1.
AfterFastRecovery(step) ==
  {"s_congestion_avoidance"} \X
    (IF ssthresh = 0 THEN {1} ELSE Grown(ssthresh, step))

AfterAvoidance(step) == {"s_congestion_avoidance"} \X Grown(cw_width, step)

AfterAck(step) ==
  CASE sstate = "s_slow_start" -> AfterSlowStart(step)
    [] sstate = "s_fast_recovery" -> AfterFastRecovery(step)
    [] sstate = "s_congestion_avoidance" -> AfterAvoidance(step)

\* A new acknowledgement pops the send times of the packets it covers.  Only
\* s_slow_start looks whether time_q holds that many; the others pop from the
\* empty queue, and survive it while they stay inside the deque's node.
PopsTooMany(step) == step > time_q

AdvanceWindow(m) ==
  LET step == NewAck(m) + 1 - cw_head
      newHead == NewAck(m) + 1
  IN  /\ AwaitsAck(m)
      /\ "ACK" \in m.flags
      /\ NewAck(m) > LastAcked
      /\ IF sstate = "s_slow_start"
         THEN time_q' = IF PopsTooMany(step) THEN 0 ELSE time_q - step
         ELSE /\ step - time_q < DequeNode
              /\ time_q' = time_q - step
      /\ cw_head' = newHead
      /\ IF newHead >= ChunkLen
         THEN Enter("s_check_next_chunk") /\ UNCHANGED cw_width
         ELSE \E after \in AfterAck(step) :
                Enter(after[1]) /\ cw_width' = after[2]
      /\ dupAckCnt' = 0
      /\ UNCHANGED <<next_pkt, ssthresh, chunk>>

CrashInPop(m) ==
  /\ AwaitsAck(m)
  /\ sstate # "s_slow_start"
  /\ "ACK" \in m.flags
  /\ NewAck(m) > LastAcked
  /\ PopsTooMany(NewAck(m) + 1 - cw_head)
  /\ Enter("crashed")
  /\ UNCHANGED <<window, chunk>>

-----------------------------------------------------------------------------
\* case s_before_fast_recovery: retransmit the head of the window, halve the
\* threshold, and send on from the end of the old window if the new one is
\* wider.  next_pkt is set to that end whether it was reached or not.
Retransmit ==
  /\ sstate = "s_before_fast_recovery"
  /\ IF cw_head >= ChunkLen
     THEN /\ Enter("s_check_next_chunk")
          /\ UNCHANGED <<toReceiver, cw_width, next_pkt, ssthresh, time_q>>
     ELSE LET width == cw_width \div 2 + 3
              from == cw_head + cw_width
              end == LoopEnd(from, width)
              more == IF width > cw_width THEN end - from ELSE 0
          IN  /\ ssthresh' = cw_width \div 2
              /\ cw_width' = width
              /\ next_pkt' = IF width > cw_width THEN end ELSE next_pkt
              /\ toReceiver' = Transmit(toReceiver,
                                 << DataPacket(cw_head) >> \o Burst(from, from + more))
              /\ \E extra \in ExtraPushes(1) : time_q' = time_q + more + extra
              /\ time_q' <= MaxQueue
              /\ Enter("s_fast_recovery")
  /\ UNCHANGED <<toSender, cw_head, dupAckCnt, chunk>>

\* Mutant of CheckNextChunk: the sequence numbers start at the old offset.
CheckNextChunkSameOffset ==
  /\ sstate = "s_check_next_chunk"
  /\ file_offset' = file_offset + ChunkPkts
  /\ IF file_offset' >= Total
     THEN /\ Enter("s_ready_send_fin")
          /\ UNCHANGED window
     ELSE /\ cw_head' = 0
          /\ cw_width' = 1
          /\ next_pkt' = 0
          /\ time_q' = 0
          /\ Enter("s_slow_start")
          /\ UNCHANGED <<ssthresh, dupAckCnt>>
  /\ UNCHANGED <<network, cw_head_offset>>

\* case s_check_next_chunk.
CheckNextChunk ==
  /\ sstate = "s_check_next_chunk"
  /\ file_offset' = file_offset + ChunkPkts
  /\ IF file_offset' >= Total
     THEN /\ Enter("s_ready_send_fin")
          /\ UNCHANGED <<window, cw_head_offset>>
     ELSE /\ cw_head_offset' = cw_head_offset + cw_head
          /\ cw_head' = 0
          /\ cw_width' = 1
          /\ next_pkt' = 0
          /\ time_q' = 0
          /\ Enter("s_slow_start")
          /\ UNCHANGED <<ssthresh, dupAckCnt>>
  /\ UNCHANGED network

-----------------------------------------------------------------------------
\* case s_ready_send_fin.
SendFin ==
  /\ sstate = "s_ready_send_fin"
  /\ sphase = "run"
  /\ SendsControl({"FIN"}, -2)
  /\ sphase' = "recv"
  /\ UNCHANGED <<toSender, sstate, window, chunk>>

RetryFin ==
  /\ sstate = "s_ready_send_fin"
  /\ sphase = "recv"
  /\ sphase' = "run"
  /\ UNCHANGED <<network, sstate, window, chunk>>

\* Mutant of AwaitFinAck: an acknowledgement of data passes for the FIN's.
AwaitAnyAck(m) ==
  /\ sstate = "s_ready_send_fin"
  /\ sphase = "recv"
  /\ SGets(m)
  /\ sphase' = IF "ACK" \in m.flags THEN "recv_fin" ELSE "run"
  /\ UNCHANGED <<sstate, window, chunk>>

\* Only a datagram with both flags ends the wait for the FIN's ACK.
AwaitFinAck(m) ==
  /\ sstate = "s_ready_send_fin"
  /\ sphase = "recv"
  /\ SGets(m)
  /\ sphase' = IF {"ACK", "FIN"} \subseteq m.flags THEN "recv_fin" ELSE "run"
  /\ UNCHANGED <<sstate, window, chunk>>

Finish ==
  /\ sstate' = "Finished"
  /\ UNCHANGED <<sphase, window, chunk>>

\* "Whatever": a timeout or anything but the receiver's FIN ends it as well.
AckFin(m) ==
  /\ sstate = "s_ready_send_fin"
  /\ sphase = "recv_fin"
  /\ m \in Deliverable(toSender)
  /\ toSender' = Consume(toSender)
  /\ IF "FIN" \in m.flags /\ "ACK" \notin m.flags
     THEN SendsControl({"ACK"}, -2)
     ELSE UNCHANGED toReceiver
  /\ Finish

NoFin ==
  /\ sstate = "s_ready_send_fin"
  /\ sphase = "recv_fin"
  /\ Finish
  /\ UNCHANGED network

-----------------------------------------------------------------------------
SenderGets(m) ==
  \/ NotSyn(m) \/ GotSyn(m)
  \/ IgnoredAck(m) \/ DuplicateAck(m) \/ InflateWindow(m)
  \/ AdvanceWindow(m) \/ CrashInPop(m)
  \/ AwaitFinAck(m) \/ AckFin(m)

SenderRuns ==
  \/ SendSyn \/ TimeOut \/ FillWindow \/ FillWindowOnce
  \/ Retransmit \/ CheckNextChunk \/ SendFin

SenderTimeout == SynTimeout \/ ReceiveTimeout \/ RetryFin \/ NoFin

SenderNext ==
  \/ \E m \in Deliverable(toSender) : SenderGets(m)
  \/ SenderRuns
  \/ SenderTimeout
=============================================================================
