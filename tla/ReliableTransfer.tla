--------------------------- MODULE ReliableTransfer ---------------------------
(***************************************************************************)
(* The file transfer of mp2: reliable_sender and reliable_receiver, joined *)
(* by a UDP network.                                                       *)
(***************************************************************************)
EXTENDS Sender, Receiver

\* A SYN's sequence number, as a uint32_t, asks for more than there is.
ASSUME MemoryAssumption == MemSlots < Wrap - Total

vars == <<network, sender, receiver, buffer>>

Init ==
  /\ toReceiver = EmptyChannel
  /\ toSender = EmptyChannel
  /\ SenderInit
  /\ ReceiverInit

Next ==
  \/ SenderNext /\ UNCHANGED <<receiver, buffer>>
  \/ ReceiverNext /\ UNCHANGED sender
  \/ (LoseToReceiver \/ LoseToSender) /\ UNCHANGED <<sender, receiver, buffer>>

Spec == Init /\ [][Next]_vars

-----------------------------------------------------------------------------
\* The variables keep to the values the programs can hold.
TypeOK ==
  /\ toReceiver \in Channel
  /\ toSender \in Channel
  /\ sstate \in SState
  /\ sphase \in {"run", "recv", "recv_fin"}
  /\ cw_head \in Nat
  /\ cw_width \in Nat \ {0}
  /\ next_pkt \in Nat
  /\ ssthresh \in Nat
  /\ dupAckCnt \in Nat
  /\ time_q \in Int
  /\ cw_head_offset \in Nat
  /\ file_offset \in Nat
  /\ rstate \in RState
  /\ rphase \in {"run", "recv"}
  /\ head \in Nat
  /\ after_tail \in Nat
  /\ packets \in Seq(Int)
  /\ flags \in Seq(BOOLEAN)
  /\ written \in Seq(Int)

-----------------------------------------------------------------------------
\* The packets the sender takes for delivered.
Acked == cw_head_offset + cw_head

\* The sender never moves its window, its chunk and the memory that holds it
\* past a packet that the receiver has not written to the file.
AckedIsReceived ==
  ~ SenderClosing => Acked <= Len(written)

\* No side closes and no FIN travels before the whole file is written: the
\* receiver, which ends on a FIN without a look at the length, can trust it.
FinImpliesComplete ==
  \/ SenderClosing
  \/ ReceiverClosing
  \/ \E m \in InFlight(toReceiver) : "FIN" \in m.flags
  => Len(written) = Total

\* The sender ends only after the receiver has taken its FIN.  The receiver
\* has no timeout before that: if a late acknowledgement of data could pass
\* for the answer to the FIN, it would be left waiting for ever.
FinIsAnswered ==
  sstate = "Finished" => ReceiverClosing

\* time_q has a send time for every packet of the window that is in flight,
\* in spite of timeouts that empty it, of acknowledgements of packets sent
\* before the timeout that pop more than was pushed since, and of the jumps
\* of next_pkt in s_before_fast_recovery.  So time_q.front(), from which each
\* case computes its receive timeout, exists.
TimeQueueCovers ==
  sstate \in Sending =>
    /\ time_q >= Smaller(next_pkt, ChunkLen) - cw_head
    /\ sphase = "recv" => time_q >= 1

\* An acknowledgement older than the window never passes for a new one,
\* although it is compared as a uint32_t: in the first chunk, and in every
\* chunk on a path that keeps the order.
StaleAckRecognised ==
  Ordered \/ file_offset = 0 =>
    \A m \in InFlight(toSender) :
      sstate \in Sending /\ "ACK" \in m.flags /\ NewAck(m) > LastAcked
        => m.ack >= Acked

\* A path that keeps the order never brings a SYN to a receiver that has left
\* the handshake, where its sequence number would exhaust the memory.
NoLateSyn ==
  Ordered => rstate # "crashed"

\* The abstract file transfer.
Transfer == INSTANCE FileTransfer WITH
  file <- written,
  senderDone <- sstate = "Finished",
  receiverDone <- rstate = "Finished"

Implements == Transfer!Spec
=============================================================================
