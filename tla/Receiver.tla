------------------------------- MODULE Receiver -------------------------------
(***************************************************************************)
(* reliablyReceive of receiver_main.C: a single thread that is either      *)
(* blocked in recvfrom (rphase = "recv") or runs the code of its state up  *)
(* to the next recvfrom (rphase = "run").                                  *)
(*                                                                         *)
(* Its socket has no receive timeout until s_received_fin sets five        *)
(* seconds.  A sendto that fails is retried until it succeeds, which has   *)
(* no effect on the state and is one step with the sendto that succeeds.   *)
(***************************************************************************)
EXTENDS Udp, PacketsBuffer

VARIABLES rstate, rphase

receiver == <<rstate, rphase>>

RState == {"s_0", "s_reveived_syn", "s_receiving", "s_received_fin",
           "Finished", "crashed"}

ReceiverInit ==
  /\ BufferInit
  /\ rstate = "s_0"
  /\ rphase = "recv"

ReceiverClosing == rstate \in {"s_received_fin", "Finished"}

\* recvfrom returns the datagram m.
RGets(m) ==
  /\ rphase = "recv"
  /\ m \in Deliverable(toReceiver)
  /\ toReceiver' = Consume(toReceiver)

\* The receiver sends a header with these flag bits.  Its acknowledge_number
\* was last set from get_ack() or, before any packet, to the SYN's -1.
RSends(flagbits) ==
  toSender' = Transmit(toSender, << Control(flagbits, -1, get_ack) >>)

-----------------------------------------------------------------------------
\* case s_0: wait for a SYN.
WaitForSyn(m) ==
  /\ rstate = "s_0"
  /\ RGets(m)
  /\ IF "SYN" \in m.flags
     THEN rstate' = "s_reveived_syn" /\ rphase' = "run"
     ELSE UNCHANGED receiver
  /\ UNCHANGED <<toSender, buffer>>

\* case s_reveived_syn: answer the SYN, then wait.
AnswerSyn ==
  /\ rstate = "s_reveived_syn"
  /\ rphase = "run"
  /\ rphase' = "recv"
  /\ RSends({"SYN"})
  /\ UNCHANGED <<toReceiver, rstate, buffer>>

\* Another SYN is answered again.
AnswerSynAgain(m) ==
  /\ rstate = "s_reveived_syn"
  /\ RGets(m)
  /\ "SYN" \in m.flags
  /\ RSends({"SYN"})
  /\ UNCHANGED <<receiver, buffer>>

\* A FIN before any packet is acknowledged with ACK alone.
FinBeforeData(m) ==
  /\ rstate = "s_reveived_syn"
  /\ RGets(m)
  /\ "SYN" \notin m.flags
  /\ "FIN" \in m.flags
  /\ rstate' = "s_received_fin"
  /\ rphase' = "run"
  /\ RSends({"ACK"})
  /\ UNCHANGED buffer

\* Hand a datagram to the buffer, append what it returns to the file and
\* acknowledge.  In s_receiving nothing looks for a SYN: its sequence number
\* -1 is the largest uint32_t, and the buffer asks for memory up to it.
Accept(m) ==
  LET seq == U32(m.seq)
  IN  IF Fits(seq)
      THEN /\ gotpacket(seq, m.data)
           /\ toSender' = Transmit(toSender, << Control({"ACK"}, -1, get_ack') >>)
           /\ rstate' = "s_receiving"
           /\ UNCHANGED rphase
      ELSE /\ rstate' = "crashed"
           /\ UNCHANGED <<toSender, rphase, buffer>>

\* Mutant of FirstData: no second look for a SYN.
FirstDataOrSyn(m) ==
  /\ rstate = "s_reveived_syn"
  /\ RGets(m)
  /\ "FIN" \notin m.flags
  /\ Accept(m)

FirstData(m) ==
  /\ rstate = "s_reveived_syn"
  /\ RGets(m)
  /\ m.flags \cap {"SYN", "FIN"} = {}
  /\ Accept(m)

\* case s_receiving.
MoreData(m) ==
  /\ rstate = "s_receiving"
  /\ RGets(m)
  /\ "FIN" \notin m.flags
  /\ Accept(m)

FinAfterData(m) ==
  /\ rstate = "s_receiving"
  /\ RGets(m)
  /\ "FIN" \in m.flags
  /\ rstate' = "s_received_fin"
  /\ rphase' = "run"
  /\ RSends({"ACK", "FIN"})
  /\ UNCHANGED buffer

\* case s_received_fin: send the own FIN, set the timeout, wait.
SendOwnFin ==
  /\ rstate = "s_received_fin"
  /\ rphase = "run"
  /\ rphase' = "recv"
  /\ RSends({"FIN"})
  /\ UNCHANGED <<toReceiver, rstate, buffer>>

FinAgain(m) ==
  /\ rstate = "s_received_fin"
  /\ RGets(m)
  /\ "FIN" \in m.flags
  /\ rphase' = "run"
  /\ RSends({"ACK", "FIN"})
  /\ UNCHANGED <<rstate, buffer>>

\* Anything but a FIN ends the program, the ACK it waits for or not.
LastDatagram(m) ==
  /\ rstate = "s_received_fin"
  /\ RGets(m)
  /\ "FIN" \notin m.flags
  /\ rstate' = "Finished"
  /\ UNCHANGED <<toSender, rphase, buffer>>

FinTimeout ==
  /\ rstate = "s_received_fin"
  /\ rphase = "recv"
  /\ rstate' = "Finished"
  /\ UNCHANGED <<network, rphase, buffer>>

-----------------------------------------------------------------------------
ReceiverGets(m) ==
  \/ WaitForSyn(m)
  \/ AnswerSynAgain(m)
  \/ FinBeforeData(m)
  \/ FirstData(m)
  \/ MoreData(m)
  \/ FinAfterData(m)
  \/ FinAgain(m)
  \/ LastDatagram(m)

ReceiverRuns == AnswerSyn \/ SendOwnFin

ReceiverNext ==
  \/ \E m \in Deliverable(toReceiver) : ReceiverGets(m)
  \/ ReceiverRuns
  \/ FinTimeout
-----------------------------------------------------------------------------
\* An acknowledgement that travels, however old, covers packets that are in
\* the file: never one that only waits in the buffer.
AcksAreWritten ==
  \A m \in InFlight(toSender) : "ACK" \in m.flags => m.ack < Len(written)
=============================================================================
