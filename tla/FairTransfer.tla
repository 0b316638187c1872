----------------------------- MODULE FairTransfer -----------------------------
(***************************************************************************)
(* mp2 over a fair path: what eventually happens.                          *)
(*                                                                         *)
(* A thread that is not blocked runs on, and a blocked recvfrom whose      *)
(* timeout is armed returns at the latest when it expires; it may expire   *)
(* early every time.  The path may lose datagrams, but one that is used    *)
(* for ever delivers for ever, and in particular does not lose every ACK   *)
(* of a FIN that is acknowledged again and again.                          *)
(***************************************************************************)
EXTENDS ReliableTransfer

SenderThread(A) == A /\ UNCHANGED <<receiver, buffer>>

ReceiverThread(A) == A /\ UNCHANGED sender

SenderSends == SenderThread(SenderRuns)

ReceiverGetsOne ==
  ReceiverThread(\E m \in Deliverable(toReceiver) : ReceiverGets(m))

ReceiverSends == ReceiverGetsOne \/ ReceiverThread(ReceiverRuns)

SenderGetsOne ==
  SenderThread(\E m \in Deliverable(toSender) : SenderGets(m))

ReceiverAcksFin ==
  ReceiverThread(\E m \in Deliverable(toReceiver) : FinAfterData(m) \/ FinAgain(m))

SenderGetsFinAck ==
  SenderThread(\E m \in Deliverable(toSender) :
                 {"ACK", "FIN"} \subseteq m.flags /\ AwaitFinAck(m))

Fairness ==
  /\ WF_vars(SenderSends)
  /\ WF_vars(SenderThread(SenderTimeout))
  /\ WF_vars(ReceiverThread(ReceiverRuns \/ FinTimeout))
  /\ ([]<><<SenderSends>>_vars => []<><<ReceiverGetsOne>>_vars)
  /\ ([]<><<ReceiverSends>>_vars => []<><<SenderGetsOne>>_vars)
  /\ ([]<><<ReceiverAcksFin>>_vars => []<><<SenderGetsFinAck>>_vars)

FairSpec == Spec /\ Fairness

-----------------------------------------------------------------------------
\* The whole file reaches the disk and the receiver ends, however often
\* timeouts expire early, windows collapse and datagrams are lost.  Nothing
\* of the kind holds of the sender: once the receiver has gone it may send
\* its FIN for ever.
Delivered ==
  <>[](rstate = "Finished" /\ Len(written) = Total)
=============================================================================
