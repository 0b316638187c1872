----------------------------- MODULE OpenReceiver -----------------------------
(***************************************************************************)
(* The receiver of mp2 with several reliable_senders of the same file on   *)
(* its port: one that is restarted, or one of an earlier transfer that     *)
(* still waits for the ACK of its FIN.  Any datagram a sender can send may *)
(* arrive at any time, a FIN before the first packet included.             *)
(***************************************************************************)
EXTENDS Receiver

CONSTANT Total    \* packets in the file

\* As uint32_t the sequence numbers -1 and -2 of datagrams without data ask
\* for more memory than there is.
ASSUME OpenAssumption ==
  /\ Total \in Nat \ {0}
  /\ Ordered = FALSE
  /\ MemSlots < Wrap - Total - 1

vars == <<network, receiver, buffer>>

SentBySenders ==
  {Packet(k, k) : k \in 0..(Total - 1)} \cup
  {Control({"SYN"}, -1, 0), Control({"FIN"}, -2, 0), Control({"ACK"}, -2, 0)}

Init ==
  /\ toReceiver = SentBySenders
  /\ toSender = EmptyChannel
  /\ ReceiverInit

Spec == Init /\ [][ReceiverNext]_vars
=============================================================================
