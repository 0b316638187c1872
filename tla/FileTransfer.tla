----------------------------- MODULE FileTransfer -----------------------------
(***************************************************************************)
(* What mp2 promises: the receiver's file is at all times a prefix of the  *)
(* sender's, it only grows, and neither program ends before it is whole.   *)
(* A program that dies simply stops.                                       *)
(***************************************************************************)
EXTENDS Integers, Sequences

CONSTANT Total    \* packets in the file

VARIABLES
  file,           \* the packets in the destination file
  senderDone,
  receiverDone

vars == <<file, senderDone, receiverDone>>

Prefix(n) == [i \in 1..n |-> i - 1]

Whole == file = Prefix(Total)

Init ==
  /\ file = << >>
  /\ senderDone = FALSE
  /\ receiverDone = FALSE

\* The receiver appends the next packets of the file.
Deliver ==
  /\ ~ receiverDone
  /\ ~ senderDone
  /\ \E n \in (Len(file) + 1)..Total : file' = Prefix(n)
  /\ UNCHANGED <<senderDone, receiverDone>>

SenderFinishes ==
  /\ Whole
  /\ senderDone' = TRUE
  /\ UNCHANGED <<file, receiverDone>>

ReceiverFinishes ==
  /\ Whole
  /\ receiverDone' = TRUE
  /\ UNCHANGED <<file, senderDone>>

Next == Deliver \/ SenderFinishes \/ ReceiverFinishes

Spec == Init /\ [][Next]_vars
=============================================================================
