--------------------------------- MODULE Udp ---------------------------------
(***************************************************************************)
(* The datagrams of mp2 and the network that carries them.                 *)
(*                                                                         *)
(* A datagram is a TCP_header (TCP_lib.h) followed by the bytes of one     *)
(* packet.  Its flags are a set of flag bits, so the test                  *)
(* "header.flags & FLAGBIT_ACK" reads "ACK" \in m.flags.  The bytes are    *)
(* the position, in the file, of the packet they were copied from.         *)
(* sent_time_sec only feeds the round-trip estimate and is left out.       *)
(*                                                                         *)
(* The network is external.  It comes in two kinds:                        *)
(*   Ordered = FALSE: whatever UDP permits.  A channel is the set of the   *)
(*     datagrams sent so far and any of them may be delivered at any time, *)
(*     any number of times or never: loss, duplication and reordering.     *)
(*   Ordered = TRUE: a path that keeps the order and never duplicates, but *)
(*     drops at the tail of a full queue (Capacity) and loses datagrams.   *)
(***************************************************************************)
EXTENDS Integers, Sequences, Functions

CONSTANTS
  Ordered,     \* the kind of network
  Capacity,    \* datagrams an ordered channel holds
  Wrap         \* 2^32 in the code: the range of uint32_t

ASSUME UdpAssumption ==
  /\ Ordered \in BOOLEAN
  /\ Capacity \in Nat \ {0}
  /\ Wrap \in Nat \ {0}

VARIABLES
  toReceiver,  \* datagrams travelling from the sender to the receiver
  toSender     \* datagrams travelling from the receiver to the sender

network == <<toReceiver, toSender>>

NoData == -1

Datagram == [flags : SUBSET {"SYN", "FIN", "ACK"}, seq : Int, ack : Int, data : Int]

Packet(seq, data) == [flags |-> {}, seq |-> seq, ack |-> 0, data |-> data]

Control(flagbits, seq, ack) ==
  [flags |-> flagbits, seq |-> seq, ack |-> ack, data |-> NoData]

\* The conversion of an int32_t or an int64_t to uint32_t.
U32(n) == n % Wrap

-----------------------------------------------------------------------------
Channel == IF Ordered THEN Seq(Datagram) ELSE SUBSET Datagram

EmptyChannel == IF Ordered THEN << >> ELSE {}

InFlight(ch) == IF Ordered THEN Range(ch) ELSE ch

Smaller(a, b) == IF a <= b THEN a ELSE b

\* The channel after sendto was called for each of the datagrams ms in turn.
Transmit(ch, ms) ==
  IF Ordered
  THEN LET queue == ch \o ms
       IN  SubSeq(queue, 1, Smaller(Len(queue), Capacity))
  ELSE ch \cup Range(ms)

\* The datagrams a recvfrom may return now, and the channel after it did.
Deliverable(ch) ==
  IF Ordered THEN {ch[i] : i \in DOMAIN ch \cap {1}} ELSE ch

Consume(ch) == IF Ordered THEN Tail(ch) ELSE ch

LoseToReceiver ==
  /\ Ordered
  /\ toReceiver # << >>
  /\ toReceiver' = Tail(toReceiver)
  /\ UNCHANGED toSender

LoseToSender ==
  /\ Ordered
  /\ toSender # << >>
  /\ toSender' = Tail(toSender)
  /\ UNCHANGED toReceiver
=============================================================================
