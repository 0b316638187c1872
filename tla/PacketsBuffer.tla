---------------------------- MODULE PacketsBuffer ----------------------------
(***************************************************************************)
(* class packets_buffer of receiver_main.C: it puts the packets that       *)
(* arrive out of order aside and returns them once they are in order.      *)
(*                                                                         *)
(* packets and flags are parallel vectors for the sequence numbers         *)
(* head .. after_tail-1; flags tells whether a slot's packet has arrived.  *)
(* written is the concatenation of the strings gotpacket has returned,     *)
(* which reliablyReceive appends to the destination file in the same step. *)
(***************************************************************************)
EXTENDS Integers, Sequences

CONSTANT MemSlots      \* slots one insert can add before it throws bad_alloc

ASSUME MemSlotsAssumption == MemSlots \in Nat \ {0}

VARIABLES head, after_tail, packets, flags, written

buffer == <<head, after_tail, packets, flags, written>>

BufferInit ==
  /\ head = 0
  /\ after_tail = 0
  /\ packets = << >>
  /\ flags = << >>
  /\ written = << >>

-----------------------------------------------------------------------------
\* Mutant of TakeHead: a packet past the end is taken for the one at head.
TakeAny(seq, data) ==
  /\ seq >= after_tail
  /\ head' = seq + 1
  /\ after_tail' = seq + 1
  /\ written' = Append(written, data)
  /\ UNCHANGED <<packets, flags>>

\* The packet at head arrives and no other is waiting.
TakeHead(seq, data) ==
  /\ seq = head
  /\ seq >= after_tail
  /\ head' = seq + 1
  /\ after_tail' = seq + 1
  /\ written' = Append(written, data)
  /\ UNCHANGED <<packets, flags>>

\* The packet at head arrives: it is returned with the run of n-1 flagged
\* packets behind it, and the n slots leave the vectors.
TakeRun(seq, data) ==
  /\ seq = head
  /\ seq < after_tail
  /\ \E n \in 1..Len(flags) :
       /\ \A i \in 2..n : flags[i]
       /\ n < Len(flags) => ~ flags[n + 1]
       /\ head' = head + n
       /\ written' = Append(written, data) \o SubSeq(packets, 2, n)
       /\ packets' = SubSeq(packets, n + 1, Len(packets))
       /\ flags' = SubSeq(flags, n + 1, Len(flags))
  /\ UNCHANGED after_tail

\* Mutant of FillSlot: the slot before the packet's own.
FillSlotBefore(seq, data) ==
  /\ head < seq
  /\ seq < after_tail
  /\ flags' = [flags EXCEPT ![seq - head] = TRUE]
  /\ packets' = [packets EXCEPT ![seq - head] = data]
  /\ UNCHANGED <<head, after_tail, written>>

\* A packet between head and after_tail fills its slot if it is still empty.
FillSlot(seq, data) ==
  /\ head < seq
  /\ seq < after_tail
  /\ LET slot == seq - head + 1
     IN  IF flags[slot]
         THEN UNCHANGED <<packets, flags>>
         ELSE /\ flags' = [flags EXCEPT ![slot] = TRUE]
              /\ packets' = [packets EXCEPT ![slot] = data]
  /\ UNCHANGED <<head, after_tail, written>>

\* A packet past the end: the vectors grow up to it.  The code stores its
\* data but flags its slot false, so it counts only once it arrives again.
Grow(seq, data) ==
  /\ head < seq
  /\ after_tail <= seq
  /\ LET gap == seq - after_tail
     IN  /\ flags' = flags \o [i \in 1..(gap + 1) |-> FALSE]
         /\ packets' = packets \o [i \in 1..(gap + 1) |->
                                     IF i = gap + 1 THEN data ELSE -1]
  /\ after_tail' = seq + 1
  /\ UNCHANGED <<head, written>>

\* A packet that was returned before.
Stale(seq) ==
  /\ seq < head
  /\ UNCHANGED buffer

gotpacket(seq, data) ==
  \/ TakeHead(seq, data)
  \/ TakeRun(seq, data)
  \/ FillSlot(seq, data)
  \/ Grow(seq, data)
  \/ Stale(seq)

\* Whether gotpacket(seq, ...) finds the memory it asks for.
Fits(seq) == seq - after_tail < MemSlots

\* Mutant of get_ack: acknowledge the last slot, whatever is missing before.
AckOfLastSlot == after_tail - 1

get_ack == head - 1

-----------------------------------------------------------------------------
\* The destination file is at all times a prefix of the source file, in spite
\* of packets that are lost, duplicated, reordered or overtaken by packets of
\* the next chunk.
FileIntegrity ==
  \A i \in 1..Len(written) : written[i] = i - 1

\* packets_buffer: the two vectors stay aligned with head and after_tail, a
\* flagged slot holds the packet of its sequence number, and the slot of the
\* packet at head, the one the receiver waits for, is never flagged: a
\* packet that arrived is never held back.
BufferAligned ==
  /\ Len(flags) = after_tail - head
  /\ Len(packets) = Len(flags)
  /\ \A i \in 1..Len(flags) : flags[i] => i # 1 /\ packets[i] = head + i - 1
=============================================================================
