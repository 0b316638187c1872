-------------------------- MODULE PacketsBufferProofs --------------------------
EXTENDS PacketsBuffer, SequenceTheorems, TLAPS

\* The elements of a concatenation.
LEMMA ConcatFact ==
  ASSUME NEW S, NEW a \in Seq(S), NEW b \in Seq(S)
  PROVE  /\ a \o b \in Seq(S)
         /\ Len(a \o b) = Len(a) + Len(b)
         /\ \A i \in 1..Len(a) : (a \o b)[i] = a[i]
         /\ \A i \in (Len(a) + 1)..(Len(a) + Len(b)) : (a \o b)[i] = b[i - Len(a)]
BY ConcatProperties

\* Slots that are added without a flag.
LEMMA UnflaggedFact ==
  ASSUME NEW n \in Nat, NEW f, f = [i \in 1..n |-> FALSE]
  PROVE  f \in Seq(BOOLEAN) /\ Len(f) = n /\ \A i \in 1..n : f[i] = FALSE
OBVIOUS

-----------------------------------------------------------------------------
(* packets_buffer: whatever the packet, the buffer stays aligned and the   *)
(* file a prefix, as long as packet k carries the data of position k.      *)

BufferInv ==
  /\ head \in Nat
  /\ after_tail \in Nat
  /\ packets \in Seq(Int)
  /\ flags \in Seq(BOOLEAN)
  /\ written \in Seq(Int)
  /\ head <= after_tail
  /\ Len(written) = head
  /\ FileIntegrity
  /\ BufferAligned

\* What TakeRun leaves of an aligned buffer.
LEMMA TakeRunFact ==
  ASSUME NEW k \in Nat
  PROVE  BufferInv /\ TakeRun(k, k) =>
           BufferInv' /\ head <= head' /\ after_tail' = after_tail
<1>a. SUFFICES ASSUME BufferInv, TakeRun(k, k)
               PROVE  BufferInv' /\ head <= head' /\ after_tail' = after_tail
  OBVIOUS
<1>0. /\ head \in Nat /\ after_tail \in Nat /\ head <= after_tail
      /\ packets \in Seq(Int) /\ flags \in Seq(BOOLEAN) /\ written \in Seq(Int)
      /\ Len(written) = head /\ Len(flags) = after_tail - head
      /\ Len(packets) = Len(flags)
      /\ \A i \in 1..head : written[i] = i - 1
      /\ \A i \in 1..Len(flags) : flags[i] => i # 1 /\ packets[i] = head + i - 1
  BY <1>a DEF BufferInv, FileIntegrity, BufferAligned
<1>1. PICK n \in 1..Len(flags) :
        /\ \A i \in 2..n : flags[i]
        /\ n < Len(flags) => ~ flags[n + 1]
        /\ head' = head + n
        /\ written' = Append(written, k) \o SubSeq(packets, 2, n)
        /\ packets' = SubSeq(packets, n + 1, Len(packets))
        /\ flags' = SubSeq(flags, n + 1, Len(flags))
  BY <1>a DEF TakeRun
<1>2. k = head /\ k < after_tail /\ after_tail' = after_tail
  BY <1>a DEF TakeRun
<1> DEFINE run == SubSeq(packets, 2, n)
           rest == Len(flags) - n
<1>3. /\ flags' \in Seq(BOOLEAN)
      /\ Len(flags') = rest
      /\ \A i \in 1..rest : flags'[i] = flags[i + n]
  <2>1. flags' = SubSeq(flags, n + 1, Len(flags)) /\ flags \in Seq(BOOLEAN)
    BY <1>0, <1>1
  <2> QED
    BY <2>1
<1>4. /\ packets' \in Seq(Int)
      /\ Len(packets') = rest
      /\ \A i \in 1..rest : packets'[i] = packets[i + n]
  <2>1. /\ packets' = SubSeq(packets, n + 1, Len(packets))
        /\ packets \in Seq(Int)
        /\ Len(packets) = Len(flags)
    BY <1>0, <1>1
  <2> QED
    BY <2>1
<1>5. /\ run \in Seq(Int)
      /\ Len(run) = n - 1
      /\ \A i \in 1..(n - 1) : run[i] = packets[i + 1]
  <2>1. packets \in Seq(Int) /\ Len(packets) = Len(flags)
    BY <1>0
  <2> QED
    BY <2>1, SMTT(30)
<1>6. \A i \in 1..(n - 1) : run[i] = head + i
  <2> TAKE i \in 1..(n - 1)
  <2>1. flags[i + 1]
    BY <1>1
  <2>2. packets[i + 1] = head + (i + 1) - 1
    BY <1>0, <2>1
  <2> QED
    BY <1>0, <1>5, <2>2
<1> HIDE DEF run
<1>7. /\ written' \in Seq(Int)
      /\ Len(written') = head + n
      /\ \A i \in 1..(head + n) : written'[i] = i - 1
  <2> DEFINE first == Append(written, head)
  <2>0. /\ head \in Nat /\ written \in Seq(Int) /\ Len(written) = head
        /\ \A i \in 1..head : written[i] = i - 1
    BY <1>0
  <2>1. /\ first \in Seq(Int)
        /\ Len(first) = head + 1
        /\ \A i \in 1..(head + 1) : first[i] = i - 1
    BY <2>0
  <2>2. written' = first \o run
    BY <1>1, <1>2 DEF run
  <2> HIDE DEF first
  <2>3. /\ first \o run \in Seq(Int)
        /\ Len(first \o run) = head + n
        /\ \A i \in 1..(head + 1) : (first \o run)[i] = first[i]
        /\ \A i \in (head + 2)..(head + n) : (first \o run)[i] = run[i - (head + 1)]
    <3>1. first \in Seq(Int) /\ run \in Seq(Int)
      BY <1>5, <2>1
    <3>2. /\ first \o run \in Seq(Int)
          /\ Len(first \o run) = Len(first) + Len(run)
          /\ \A i \in 1..Len(first) : (first \o run)[i] = first[i]
          /\ \A i \in (Len(first) + 1)..(Len(first) + Len(run)) :
               (first \o run)[i] = run[i - Len(first)]
      BY <3>1, ConcatFact
    <3> QED
      BY <1>5, <2>0, <2>1, <3>2, SMTT(30)
  <2>4. \A i \in (head + 2)..(head + n) : run[i - (head + 1)] = i - 1
    BY <2>0, <1>6
  <2>5. \A i \in 1..(head + n) : i \in 1..(head + 1) \/ i \in (head + 2)..(head + n)
    BY <2>0
  <2> QED
    BY <2>1, <2>2, <2>3, <2>4, <2>5
<1>8. /\ head' \in Nat /\ head <= head' /\ head' <= after_tail
      /\ rest = after_tail - head'
  BY <1>0, <1>1
<1>9. ASSUME NEW i \in 1..rest, flags'[i]
      PROVE  i # 1 /\ packets'[i] = head' + i - 1
  <2>1. flags[i + n]
    BY <1>3, <1>9
  <2>2. i + n \in 1..Len(flags)
    BY <1>0
  <2>3. packets[i + n] = head + (i + n) - 1
    BY <1>0, <2>1, <2>2
  <2>4. i # 1
    BY <1>1, <2>1, <2>2
  <2> QED
    BY <1>0, <1>1, <1>4, <2>3, <2>4
<1> QED
  BY <1>0, <1>1, <1>2, <1>3, <1>4, <1>7, <1>8, <1>9
     DEF BufferInv, FileIntegrity, BufferAligned

\* gotpacket keeps the buffer aligned and the file a prefix.
LEMMA GotPacketFact ==
  ASSUME NEW k \in Nat
  PROVE  BufferInv /\ gotpacket(k, k) =>
           /\ BufferInv'
           /\ head <= head'
           /\ after_tail' = after_tail \/ after_tail' = k + 1
<1>a. SUFFICES ASSUME BufferInv, gotpacket(k, k)
               PROVE  /\ BufferInv'
                      /\ head <= head'
                      /\ after_tail' = after_tail \/ after_tail' = k + 1
  OBVIOUS
<1>0. /\ head \in Nat /\ after_tail \in Nat /\ head <= after_tail
      /\ packets \in Seq(Int) /\ flags \in Seq(BOOLEAN) /\ written \in Seq(Int)
      /\ Len(written) = head /\ Len(flags) = after_tail - head
      /\ Len(packets) = Len(flags)
      /\ \A i \in 1..head : written[i] = i - 1
      /\ \A i \in 1..Len(flags) : flags[i] => i # 1 /\ packets[i] = head + i - 1
  BY <1>a DEF BufferInv, FileIntegrity, BufferAligned
<1>1. CASE TakeHead(k, k)
  BY <1>0, <1>1 DEF TakeHead, BufferInv, FileIntegrity, BufferAligned
<1>2. CASE TakeRun(k, k)
  BY <1>a, <1>2, TakeRunFact
<1>3. CASE FillSlot(k, k)
  <2> DEFINE slot == k - head + 1
  <2>1. /\ head' = head /\ after_tail' = after_tail /\ written' = written
        /\ slot \in 2..Len(flags)
    BY <1>0, <1>3 DEF FillSlot
  <2>2. CASE flags[slot]
    BY <1>0, <1>3, <2>1, <2>2 DEF FillSlot, BufferInv, FileIntegrity, BufferAligned
  <2>3. CASE ~ flags[slot]
    <3>1. /\ flags' = [flags EXCEPT ![slot] = TRUE]
          /\ packets' = [packets EXCEPT ![slot] = k]
      BY <1>3, <2>3 DEF FillSlot
    <3>2. /\ flags' \in Seq(BOOLEAN) /\ Len(flags') = Len(flags)
          /\ \A i \in 1..Len(flags) : i # slot => flags'[i] = flags[i]
      BY <1>0, <2>1, <3>1
    <3>3. /\ packets' \in Seq(Int) /\ Len(packets') = Len(flags)
          /\ packets'[slot] = k
          /\ \A i \in 1..Len(flags) : i # slot => packets'[i] = packets[i]
      BY <1>0, <2>1, <3>1
    <3>4. ASSUME NEW i \in 1..Len(flags), flags'[i]
          PROVE  i # 1 /\ packets'[i] = head + i - 1
      <4>1. CASE i = slot
        BY <1>0, <2>1, <3>3, <4>1
      <4>2. CASE i # slot
        <5>1. flags[i]
          BY <3>2, <3>4, <4>2
        <5> QED
          BY <1>0, <3>3, <4>2, <5>1
      <4> QED
        BY <4>1, <4>2
    <3> QED
      BY <1>0, <2>1, <3>2, <3>3, <3>4 DEF BufferInv, FileIntegrity, BufferAligned
  <2> QED
    BY <2>2, <2>3
<1>4. CASE Grow(k, k)
  <2> DEFINE gap == k - after_tail
             newFlags == [i \in 1..(gap + 1) |-> FALSE]
             newPackets == [i \in 1..(gap + 1) |-> IF i = gap + 1 THEN k ELSE -1]
  <2>1. head' = head /\ after_tail' = k + 1 /\ written' = written /\ gap \in Nat
    BY <1>0, <1>4 DEF Grow
  <2>2. /\ newFlags \in Seq(BOOLEAN) /\ Len(newFlags) = gap + 1
        /\ \A i \in 1..(gap + 1) : newFlags[i] = FALSE
    <3>1. gap + 1 \in Nat
      BY <2>1
    <3> HIDE DEF gap
    <3> QED
      BY <3>1, UnflaggedFact
  <2>3. newPackets \in Seq(Int) /\ Len(newPackets) = gap + 1
    BY <2>1
  <2>4. flags' = flags \o newFlags /\ packets' = packets \o newPackets
    BY <1>4 DEF Grow
  <2> HIDE DEF gap, newFlags, newPackets
  <2>5. /\ flags' \in Seq(BOOLEAN) /\ Len(flags') = Len(flags) + gap + 1
        /\ \A i \in 1..Len(flags) : flags'[i] = flags[i]
        /\ \A i \in (Len(flags) + 1)..(Len(flags) + gap + 1) :
             flags'[i] = newFlags[i - Len(flags)]
    <3>1. flags \in Seq(BOOLEAN)
      BY <1>0
    <3>2. /\ flags \o newFlags \in Seq(BOOLEAN)
          /\ Len(flags \o newFlags) = Len(flags) + Len(newFlags)
          /\ \A i \in 1..Len(flags) : (flags \o newFlags)[i] = flags[i]
          /\ \A i \in (Len(flags) + 1)..(Len(flags) + Len(newFlags)) :
               (flags \o newFlags)[i] = newFlags[i - Len(flags)]
      BY <2>2, <3>1, ConcatFact
    <3> QED
      BY <2>1, <2>2, <2>4, <3>1, <3>2
  <2>6. /\ packets' \in Seq(Int) /\ Len(packets') = Len(flags) + gap + 1
        /\ \A i \in 1..Len(flags) : packets'[i] = packets[i]
    <3>1. packets \in Seq(Int) /\ Len(packets) = Len(flags)
      BY <1>0
    <3>2. /\ packets \o newPackets \in Seq(Int)
          /\ Len(packets \o newPackets) = Len(packets) + Len(newPackets)
          /\ \A i \in 1..Len(packets) : (packets \o newPackets)[i] = packets[i]
      BY <2>3, <3>1, ConcatFact
    <3> QED
      BY <2>1, <2>3, <2>4, <3>1, <3>2
  <2>7. ASSUME NEW i \in 1..Len(flags'), flags'[i]
        PROVE  i # 1 /\ packets'[i] = head + i - 1
    <3>1. CASE i <= Len(flags)
      <4>1. i \in 1..Len(flags)
        BY <1>0, <2>5, <3>1
      <4>2. flags[i]
        BY <2>5, <2>7, <4>1
      <4> QED
        BY <1>0, <2>6, <4>1, <4>2
    <3>2. CASE i > Len(flags)
      <4>1. i - Len(flags) \in 1..(gap + 1)
        BY <1>0, <2>1, <2>5, <3>2
      <4>2. flags'[i] = FALSE
        BY <1>0, <2>1, <2>2, <2>5, <3>2, <4>1
      <4> QED
        BY <2>7, <4>2
    <3> QED
      BY <1>0, <3>1, <3>2
  <2>8. Len(flags') = after_tail' - head'
    BY <1>0, <2>1, <2>5 DEF gap
  <2>9. head <= after_tail' /\ after_tail' \in Nat
    BY <1>0, <1>4, <2>1 DEF Grow
  <2> QED
    BY <1>0, <2>1, <2>5, <2>6, <2>7, <2>8, <2>9, SMTT(30)
       DEF BufferInv, FileIntegrity, BufferAligned
<1>5. CASE Stale(k)
  BY <1>0, <1>5 DEF Stale, buffer, BufferInv, FileIntegrity, BufferAligned
<1> QED
  BY <1>a, <1>1, <1>2, <1>3, <1>4, <1>5 DEF gotpacket
=============================================================================
