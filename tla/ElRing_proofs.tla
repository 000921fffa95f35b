--------------------------- MODULE ElRing_proofs ---------------------------
(***************************************************************************)
(* Proofs about the byte ring for every capacity up to 65535 and every     *)
(* interleaving of its writer and its reader.                              *)
(***************************************************************************)
EXTENDS ElRing, RingIndex_proofs

USE CapacityAssumption DEF Slot

-----------------------------------------------------------------------------
(* The inductive invariant: Init, then one lemma per action. *)

LEMMA InitInv == Init => IInv
<1> SUFFICES ASSUME Init PROVE IInv
  OBVIOUS
<1> USE DEF Init
<1>1. TypeOK
  BY DEF TypeOK, Garbage
<1>2. RingHoldsStream
  BY DEF RingHoldsStream, Size
<1>3. WantFits /\ SideKept /\ WriteSpansFit /\ Filled
  BY DEF WantFits, SideKept, WriteSpansFit, Filled
<1>4. AvailStays /\ BelowKept /\ ReadSpansFit
  BY DEF AvailStays, BelowKept, ReadSpansFit
<1>5. TakesReserved /\ ReadsInOrder
  BY DEF TakesReserved, ReadsInOrder
<1> QED
  BY <1>1, <1>2, <1>3, <1>4, <1>5 DEF IInv

LEMMA WriteReserveStep ==
  ASSUME IInv, NEW n \in 0..Capacity, WriteReserve(n)
  PROVE  IInv'
<1> USE DEF WriteReserve, index, reader, history
<1>1. TypeOK'
  BY DEF IInv, TypeOK
<1>2. RingHoldsStream'
  BY DEF IInv, RingHoldsStream
<1>3. WantFits' /\ SideKept' /\ WriteSpansFit' /\ Filled'
  BY DEF WantFits, SideKept, WriteSpansFit, Filled
<1>4. AvailStays' /\ BelowKept' /\ ReadSpansFit' /\ TakesReserved'
  BY DEF IInv, AvailStays, BelowKept, ReadSpansFit, TakesReserved
<1>5. ReadsInOrder'
  BY DEF IInv, ReadsInOrder
<1> QED
  BY <1>1, <1>2, <1>3, <1>4, <1>5 DEF IInv

LEMMA WriteCompareStep ==
  ASSUME IInv, WriteCompare
  PROVE  IInv'
<1> USE DEF WriteCompare, index, reader, history
<1>1. TypeOK'
  BY DEF IInv, TypeOK
<1>2. RingHoldsStream'
  BY DEF IInv, RingHoldsStream
<1>3. WantFits' /\ SideKept'
  BY DEF IInv, TypeOK, WantFits, SideKept, Free, Size
<1>4. WriteSpansFit' /\ Filled'
  BY DEF WriteSpansFit, Filled
<1>5. AvailStays' /\ BelowKept' /\ ReadSpansFit' /\ TakesReserved'
  BY DEF IInv, AvailStays, BelowKept, ReadSpansFit, TakesReserved
<1>6. ReadsInOrder'
  BY DEF IInv, ReadsInOrder
<1> QED
  BY <1>1, <1>2, <1>3, <1>4, <1>5, <1>6 DEF IInv

(* The contiguous room comes from a third reading of tail.  If the reader   *)
(* has wrapped below the writer since the comparison, the 16-bit difference *)
(* wraps as well and exceeds what is wanted, which is right: the room found *)
(* by the comparison ends before the end of the storage.                    *)
LEMMA WriteRoomStep ==
  ASSUME IInv, WriteRoom
  PROVE  IInv'
<1> USE DEF WriteRoom, index, reader, history
<1>1. TypeOK'
  <2>1. wcont' \in Nat /\ wcont' < 65536
    <3>1. head \in Int /\ tail \in Int
      BY DEF IInv, TypeOK
    <3>2. Capacity - head - (IF tail = 0 THEN 1 ELSE 0) \in Int
      BY <3>1
    <3>3. tail - head - 1 \in Int
      BY <3>1
    <3> QED
      BY <3>2, <3>3, U16Range DEF RoomToEnd, RoomToTail
  <2> QED
    BY <2>1 DEF IInv, TypeOK
<1>2. RingHoldsStream'
  BY DEF IInv, RingHoldsStream
<1>3. WantFits' /\ SideKept' /\ Filled'
  BY DEF IInv, TypeOK, WantFits, SideKept, Filled
<1>4. WriteSpansFit'
  <2> USE DEF IInv, TypeOK, WantFits, SideKept, WriteSpansFit, Free, Size
  <2>1. CASE wpc = "toEnd"
    <3>1. RoomToEnd(head, tail)
            = Capacity - head - (IF tail = 0 THEN 1 ELSE 0)
      BY U16Fits DEF RoomToEnd
    <3> QED
      BY <2>1, <3>1
  <2>2. CASE wpc = "toTail" /\ tail > head
    <3>1. RoomToTail(head, tail) = tail - head - 1
      BY <2>2, U16Fits DEF RoomToTail
    <3> QED
      BY <2>2, <3>1
  <2>3. CASE wpc = "toTail" /\ tail <= head
    <3>1. RoomToTail(head, tail) = tail - head - 1 + 65536
      BY <2>3, U16Wraps DEF RoomToTail
    <3> QED
      BY <2>3, <3>1
  <2> QED
    BY <2>1, <2>2, <2>3
<1>5. AvailStays' /\ BelowKept' /\ ReadSpansFit' /\ TakesReserved'
  BY DEF IInv, AvailStays, BelowKept, ReadSpansFit, TakesReserved
<1>6. ReadsInOrder'
  BY DEF IInv, ReadsInOrder
<1> QED
  BY <1>1, <1>2, <1>3, <1>4, <1>5, <1>6 DEF IInv

(* The k-th byte of a reservation lies k places after the side's index. *)
LEMMA WriteSlotIsAdvance ==
  ASSUME IInv, wpc = "copy", NEW k \in 0 .. want - 1
  PROVE  WriteSlot(k) = Advance(head, k) /\ WriteSlot(k) \in Slot
BY DEF IInv, TypeOK, WantFits, WriteSpansFit, Free, Size, WriteSlot, SlotOf,
       FirstSpan, Advance

LEMMA ReadSlotIsAdvance ==
  ASSUME IInv, rpc \in {"take", "copy"}, NEW k \in 0 .. avail - 1
  PROVE  ReadSlot(k) = Advance(tail, k) /\ ReadSlot(k) \in Slot
BY DEF IInv, TypeOK, AvailStays, ReadSpansFit, Size, ReadSlot, SlotOf,
       FirstSpan, Advance

LEMMA IndexFacts ==
  ASSUME IInv
  PROVE  /\ head \in Slot /\ tail \in Slot
         /\ Size(head, tail) \in 0 .. Capacity - 1
         /\ Free(head, tail) = Capacity - Size(head, tail) - 1
<1>1. head \in Slot /\ tail \in Slot
  BY DEF IInv, TypeOK
<1>2. Size(head, tail) \in 0 .. Capacity - 1
  BY <1>1, SizeRange
<1> QED
  BY <1>1, <1>2 DEF Free

(* Filling one reserved slot disturbs neither an unread byte nor a byte of  *)
(* the reservation that is already in place.                                *)
LEMMA WriteByteStep ==
  ASSUME IInv, WriteByte
  PROVE  IInv'
<1> USE DEF WriteByte, index, reader, history
<1>0. /\ head \in Slot /\ tail \in Slot
      /\ Size(head, tail) \in 0 .. Capacity - 1
      /\ Free(head, tail) = Capacity - Size(head, tail) - 1
  BY IndexFacts
<1>1. /\ WriteSlot(copied) = Advance(head, copied)
      /\ WriteSlot(copied) \in Slot
  BY WriteSlotIsAdvance DEF IInv, TypeOK, Filled
<1>2. TypeOK'
  BY <1>1 DEF IInv, TypeOK, Filled, WantFits, Free, Size
<1>3. ASSUME NEW j \in 0 .. Size(head, tail) - 1
      PROVE  Advance(tail, j) # WriteSlot(copied)
  <2>1. copied \in Nat /\ want \in Nat /\ copied < want
    BY DEF IInv, TypeOK
  <2>2. want <= Free(head, tail)
    BY DEF IInv, WantFits
  <2>3. copied \in 0 .. Free(head, tail) - 1
    BY <1>0, <2>1, <2>2
  <2> QED
    BY <1>0, <1>1, <2>3, FreeApartFromUnread
<1>4. RingHoldsStream'
  <2> SUFFICES ASSUME NEW k \in 0 .. written - taken - 1
               PROVE  buffer'[Advance(tail, k)] = taken + k
    BY DEF IInv, RingHoldsStream
  <2>1. k \in 0 .. Size(head, tail) - 1 /\ buffer[Advance(tail, k)] = taken + k
    BY DEF IInv, RingHoldsStream
  <2>2. Advance(tail, k) \in Slot
    <3>1. k \in 0..Capacity
      BY <1>0, <2>1
    <3> QED
      BY <1>0, <3>1, AdvanceInSlot
  <2> QED
    BY <1>3, <2>1, <2>2 DEF IInv, TypeOK
<1>5. WantFits' /\ SideKept' /\ WriteSpansFit'
  BY DEF IInv, WantFits, SideKept, WriteSpansFit
<1>6. Filled'
  <2>1. copied' <= want'
    BY DEF IInv, TypeOK, Filled
  <2>2. ASSUME NEW k \in 0 .. copied
        PROVE  buffer'[Advance(head, k)] = written + k
    <3>1. Advance(head, k) \in Slot
      <4>1. k \in 0..Capacity
        BY DEF IInv, TypeOK
      <4> QED
        BY <1>0, <4>1, AdvanceInSlot
    <3>2. CASE k = copied
      BY <1>1, <3>2 DEF IInv, TypeOK
    <3>3. CASE k # copied
      <4>1. buffer[Advance(head, k)] = written + k
        BY <3>3 DEF IInv, TypeOK, Filled
      <4>2. Advance(head, k) # Advance(head, copied)
        BY <3>3, AdvanceInjective DEF IInv, TypeOK, WantFits, Free, Size
      <4> QED
        BY <1>1, <3>1, <4>1, <4>2 DEF IInv, TypeOK
    <3> QED
      BY <3>2, <3>3
  <2> QED
    BY <2>1, <2>2 DEF Filled, IInv, TypeOK
<1>7. AvailStays' /\ BelowKept' /\ ReadSpansFit' /\ TakesReserved'
  BY DEF IInv, AvailStays, BelowKept, ReadSpansFit, TakesReserved
<1>8. ReadsInOrder'
  BY DEF IInv, ReadsInOrder
<1> QED
  BY <1>2, <1>4, <1>5, <1>6, <1>7, <1>8 DEF IInv

LEMMA WriteCommitStep ==
  ASSUME IInv, WriteCommit
  PROVE  IInv'
<1> USE DEF WriteCommit, reader
<1>0. /\ head \in Slot /\ tail \in Slot
      /\ Size(head, tail) \in 0 .. Capacity - 1
      /\ Free(head, tail) = Capacity - Size(head, tail) - 1
  BY IndexFacts
<1>1. copied \in 0 .. Free(head, tail)
  BY SizeRange DEF IInv, TypeOK, Filled, WantFits, Free, Size
<1>2. head' \in Slot
  BY AdvanceInSlot DEF IInv, TypeOK
<1>3. TypeOK'
  BY <1>2 DEF IInv, TypeOK
<1>4. Size(head', tail') = Size(head, tail) + copied
  BY <1>1, SizeAfterWrite DEF IInv, TypeOK
<1>5. RingHoldsStream'
  <2>1. Size(head', tail') = written' - taken'
    BY <1>4 DEF IInv, TypeOK, RingHoldsStream
  <2>2. ASSUME NEW k \in 0 .. written' - taken' - 1
        PROVE  buffer'[Advance(tail', k)] = taken' + k
    <3>1. CASE k < written - taken
      BY <3>1 DEF IInv, TypeOK, RingHoldsStream
    <3>2. CASE k >= written - taken
      <4> DEFINE m == k - Size(head, tail)
      <4>1. m \in 0 .. copied - 1 /\ k = Size(head, tail) + m
        BY <3>2, SizeRange DEF IInv, TypeOK, RingHoldsStream
      <4>2. Advance(tail, k) = Advance(head, m)
        <5>1. Size(head, tail) + m <= Capacity
          BY <1>0, <1>1, <4>1
        <5>2. Advance(Advance(tail, Size(head, tail)), m)
                = Advance(tail, Size(head, tail) + m)
          <6>1. Size(head, tail) \in 0..Capacity /\ m \in 0..Capacity
            BY <1>0, <1>1, <4>1
          <6> HIDE DEF m
          <6> QED
            BY <1>0, <5>1, <6>1, AdvanceAdd
        <5> QED
          BY <4>1, <5>2, UnreadEndsAtHead DEF IInv, TypeOK
      <4>3. buffer[Advance(head, m)] = written + m
        BY <4>1 DEF IInv, Filled
      <4> QED
        BY <4>1, <4>2, <4>3 DEF IInv, TypeOK, RingHoldsStream
    <3> QED
      BY <3>1, <3>2 DEF IInv, TypeOK
  <2> QED
    BY <2>1, <2>2 DEF RingHoldsStream
<1>6. WantFits' /\ SideKept' /\ WriteSpansFit' /\ Filled'
  BY DEF WantFits, SideKept, WriteSpansFit, Filled
<1>7. AvailStays' /\ BelowKept' /\ ReadSpansFit' /\ TakesReserved'
  <2>1. AvailStays'
    <3>1. copied \in Nat /\ avail \in Nat
      BY DEF IInv, TypeOK
    <3> QED
      BY <1>0, <1>4, <3>1 DEF IInv, AvailStays
  <2> QED
    BY <2>1 DEF IInv, BelowKept, ReadSpansFit, TakesReserved
<1>8. ReadsInOrder'
  BY DEF IInv, ReadsInOrder
<1> QED
  BY <1>3, <1>5, <1>6, <1>7, <1>8 DEF IInv

LEMMA ReadReserveStep ==
  ASSUME IInv, ReadReserve
  PROVE  IInv'
<1> USE DEF ReadReserve, index, writer, history
<1>1. TypeOK'
  BY DEF IInv, TypeOK
<1>2. RingHoldsStream'
  BY DEF IInv, RingHoldsStream
<1>3. WantFits' /\ SideKept' /\ WriteSpansFit' /\ Filled'
  BY DEF IInv, WantFits, SideKept, WriteSpansFit, Filled
<1>4. AvailStays' /\ BelowKept' /\ ReadSpansFit' /\ TakesReserved'
  BY DEF AvailStays, BelowKept, ReadSpansFit, TakesReserved
<1>5. ReadsInOrder'
  BY DEF ReadsInOrder
<1> QED
  BY <1>1, <1>2, <1>3, <1>4, <1>5 DEF IInv

LEMMA ReadCountStep ==
  ASSUME IInv, ReadCount
  PROVE  IInv'
<1> USE DEF ReadCount, index, writer, history
<1>0. Size(head, tail) \in 0 .. Capacity - 1
  BY IndexFacts
<1>1. TypeOK'
  BY <1>0 DEF IInv, TypeOK
<1>2. RingHoldsStream'
  BY DEF IInv, RingHoldsStream
<1>3. WantFits' /\ SideKept' /\ WriteSpansFit' /\ Filled'
  BY DEF IInv, WantFits, SideKept, WriteSpansFit, Filled
<1>4. AvailStays' /\ BelowKept' /\ ReadSpansFit' /\ TakesReserved'
  BY <1>0 DEF IInv, AvailStays, BelowKept, ReadSpansFit, TakesReserved
<1>5. ReadsInOrder'
  BY DEF ReadsInOrder
<1> QED
  BY <1>1, <1>2, <1>3, <1>4, <1>5 DEF IInv

(* The reader is above the writer, or at it: then the unread bytes run to   *)
(* the end of the storage; otherwise they end before it.                    *)
LEMMA ReadCompareStep ==
  ASSUME IInv, ReadCompare
  PROVE  IInv'
<1> USE DEF ReadCompare, index, writer, history
<1>0. BytesToEnd(tail) = Capacity - tail
  BY U16Fits, IndexFacts DEF BytesToEnd
<1>1. TypeOK'
  BY <1>0 DEF IInv, TypeOK
<1>2. RingHoldsStream'
  BY DEF IInv, RingHoldsStream
<1>3. WantFits' /\ SideKept' /\ WriteSpansFit' /\ Filled'
  BY DEF IInv, WantFits, SideKept, WriteSpansFit, Filled
<1>4. AvailStays' /\ TakesReserved'
  BY DEF IInv, AvailStays, TakesReserved
<1>5. BelowKept'
  BY DEF IInv, TypeOK, AvailStays, BelowKept, Size
<1>6. ReadSpansFit'
  BY <1>0 DEF IInv, TypeOK, ReadSpansFit
<1>7. ReadsInOrder'
  BY DEF ReadsInOrder
<1> QED
  BY <1>1, <1>2, <1>3, <1>4, <1>5, <1>6, <1>7 DEF IInv

(* A fourth reading of head: the writer may have wrapped below the reader   *)
(* by now, and again the 16-bit difference wraps to more than is taken.     *)
LEMMA ReadToHeadStep ==
  ASSUME IInv, ReadToHead
  PROVE  IInv'
<1> USE DEF ReadToHead, index, writer, history
<1>0. /\ head \in Slot /\ tail \in Slot
      /\ Size(head, tail) \in 0 .. Capacity - 1
  BY IndexFacts
<1>1. TypeOK'
  <2>1. head - tail \in Int
    BY <1>0
  <2>2. rcont' \in Nat /\ rcont' < 65536
    BY <2>1, U16Range DEF BytesToHead
  <2> QED
    BY <2>2 DEF IInv, TypeOK
<1>2. RingHoldsStream'
  BY DEF IInv, RingHoldsStream
<1>3. WantFits' /\ SideKept' /\ WriteSpansFit' /\ Filled'
  BY DEF IInv, WantFits, SideKept, WriteSpansFit, Filled
<1>4. AvailStays' /\ BelowKept' /\ TakesReserved'
  BY DEF IInv, AvailStays, BelowKept, TakesReserved
<1>5. ReadSpansFit'
  <2>1. avail <= Size(head, tail) /\ tail + avail < Capacity /\ avail \in Nat
    BY DEF IInv, TypeOK, AvailStays, BelowKept
  <2>2. CASE head >= tail
    <3>1. BytesToHead(head, tail) = head - tail
      BY <1>0, <2>2, U16Fits DEF BytesToHead
    <3>2. Size(head, tail) = head - tail
      BY <2>2 DEF Size
    <3> QED
      BY <1>0, <2>1, <3>1, <3>2 DEF ReadSpansFit
  <2>3. CASE head < tail
    <3>1. BytesToHead(head, tail) = head - tail + 65536
      BY <1>0, <2>3, U16Wraps DEF BytesToHead
    <3> QED
      BY <1>0, <2>1, <3>1 DEF ReadSpansFit
  <2> QED
    BY <1>0, <2>2, <2>3
<1>6. ReadsInOrder'
  BY DEF ReadsInOrder
<1> QED
  BY <1>1, <1>2, <1>3, <1>4, <1>5, <1>6 DEF IInv

LEMMA ReadTakeStep ==
  ASSUME IInv, NEW n \in 0..Capacity, ReadTake(n)
  PROVE  IInv'
<1> USE DEF ReadTake, index, writer, history
<1>1. TypeOK'
  BY DEF IInv, TypeOK
<1>2. RingHoldsStream'
  BY DEF IInv, RingHoldsStream
<1>3. WantFits' /\ SideKept' /\ WriteSpansFit' /\ Filled'
  BY DEF IInv, WantFits, SideKept, WriteSpansFit, Filled
<1>4. AvailStays' /\ BelowKept' /\ ReadSpansFit'
  BY DEF IInv, AvailStays, BelowKept, ReadSpansFit
<1>5. TakesReserved' /\ ReadsInOrder'
  BY DEF TakesReserved, ReadsInOrder
<1> QED
  BY <1>1, <1>2, <1>3, <1>4, <1>5 DEF IInv

(* The byte copied out is the next one of the stream. *)
LEMMA ReadByteStep ==
  ASSUME IInv, ReadByte
  PROVE  IInv'
<1> USE DEF ReadByte, index, writer, history
<1>0. Len(got) \in 0 .. avail - 1 /\ got \in Seq(Int) /\ taken \in Nat
  BY DEF IInv, TypeOK, TakesReserved
<1>1. /\ ReadSlot(Len(got)) = Advance(tail, Len(got))
      /\ ReadSlot(Len(got)) \in Slot
  BY <1>0, ReadSlotIsAdvance
<1>2. buffer[ReadSlot(Len(got))] = taken + Len(got)
  <2>1. Len(got) \in 0 .. written - taken - 1
    BY <1>0 DEF IInv, TypeOK, RingHoldsStream, AvailStays
  <2> QED
    BY <1>1, <2>1 DEF IInv, RingHoldsStream
<1>3. got' = Append(got, taken + Len(got))
  BY <1>2
<1>4. TypeOK'
  BY <1>0, <1>3 DEF IInv, TypeOK
<1>5. RingHoldsStream'
  BY DEF IInv, RingHoldsStream
<1>6. WantFits' /\ SideKept' /\ WriteSpansFit' /\ Filled'
  BY DEF IInv, WantFits, SideKept, WriteSpansFit, Filled
<1>7. AvailStays' /\ BelowKept' /\ ReadSpansFit'
  BY DEF IInv, AvailStays, BelowKept, ReadSpansFit
<1>8. TakesReserved'
  BY <1>0, <1>3 DEF IInv, TypeOK, TakesReserved
<1>9. ReadsInOrder'
  <2> SUFFICES ASSUME NEW k \in 1 .. Len(got')
               PROVE  got'[k] = taken + k - 1
    BY DEF ReadsInOrder
  <2>1. CASE k <= Len(got)
    BY <1>0, <1>3, <2>1 DEF IInv, ReadsInOrder
  <2>2. CASE k = Len(got) + 1
    BY <1>0, <1>3, <2>2
  <2> QED
    BY <1>0, <1>3, <2>1, <2>2
<1> QED
  BY <1>4, <1>5, <1>6, <1>7, <1>8, <1>9 DEF IInv

(* Releasing bytes leaves the later ones where they are. *)
LEMMA ReadCommitStep ==
  ASSUME IInv, ReadCommit
  PROVE  IInv'
<1> USE DEF ReadCommit, writer
<1>0. /\ head \in Slot /\ tail \in Slot
      /\ Size(head, tail) \in 0 .. Capacity - 1
      /\ Free(head, tail) = Capacity - Size(head, tail) - 1
  BY IndexFacts
<1>1. limit \in 0 .. Size(head, tail)
  BY <1>0 DEF IInv, TypeOK, AvailStays, TakesReserved
<1>2. tail' \in Slot
  <2>1. limit \in 0..Capacity
    BY <1>0, <1>1
  <2> QED
    BY <1>0, <2>1, AdvanceInSlot
<1>3. TypeOK'
  BY <1>2 DEF IInv, TypeOK
<1>4. Size(head', tail') = Size(head, tail) - limit
  BY <1>0, <1>1, SizeAfterRead
<1>5. RingHoldsStream'
  <2>1. Size(head', tail') = written' - taken'
    BY <1>1, <1>4 DEF IInv, TypeOK, RingHoldsStream
  <2>2. ASSUME NEW k \in 0 .. written' - taken' - 1
        PROVE  buffer'[Advance(tail', k)] = taken' + k
    <3>1. limit + k \in 0 .. written - taken - 1
      BY <1>1 DEF IInv, TypeOK
    <3>2. Size(head, tail) = written - taken
      BY DEF IInv, RingHoldsStream
    <3>3. limit \in 0..Capacity /\ k \in 0..Capacity /\ limit + k <= Capacity
      BY <1>0, <1>1, <3>1, <3>2
    <3>4. Advance(tail', k) = Advance(tail, limit + k)
      BY <1>0, <3>3, AdvanceAdd
    <3>5. buffer[Advance(tail, limit + k)] = taken + (limit + k)
      BY <3>1 DEF IInv, RingHoldsStream
    <3> QED
      BY <3>4, <3>5, <1>1 DEF IInv, TypeOK
  <2> QED
    BY <2>1, <2>2 DEF RingHoldsStream
<1>6. WantFits' /\ SideKept' /\ WriteSpansFit' /\ Filled'
  <2>1. WantFits'
    <3>1. Free(head', tail') = Free(head, tail) + limit
      BY <1>0, <1>1, <1>4 DEF Free
    <3>2. wpc # "idle" => want <= Free(head, tail)
      BY DEF IInv, WantFits
    <3>3. want \in Nat /\ Free(head, tail) \in Int /\ limit \in Nat
      BY <1>0, <1>1 DEF IInv, TypeOK
    <3>4. UNCHANGED <<wpc, want>>
      OBVIOUS
    <3> QED
      BY <3>1, <3>2, <3>3, <3>4 DEF WantFits
  <2>2. SideKept'
    BY <1>0, <1>1 DEF IInv, SideKept, Advance, Size
  <2> QED
    BY <2>1, <2>2 DEF IInv, WriteSpansFit, Filled
<1>7. AvailStays' /\ BelowKept' /\ ReadSpansFit' /\ TakesReserved'
  BY DEF AvailStays, BelowKept, ReadSpansFit, TakesReserved
<1>8. ReadsInOrder'
  BY DEF ReadsInOrder
<1> QED
  BY <1>3, <1>5, <1>6, <1>7, <1>8 DEF IInv

LEMMA StutterStep ==
  ASSUME IInv, UNCHANGED vars
  PROVE  IInv'
<1> USE DEF vars
<1>1. TypeOK' /\ RingHoldsStream'
  BY DEF IInv, TypeOK, RingHoldsStream
<1>2. WantFits' /\ SideKept' /\ WriteSpansFit' /\ Filled'
  BY DEF IInv, WantFits, SideKept, WriteSpansFit, Filled
<1>3. AvailStays' /\ BelowKept' /\ ReadSpansFit' /\ TakesReserved'
  BY DEF IInv, AvailStays, BelowKept, ReadSpansFit, TakesReserved
<1>4. ReadsInOrder'
  BY DEF IInv, ReadsInOrder
<1> QED
  BY <1>1, <1>2, <1>3, <1>4 DEF IInv

LEMMA NextInv == IInv /\ [Next]_vars => IInv'
<1> SUFFICES ASSUME IInv, [Next]_vars PROVE IInv'
  OBVIOUS
<1>1. CASE Write
  BY <1>1, WriteReserveStep, WriteCompareStep, WriteRoomStep, WriteByteStep,
     WriteCommitStep DEF Write
<1>2. CASE Read
  BY <1>2, ReadReserveStep, ReadCountStep, ReadCompareStep, ReadToHeadStep,
     ReadTakeStep, ReadByteStep, ReadCommitStep DEF Read
<1>3. CASE UNCHANGED vars
  BY <1>3, StutterStep
<1> QED
  BY <1>1, <1>2, <1>3 DEF Next

-----------------------------------------------------------------------------
(* The theorems. *)

(* The strengthened invariant holds in every reachable state. *)
THEOREM Inductive == Spec => []IInv
BY InitInv, NextInv, PTL DEF Spec

(* Every variable keeps its type: in particular the indices stay inside the *)
(* storage whatever count is committed (el_ring_write_commit,               *)
(* el_ring_read_commit).                                                    *)
THEOREM TypeCorrect == Spec => []TypeOK
<1>1. IInv => TypeOK
  BY DEF IInv
<1> QED
  BY <1>1, Inductive, PTL

(* Whatever the writer does between the readings of head, every byte copied *)
(* out is the next byte of the stream.                                      *)
THEOREM ReadsAreInOrder == Spec => []ReadsInOrder
<1>1. IInv => ReadsInOrder
  BY DEF IInv
<1> QED
  BY <1>1, Inductive, PTL

(* The unread part of the ring is the committed, unreleased part of the     *)
(* stream.                                                                  *)
THEOREM HoldsStream == Spec => []RingHoldsStream
<1>1. IInv => RingHoldsStream
  BY DEF IInv
<1> QED
  BY <1>1, Inductive, PTL

(* The writer never fills a slot that holds an unread byte, nor one outside *)
(* the storage.                                                             *)
THEOREM WritesAreSafe == Spec => []ReservedSlotsAreFree
<1>1. IInv => ReservedSlotsAreFree
  <2> SUFFICES ASSUME IInv, wpc = "copy", NEW k \in copied .. want - 1
               PROVE  /\ WriteSlot(k) \in Slot
                      /\ \A j \in 0 .. Size(head, tail) - 1 :
                           WriteSlot(k) # Advance(tail, j)
    BY DEF ReservedSlotsAreFree
  <2>0. /\ head \in Slot /\ tail \in Slot
        /\ Free(head, tail) = Capacity - Size(head, tail) - 1
    BY IndexFacts
  <2>1. k \in 0 .. want - 1 /\ k \in 0 .. Free(head, tail) - 1
    <3>1. copied \in Nat /\ want \in Nat /\ want <= Free(head, tail)
      BY DEF IInv, TypeOK, WantFits
    <3>2. Free(head, tail) \in Int
      BY IndexFacts
    <3> QED
      BY <3>1, <3>2
  <2>2. WriteSlot(k) = Advance(head, k) /\ WriteSlot(k) \in Slot
    BY <2>1, WriteSlotIsAdvance
  <2> QED
    BY <2>0, <2>1, <2>2, FreeApartFromUnread
<1> QED
  BY <1>1, Inductive, PTL

(* The ring implements the bounded first-in first-out stream of module Fifo *)
(* with one slot less than its capacity.                                    *)
THEOREM RefinesFifo == Spec => ImplementsFifo
<1>1. Init => Stream!FifoInit
  BY DEF Init, Stream!FifoInit
<1>2. IInv /\ [Next]_vars => [Stream!FifoNext]_(Stream!fifoVars)
  <2> SUFFICES ASSUME IInv, [Next]_vars
               PROVE  [Stream!FifoNext]_(Stream!fifoVars)
    OBVIOUS
  <2> USE DEF Stream!fifoVars
  <2>0. /\ Size(head, tail) = written - taken
        /\ Size(head, tail) \in 0 .. Capacity - 1
        /\ Free(head, tail) = Capacity - Size(head, tail) - 1
        /\ written \in Nat /\ taken \in Nat
    BY IndexFacts DEF IInv, RingHoldsStream, TypeOK
  <2>1. CASE WriteCommit
    <3>1. copied \in 0 .. Capacity - 1 /\ written + copied - taken <= Capacity - 1
      BY <2>0, <2>1 DEF WriteCommit, IInv, TypeOK, Filled, WantFits
    <3>2. Stream!Put(copied)
      BY <2>1, <3>1 DEF WriteCommit, Stream!Put
    <3> QED
      BY <3>1, <3>2 DEF Stream!FifoNext
  <2>2. CASE ReadCommit
    <3>1. limit \in 0 .. Capacity - 1 /\ limit <= written - taken
      BY <2>0, <2>2 DEF ReadCommit, IInv, TypeOK, AvailStays, TakesReserved
    <3>2. got = Stream!Positions(taken, limit)
      <4>1. Len(got) = limit /\ got \in Seq(Int)
        BY <2>2 DEF ReadCommit, IInv, TypeOK
      <4>2. \A k \in 1 .. limit : got[k] = taken + k - 1
        BY <2>2, <4>1 DEF ReadCommit, IInv, ReadsInOrder
      <4> QED
        BY <4>1, <4>2 DEF Stream!Positions
    <3>3. Stream!Take(limit)
      BY <2>2, <3>1, <3>2 DEF ReadCommit, Stream!Take
    <3> QED
      BY <3>1, <3>3 DEF Stream!FifoNext
  <2>3. CASE UNCHANGED history
    BY <2>3 DEF history
  <2>4. [Next]_vars => WriteCommit \/ ReadCommit \/ UNCHANGED history
    BY DEF Next, Write, Read, vars, history, WriteReserve, WriteCompare,
           WriteRoom, WriteByte, ReadReserve, ReadCount, ReadCompare,
           ReadToHead, ReadTake, ReadByte
  <2> QED
    BY <2>1, <2>2, <2>3, <2>4
<1> QED
  BY <1>1, <1>2, Inductive, PTL DEF Spec, ImplementsFifo, Stream!FifoSpec

=============================================================================
