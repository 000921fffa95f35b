-------------------------- MODULE UsbxchRx_proofs --------------------------
(***************************************************************************)
(* Proofs about the host-to-device path, for every capacity of the ring up *)
(* to 65535, every packet size and every number of bytes and bus resets.   *)
(***************************************************************************)
EXTENDS UsbxchRx, RingIndex_proofs

USE CapacityPositive DEF Slot

-----------------------------------------------------------------------------
(* The span given to the endpoint lies inside the storage and is no longer *)
(* than the free room.                                                     *)
LEMMA WindowFits ==
  ASSUME NEW h \in Slot, NEW t \in Slot
  PROVE  /\ Window(h, t) \in 0 .. Capacity - 1
         /\ h + Window(h, t) <= Capacity
         /\ Window(h, t) <= Free(h, t)
         /\ Packets(Window(h, t)) \in Nat
<1>1. Free(h, t) \in 0 .. Capacity - 1
  BY SizeRange
<1>2. /\ Window(h, t) \in 0 .. Capacity - 1
      /\ h + Window(h, t) <= Capacity
      /\ Window(h, t) <= Free(h, t)
  <2>1. CASE h >= t
    <3>1. Capacity - h - (IF t = 0 THEN 1 ELSE 0) \in Nat
      BY <2>1
    <3>2. RoomToEnd(h, t) = Capacity - h - (IF t = 0 THEN 1 ELSE 0)
      BY <3>1, CapacityAssumption, U16Fits DEF RoomToEnd
    <3> QED
      BY <1>1, <2>1, <3>1, <3>2 DEF Window, FirstSpan
  <2>2. CASE h < t
    <3>1. t - h - 1 \in Nat
      BY <2>2
    <3>2. RoomToTail(h, t) = t - h - 1
      BY <3>1, CapacityAssumption, U16Fits DEF RoomToTail
    <3> QED
      BY <1>1, <2>2, <3>1, <3>2 DEF Window, FirstSpan
  <2> QED
    BY <2>1, <2>2
<1>3. \A n \in 0 .. Capacity - 1 : Packets(n) \in Nat
  BY UsbxchRxAssumption DEF Packets
<1> QED
  BY <1>2, <1>3

LEMMA RingFacts ==
  ASSUME IInv
  PROVE  /\ head \in Slot /\ tail \in Slot
         /\ sent \in Nat /\ taken \in Nat
         /\ Size(head, tail) \in 0 .. Capacity - 1
         /\ Size(head, tail) = sent - taken
         /\ Free(head, tail) = Capacity - Size(head, tail) - 1
<1>1. head \in Slot /\ tail \in Slot /\ sent \in Nat
  BY DEF IInv, TypeOK
<1>2. taken \in Nat
  <2>1. seen \in Seq(Int)
    BY DEF IInv, TypeOK
  <2> QED
    BY <2>1 DEF taken
<1>3. Size(head, tail) = sent - taken
  BY DEF IInv, RingHoldsStream
<1>4. Size(head, tail) \in 0 .. Capacity - 1
  BY <1>1, SizeRange
<1> QED
  BY <1>1, <1>2, <1>3, <1>4 DEF Free

(* What the endpoint has filled fits the free room and starts at head. *)
LEMMA FilledFits ==
  ASSUME IInv
  PROVE  /\ count \in 0 .. Free(head, tail)
         /\ count # 0 => at = head /\ head + count <= Capacity
<1>1. count \in Nat /\ size \in Nat /\ at \in Int
  BY DEF IInv, TypeOK
<1> QED
  BY <1>1, RingFacts DEF IInv, WindowIsFree, WindowKept

-----------------------------------------------------------------------------
(* The inductive invariant: Init, then one lemma per action. *)

LEMMA InitInv == Init => IInv
<1> SUFFICES ASSUME Init PROVE IInv
  OBVIOUS
<1>1. TypeOK
  BY DEF Init, TypeOK, Garbage
<1>2. WindowIsFree /\ WindowKept /\ WindowFilled
  BY DEF Init, WindowIsFree, WindowKept, WindowFilled
<1>3. RingHoldsStream
  <2>1. head = 0 /\ tail = 0 /\ sent = 0
    BY DEF Init
  <2>2. taken = 0
    BY DEF Init, taken
  <2>3. Size(head, tail) = 0
    BY <2>1 DEF Size
  <2> QED
    BY <2>1, <2>2, <2>3 DEF RingHoldsStream
<1> QED
  BY <1>1, <1>2, <1>3 DEF IInv

(* A packet lands in free slots: what is unread stays as it is. *)
LEMMA PacketStep ==
  ASSUME IInv, NEW n \in 0..MaxPacket, Packet(n)
  PROVE  IInv'
<1>1. /\ at \in Slot /\ size \in 0 .. Capacity - 1
      /\ count \in Nat /\ sent \in Nat /\ buffer \in [Slot -> Int]
  BY DEF IInv, TypeOK
<1>2. packets' \in Nat
  <2>1. packets \in Nat /\ packets > 0
    BY DEF IInv, TypeOK, Packet
  <2> QED
    BY <2>1 DEF Packet
<1>3. /\ at = head /\ at + size <= Capacity /\ size <= Free(head, tail)
      /\ count + n <= size /\ n \in Nat
  BY UsbxchRxAssumption DEF IInv, WindowIsFree, Packet, Allowed
<1>4. /\ UNCHANGED <<head, tail, at, size, bus, resets, sent, seen, taken>>
      /\ bus = "configured" /\ count' = count + n
  BY DEF Packet, taken
<1>5. buffer' = [s \in Slot |-> IF at + count <= s /\ s < at + count + n
                                THEN sent + (s - at)
                                ELSE buffer[s]]
  BY DEF Packet
<1>6. TypeOK'
  <2>1. buffer' \in [Slot -> Int]
    BY <1>1, <1>5
  <2> QED
    BY <1>1, <1>2, <1>3, <1>4, <2>1 DEF IInv, TypeOK
<1>7. WindowIsFree' /\ WindowKept'
  BY <1>1, <1>3, <1>4 DEF WindowIsFree, WindowKept
<1>8. WindowFilled'
  <2>1. ASSUME NEW k \in 0 .. count + n - 1
        PROVE  buffer'[at + k] = sent + k
    <3>1. at + k \in Slot
      BY <1>1, <1>3
    <3>2. CASE k < count
      BY <1>1, <1>3, <1>5, <3>1, <3>2 DEF IInv, WindowFilled
    <3>3. CASE k >= count
      BY <1>1, <1>3, <1>5, <3>1, <3>3
    <3> QED
      BY <1>1, <1>3, <3>2, <3>3
  <2>2. count' = count + n /\ at' = at /\ sent' = sent
    BY <1>4
  <2>3. ASSUME NEW k \in 0 .. count' - 1
        PROVE  buffer'[at' + k] = sent' + k
    <3>1. k \in 0 .. count + n - 1
      BY <1>1, <1>3, <2>2
    <3>2. buffer'[at + k] = sent + k
      BY <2>1, <3>1
    <3> QED
      BY <2>2, <3>2
  <2> QED
    BY <2>3 DEF WindowFilled
<1>9. RingHoldsStream'
  <2>1. ASSUME NEW k \in 0 .. Size(head, tail) - 1
        PROVE  buffer'[Advance(tail, k)] = buffer[Advance(tail, k)]
    <3> DEFINE s == Advance(tail, k)
    <3>1. s \in Slot
      BY RingFacts, AdvanceInSlot
    <3> HIDE DEF s
    <3>2. ASSUME at + count <= s, s < at + count + n
          PROVE  FALSE
      <4> DEFINE e == s - head
      <4>0. head \in Int /\ s \in Int /\ s < Capacity /\ Free(head, tail) \in Int
        BY <3>1, RingFacts
      <4>1. /\ e \in 0 .. Free(head, tail) - 1
            /\ head + e = s /\ head + e < Capacity
        BY <1>1, <1>3, <3>2, <4>0
      <4> HIDE DEF e
      <4>2. Advance(head, e) = s
        BY <4>0, <4>1 DEF Advance
      <4>3. Advance(head, e) # Advance(tail, k)
        BY <4>1, RingFacts, FreeApartFromUnread
      <4> QED
        BY <4>2, <4>3 DEF s
    <3>3. buffer'[s] = buffer[s]
      BY <1>5, <3>1, <3>2
    <3> QED
      BY <3>3 DEF s
  <2> QED
    BY <1>4, <2>1 DEF IInv, RingHoldsStream
<1> QED
  BY <1>6, <1>7, <1>8, <1>9 DEF IInv

(* The commit appends what the endpoint has filled to what is unread. *)
LEMMA DataOutStep ==
  ASSUME IInv, DataOut
  PROVE  IInv'
<1>1. /\ head' = Advance(head, count) /\ sent' = sent + count
      /\ at' = head' /\ size' = Window(head', tail)
      /\ packets' = Packets(Window(head', tail)) /\ count' = 0
      /\ UNCHANGED <<tail, buffer, bus, resets, seen, taken>>
  BY DEF DataOut, Arm, taken
<1>2. /\ head \in Slot /\ tail \in Slot /\ sent \in Nat
      /\ count \in 0 .. Capacity /\ count \in 0 .. Free(head, tail)
  BY FilledFits, RingFacts
<1>3. head' \in Slot
  BY <1>1, <1>2, AdvanceInSlot
<1>4. Size(head', tail) = Size(head, tail) + count
  BY <1>1, <1>2, SizeAfterWrite
<1>5. TypeOK'
  <2>1. /\ Window(head', tail) \in 0 .. Capacity - 1
        /\ Packets(Window(head', tail)) \in Nat
    BY <1>2, <1>3, WindowFits
  <2>2. sent' \in Nat
    BY <1>1, <1>2
  <2> QED
    BY <1>1, <1>3, <2>1, <2>2 DEF IInv, TypeOK
<1>6. WindowIsFree' /\ WindowKept' /\ WindowFilled'
  <2>1. /\ Window(head', tail) \in 0 .. Capacity - 1
        /\ head' + Window(head', tail) <= Capacity
        /\ Window(head', tail) <= Free(head', tail)
    BY <1>2, <1>3, WindowFits
  <2> QED
    BY <1>1, <2>1 DEF WindowIsFree, WindowKept, WindowFilled
<1>7. RingHoldsStream'
  <2>1. Size(head', tail) = sent' - taken
    BY <1>1, <1>2, <1>4, RingFacts
  <2>2. ASSUME NEW k \in 0 .. Size(head', tail) - 1
        PROVE  buffer[Advance(tail, k)] = taken + k
    <3>1. CASE k < Size(head, tail)
      <4>1. k \in 0 .. Size(head, tail) - 1
        BY <3>1, <1>2, <1>4, RingFacts
      <4> QED
        BY <4>1 DEF IInv, RingHoldsStream
    <3>2. CASE k >= Size(head, tail)
      <4> DEFINE z == Size(head, tail)
                 j == k - z
      <4>1. /\ z \in 0 .. Capacity /\ j \in 0 .. count - 1
            /\ z + j = k /\ z + j <= Capacity /\ j \in 0 .. Capacity
            /\ sent + j = taken + k
        BY <1>2, <1>4, <3>2, RingFacts
      <4> HIDE DEF z, j
      <4>2. Advance(tail, k) = Advance(Advance(tail, z), j)
        BY <1>2, <4>1, AdvanceAdd
      <4>3. Advance(tail, z) = head
        BY <1>2, UnreadEndsAtHead DEF z
      <4>4. at = head /\ head + count <= Capacity
        BY <1>2, <4>1, FilledFits
      <4>5. Advance(head, j) = at + j
        BY <1>2, <4>1, <4>4 DEF Advance
      <4>6. buffer[at + j] = sent + j
        BY <4>1 DEF IInv, WindowFilled
      <4> QED
        BY <4>1, <4>2, <4>3, <4>5, <4>6
    <3> QED
      BY <1>2, <1>4, <3>1, <3>2, RingFacts
  <2> QED
    BY <1>1, <2>1, <2>2 DEF RingHoldsStream
<1> QED
  BY <1>5, <1>6, <1>7 DEF IInv

LEMMA BusResetStep ==
  ASSUME IInv, BusReset
  PROVE  IInv'
<1>1. TypeOK'
  BY DEF BusReset, IInv, TypeOK
<1>2. WindowIsFree' /\ WindowKept' /\ WindowFilled'
  BY DEF BusReset, WindowIsFree, WindowKept, WindowFilled
<1>3. RingHoldsStream'
  BY DEF BusReset, IInv, RingHoldsStream, taken
<1> QED
  BY <1>1, <1>2, <1>3 DEF IInv

LEMMA SetConfigurationStep ==
  ASSUME IInv, SetConfiguration
  PROVE  IInv'
<1>1. /\ at' = head /\ size' = Window(head, tail)
      /\ packets' = Packets(Window(head, tail)) /\ count' = 0
      /\ bus' = "configured"
      /\ UNCHANGED <<head, tail, buffer, resets, sent, seen, taken>>
  BY DEF SetConfiguration, Arm, taken
<1>2. /\ Window(head, tail) \in 0 .. Capacity - 1
      /\ head + Window(head, tail) <= Capacity
      /\ Window(head, tail) <= Free(head, tail)
      /\ Packets(Window(head, tail)) \in Nat
  BY RingFacts, WindowFits
<1>3. TypeOK'
  BY <1>1, <1>2 DEF IInv, TypeOK
<1>4. WindowIsFree' /\ WindowKept' /\ WindowFilled'
  BY <1>1, <1>2 DEF WindowIsFree, WindowKept, WindowFilled
<1>5. RingHoldsStream'
  BY <1>1 DEF IInv, RingHoldsStream
<1> QED
  BY <1>3, <1>4, <1>5 DEF IInv

(* What a read hands over: the next n bytes of the stream. *)
LEMMA ReadTakes ==
  ASSUME IInv, NEW length \in {1, Capacity}, Read(length)
  PROVE  \E n \in 1 .. Size(head, tail) :
           /\ tail' = Advance(tail, n)
           /\ seen' = seen \o [k \in 1..n |-> taken + k - 1]
<1> DEFINE n == IF length < Size(head, tail) THEN length ELSE Size(head, tail)
<1>1. /\ tail' = Advance(tail, n)
      /\ seen' = seen \o [k \in 1..n |-> buffer[Advance(tail, k - 1)]]
  BY DEF Read
<1>2. n \in 1 .. Size(head, tail)
  <2>1. Size(head, tail) # 0
    BY DEF Read
  <2> QED
    BY <2>1, RingFacts
<1> HIDE DEF n
<1>3. ASSUME NEW k \in 1..n
      PROVE  buffer[Advance(tail, k - 1)] = taken + k - 1
  <2>1. k - 1 \in 0 .. Size(head, tail) - 1
    BY <1>2, RingFacts
  <2>2. buffer[Advance(tail, k - 1)] = taken + (k - 1)
    BY <2>1 DEF IInv, RingHoldsStream
  <2>3. taken + (k - 1) = taken + k - 1
    BY RingFacts
  <2> QED
    BY <2>2, <2>3
<1>4. [k \in 1..n |-> buffer[Advance(tail, k - 1)]]
        = [k \in 1..n |-> taken + k - 1]
  BY <1>3
<1> QED
  BY <1>1, <1>2, <1>4, Zenon

LEMMA ReadStep ==
  ASSUME IInv, NEW length \in {1, Capacity}, Read(length)
  PROVE  IInv'
<1>1. PICK n \in 1 .. Size(head, tail) :
        /\ tail' = Advance(tail, n)
        /\ seen' = seen \o [k \in 1..n |-> taken + k - 1]
  BY ReadTakes
<1>2. UNCHANGED <<head, buffer, at, size, packets, count, bus, resets, sent>>
  BY DEF Read, endpoint
<1>3. n \in 1 .. Capacity - 1 /\ n \in 0 .. Capacity /\ n \in 0 .. Size(head, tail)
  BY RingFacts
<1>0. tail' = Advance(tail, n)
  BY <1>1, Zenon
<1>4. tail' \in Slot
  BY <1>0, <1>3, RingFacts, AdvanceInSlot
<1>10. seen' \in Seq(Int) /\ taken' = taken + n
  <2>1. seen \in Seq(Int) /\ n \in Nat
    BY <1>3 DEF IInv, TypeOK
  <2>2. /\ seen \o [k \in 1..n |-> taken + k - 1] \in Seq(Int)
        /\ Len(seen \o [k \in 1..n |-> taken + k - 1]) = taken + n
    BY <2>1, AppendStream DEF taken
  <2> QED
    BY <1>1, <2>2, Zenon DEF taken
<1>5. taken' = taken + n
  BY <1>10
<1>6. Size(head, tail') = Size(head, tail) - n
  BY <1>0, <1>3, RingFacts, SizeAfterRead
<1>7. TypeOK'
  BY <1>2, <1>4, <1>10 DEF IInv, TypeOK
<1>8. WindowIsFree' /\ WindowKept' /\ WindowFilled'
  <2>1. Free(head, tail) <= Free(head, tail')
    BY <1>3, <1>6, RingFacts DEF Free
  <2>2. /\ Free(head, tail) \in Int /\ Free(head, tail') \in Int
        /\ size \in Int
    BY <1>4, RingFacts, SizeRange DEF IInv, TypeOK
  <2>3. WindowIsFree'
    BY <1>2, <2>1, <2>2 DEF IInv, WindowIsFree
  <2> QED
    BY <1>2, <2>3 DEF IInv, WindowKept, WindowFilled
<1>9. RingHoldsStream'
  <2>1. Size(head, tail') = sent - taken'
    BY <1>3, <1>5, <1>6, RingFacts
  <2>2. ASSUME NEW k \in 0 .. Size(head, tail') - 1
        PROVE  buffer[Advance(tail', k)] = taken' + k
    <3>1. /\ n + k \in 0 .. Size(head, tail) - 1 /\ k \in 0 .. Capacity
          /\ n + k <= Capacity /\ taken' + k = taken + (n + k)
      BY <1>3, <1>5, <1>6, RingFacts
    <3>2. Advance(tail', k) = Advance(tail, n + k)
      BY <1>0, <1>3, <3>1, RingFacts, AdvanceAdd
    <3>3. buffer[Advance(tail, n + k)] = taken + (n + k)
      BY <3>1 DEF IInv, RingHoldsStream
    <3> QED
      BY <3>1, <3>2, <3>3
  <2> QED
    BY <1>2, <2>1, <2>2 DEF RingHoldsStream
<1> QED
  BY <1>7, <1>8, <1>9 DEF IInv

(* The endpoint's window and the unread bytes keep apart for ever, however *)
(* packets, commits, bus resets and reads follow one another.              *)
THEOREM Inductive == Spec => []IInv
<1>1. IInv /\ [Next]_vars => IInv'
  <2> SUFFICES ASSUME IInv, [Next]_vars PROVE IInv'
    OBVIOUS
  <2>1. ASSUME NEW n \in 0..MaxPacket, Packet(n) PROVE IInv'
    BY <2>1, PacketStep
  <2>2. CASE DataOut
    BY <2>2, DataOutStep
  <2>3. CASE BusReset
    BY <2>3, BusResetStep
  <2>4. CASE SetConfiguration
    BY <2>4, SetConfigurationStep
  <2>5. ASSUME NEW length \in {1, Capacity}, Read(length) PROVE IInv'
    BY <2>5, ReadStep
  <2>6. CASE UNCHANGED vars
    BY <2>6 DEF vars, endpoint, IInv, TypeOK, WindowIsFree, WindowKept,
                WindowFilled, RingHoldsStream, taken
  <2> QED
    BY <2>1, <2>2, <2>3, <2>4, <2>5, <2>6 DEF Next
<1> QED
  BY <1>1, InitInv, PTL DEF Spec

(* What the endpoint may still fill is free, at whatever point of a        *)
(* transfer the main loop reads.                                           *)
THEOREM WindowsAreFree == Spec => []WindowIsFree
<1>1. IInv => WindowIsFree
  BY DEF IInv
<1> QED
  BY <1>1, Inductive, PTL

(* The bytes el_usbxch_read returns are those of the host's completed      *)
(* transfers, in order, none lost and none twice: the path implements a    *)
(* byte pipe that holds at most Capacity - 1 bytes.                        *)
THEOREM RefinesPipe == Spec => ImplementsPipe
<1>1. Init => Stream!PipeInit
  BY DEF Init, Stream!PipeInit
<1>2. IInv /\ [Next]_vars => [Stream!PipeNext]_(Stream!pipeVars)
  <2> SUFFICES ASSUME IInv, [Next]_vars
               PROVE  [Stream!PipeNext]_(Stream!pipeVars)
    OBVIOUS
  <2>1. CASE DataOut
    <3>1. count \in 0 .. Capacity - 1 /\ sent + count - taken <= Capacity - 1
      BY FilledFits, RingFacts
    <3>2. sent' = sent + count /\ seen' = seen
      BY <2>1 DEF DataOut
    <3>3. Stream!Accept(count)
      BY <3>1, <3>2 DEF Stream!Accept, taken
    <3>4. CASE count = 0
      BY <3>2, <3>4, RingFacts DEF Stream!pipeVars
    <3>5. CASE count # 0
      <4>1. count \in 1 .. Capacity - 1
        BY <3>1, <3>5
      <4> QED
        BY <3>3, <4>1 DEF Stream!PipeNext
    <3> QED
      BY <3>4, <3>5
  <2>2. ASSUME NEW length \in {1, Capacity}, Read(length)
        PROVE  Stream!PipeNext
    <3>1. PICK n \in 1 .. Size(head, tail) :
            seen' = seen \o [k \in 1..n |-> taken + k - 1]
      BY <2>2, ReadTakes
    <3>2. n \in 1 .. Capacity - 1 /\ taken + n <= sent
      BY RingFacts
    <3>3. sent' = sent
      BY <2>2 DEF Read
    <3>4. Stream!Deliver(n)
      BY <3>1, <3>2, <3>3 DEF Stream!Deliver, taken
    <3> QED
      BY <3>2, <3>4 DEF Stream!PipeNext
  <2>3. \/ DataOut
        \/ \E length \in {1, Capacity} : Read(length)
        \/ UNCHANGED <<sent, seen>>
    BY DEF Next, vars, Packet, BusReset, SetConfiguration
  <2> QED
    BY <2>1, <2>2, <2>3 DEF Stream!pipeVars
<1> QED
  BY <1>1, <1>2, Inductive, PTL DEF Spec, ImplementsPipe, Stream!PipeSpec
=============================================================================
