-------------------------- MODULE UsbxchTx_proofs --------------------------
(***************************************************************************)
(* Proofs about the device-to-host path, for every capacity of the ring up *)
(* to 65535, every packet size and every number of bytes, as long as no    *)
(* transfer completes inside usbxch_start_tx (~Prompt) and the bus is      *)
(* reset for the first enumeration only (MaxResets <= 1).                  *)
(***************************************************************************)
EXTENDS UsbxchTx, RingIndex_proofs

USE CapacityPositive DEF Slot

-----------------------------------------------------------------------------
(* The span given to the endpoint is the first of the unread bytes, as far *)
(* as they reach before the end of the storage.                            *)
LEMMA ReadSpanFits ==
  ASSUME NEW h \in Slot, NEW t \in Slot
  PROVE  /\ ReadSpan(h, t) \in 0 .. Size(h, t)
         /\ t + ReadSpan(h, t) <= Capacity
<1>1. Size(h, t) \in 0 .. Capacity - 1
  BY SizeRange
<1>2. CASE t >= h
  <2>1. BytesToEnd(t) = Capacity - t
    BY CapacityAssumption, U16Fits DEF BytesToEnd
  <2> QED
    BY <1>1, <1>2, <2>1 DEF ReadSpan, FirstSpan
<1>3. CASE t < h
  <2>1. BytesToHead(h, t) = h - t
    BY <1>3, CapacityAssumption, U16Fits DEF BytesToHead
  <2> QED
    BY <1>1, <1>3, <2>1 DEF ReadSpan, FirstSpan, Size
<1> QED
  BY <1>2, <1>3

LEMMA RingFacts ==
  ASSUME IInv
  PROVE  /\ head \in Slot /\ tail \in Slot
         /\ written \in Nat /\ arrived \in Nat
         /\ Size(head, tail) \in 0 .. Capacity - 1
         /\ arrived - gone + Size(head, tail) = written
         /\ Free(head, tail) = Capacity - Size(head, tail) - 1
<1>1. head \in Slot /\ tail \in Slot /\ written \in Nat
  BY DEF IInv, TypeOK
<1>2. arrived \in Nat
  <2>1. wire \in Seq(Int)
    BY DEF IInv, TypeOK
  <2> QED
    BY <2>1 DEF arrived
<1>3. arrived - gone + Size(head, tail) = written
  BY DEF IInv, RingHoldsStream
<1>4. Size(head, tail) \in 0 .. Capacity - 1
  BY <1>1, SizeRange
<1> QED
  BY <1>1, <1>2, <1>3, <1>4 DEF Free

(* How the running transfer lies in the ring. *)
LEMMA TransferFacts ==
  ASSUME IInv
  PROVE  /\ length \in Nat /\ gone \in Nat
         /\ left = NoTransfer => gone = 0
         /\ left # NoTransfer =>
              /\ left \in Nat /\ at \in Nat
              /\ gone + left = length /\ length <= Size(head, tail)
              /\ tail + length <= Capacity /\ at = tail + gone
<1>1. length \in Nat /\ left \in -1 .. Capacity /\ at \in Nat
  BY DEF IInv, TypeOK, length
<1>2. CASE left = NoTransfer
  BY <1>1, <1>2 DEF gone
<1>3. CASE left # NoTransfer
  BY <1>1, <1>3 DEF IInv, TransferKept, gone, NoTransfer
<1> QED
  BY <1>1, <1>2, <1>3

(* The byte the endpoint reads k places on is the next but k. *)
LEMMA InFlightByte ==
  ASSUME IInv, NEW k \in Nat, k < left
  PROVE  buffer[at + k] = arrived + k
<1>1. left \in -1 .. Capacity
  BY DEF IInv, TypeOK
<1>2. left # NoTransfer
  BY <1>1 DEF NoTransfer
<1> DEFINE g == gone
<1>3. /\ g \in Nat /\ g + k \in 0 .. Size(head, tail) - 1
      /\ tail + (g + k) < Capacity /\ at + k = tail + (g + k)
      /\ tail \in Nat
  BY <1>1, <1>2, TransferFacts, RingFacts
<1>4. buffer[Advance(tail, g + k)] = arrived - g + (g + k)
  BY <1>3 DEF IInv, RingHoldsStream
<1> HIDE DEF g
<1>5. Advance(tail, g + k) = at + k
  BY <1>3 DEF Advance
<1>6. arrived - g + (g + k) = arrived + k
  BY <1>3, RingFacts
<1> QED
  BY <1>4, <1>5, <1>6

-----------------------------------------------------------------------------
(* The inductive invariant: Init, then one lemma per action. *)

LEMMA InitInv == Init => IInv
<1> SUFFICES ASSUME Init PROVE IInv
  OBVIOUS
<1>1. TypeOK
  <2>1. buffer \in [Slot -> Int] /\ wire \in Seq(Int)
    BY DEF Init, Garbage
  <2>2. at \in 0 .. Capacity /\ left \in -1 .. Capacity
    BY DEF Init, NoTransfer
  <2>3. /\ head \in Slot /\ tail \in Slot /\ release \in 0 .. Capacity
        /\ span \in 0 .. Capacity /\ resets \in Nat /\ written \in Nat
    BY DEF Init
  <2>4. /\ busy \in BOOLEAN /\ pc \in {"idle", "release", "flag"}
        /\ bus \in {"detached", "default", "configured"}
    BY DEF Init
  <2> QED
    BY <2>1, <2>2, <2>3, <2>4 DEF TypeOK
<1>2. BusyTracksTransfer /\ HandedOver /\ TransferKept /\ QuietUntilConfigured
  BY DEF Init, BusyTracksTransfer, HandedOver, TransferKept,
         QuietUntilConfigured
<1>3. RingHoldsStream
  <2>1. head = 0 /\ tail = 0 /\ written = 0
    BY DEF Init
  <2>2. arrived = 0 /\ gone = 0
    BY DEF Init, arrived, gone
  <2>3. Size(head, tail) = 0
    BY <2>1 DEF Size
  <2> QED
    BY <2>1, <2>2, <2>3 DEF RingHoldsStream
<1> QED
  BY <1>1, <1>2, <1>3 DEF IInv

(* A write fills free slots behind the unread bytes: the running transfer  *)
(* and everything unread stay as they are.                                 *)
LEMMA WriteStep ==
  ASSUME IInv, NEW n \in 1..Capacity, Write(n)
  PROVE  IInv'
<1>1. /\ head' = Advance(head, n) /\ written' = written + n
      /\ n <= Free(head, tail) /\ bus = "configured" /\ pc = "idle"
      /\ UNCHANGED <<tail, busy, release, pc, span, at, left, bus, resets,
                     wire, arrived, length, gone>>
  <2>1. /\ head' = Advance(head, n) /\ written' = written + n
        /\ n <= Free(head, tail) /\ bus = "configured" /\ pc = "idle"
        /\ UNCHANGED <<tail, busy, release, pc, span, at, left, bus, resets,
                       wire>>
    BY DEF Write, usbVars, flight
  <2> QED
    BY <2>1 DEF arrived, length, gone
<1>2. /\ head \in Slot /\ tail \in Slot /\ n \in 0 .. Capacity
      /\ n \in 0 .. Free(head, tail)
  BY <1>1, RingFacts
<1>3. head' \in Slot
  BY <1>1, <1>2, AdvanceInSlot
<1>4. Size(head', tail) = Size(head, tail) + n
  BY <1>1, <1>2, SizeAfterWrite
<1> DEFINE new == { Advance(head, k) : k \in 0 .. n - 1 }
           place(s) == CHOOSE k \in 0 .. n - 1 : Advance(head, k) = s
<1>5. buffer' = [s \in Slot |-> IF s \in new THEN written + place(s)
                                ELSE buffer[s]]
  BY DEF Write
<1>6. ASSUME NEW s \in new
      PROVE  place(s) \in 0 .. n - 1 /\ Advance(head, place(s)) = s
  <2>1. \E k \in 0 .. n - 1 : Advance(head, k) = s
    OBVIOUS
  <2> QED
    BY <2>1
<1> HIDE DEF place
<1>7. TypeOK'
  <2>1. buffer' \in [Slot -> Int]
    <3>1. written \in Nat /\ buffer \in [Slot -> Int]
      BY DEF IInv, TypeOK
    <3> HIDE DEF new
    <3>2. \A s \in new : place(s) \in Int
      BY <1>6
    <3> QED
      BY <1>5, <3>1, <3>2
  <2>2. written' \in Nat
    BY <1>1, RingFacts
  <2> QED
    BY <1>1, <1>3, <2>1, <2>2 DEF IInv, TypeOK
<1>8. BusyTracksTransfer' /\ HandedOver' /\ QuietUntilConfigured'
  BY <1>1 DEF IInv, BusyTracksTransfer, HandedOver, QuietUntilConfigured
<1>9. TransferKept'
  <2>1. ASSUME left # NoTransfer
        PROVE  length <= Size(head', tail)
    BY <1>2, <1>4, <2>1, TransferFacts, RingFacts
  <2> QED
    BY <1>1, <2>1 DEF IInv, TransferKept
<1>10. RingHoldsStream'
  <2>1. arrived - gone + Size(head', tail) = written'
    BY <1>1, <1>2, <1>4, RingFacts, TransferFacts
  <2>2. ASSUME NEW k \in 0 .. Size(head, tail) - 1
        PROVE  buffer'[Advance(tail, k)] = arrived - gone + k
    <3>1. Advance(tail, k) \in Slot
      BY RingFacts, AdvanceInSlot
    <3>2. Advance(tail, k) \notin new
      <4>1. \A j \in 0 .. n - 1 : Advance(head, j) # Advance(tail, k)
        <5> SUFFICES ASSUME NEW j \in 0 .. n - 1
                     PROVE  Advance(head, j) # Advance(tail, k)
          OBVIOUS
        <5>1. j \in 0 .. Free(head, tail) - 1
          BY <1>2, RingFacts
        <5> QED
          BY <1>2, <5>1, FreeApartFromUnread
      <4> QED
        BY <4>1
    <3>3. buffer[Advance(tail, k)] = arrived - gone + k
      BY DEF IInv, RingHoldsStream
    <3> HIDE DEF new
    <3> QED
      BY <1>5, <3>1, <3>2, <3>3
  <2>3. ASSUME NEW j \in 0 .. n - 1
        PROVE  buffer'[Advance(head, j)] = written + j
    <3> DEFINE s == Advance(head, j)
    <3>1. s \in Slot /\ s \in new
      BY <1>2, AdvanceInSlot
    <3>2. place(s) = j
      <4> DEFINE p == place(s)
      <4>1. p \in 0 .. n - 1 /\ Advance(head, p) = Advance(head, j)
        BY <1>6, <3>1
      <4> HIDE DEF p
      <4>2. p \in 0 .. Capacity - 1 /\ j \in 0 .. Capacity - 1
        BY <1>2, <4>1
      <4> QED
        BY <1>2, <4>1, <4>2, AdvanceInjective DEF p
    <3> HIDE DEF s, new
    <3>3. buffer'[s] = written + place(s)
      BY <1>5, <3>1
    <3> QED
      BY <3>2, <3>3 DEF s
  <2>4. ASSUME NEW k \in 0 .. Size(head', tail) - 1
        PROVE  buffer'[Advance(tail, k)] = arrived - gone + k
    <3>1. CASE k < Size(head, tail)
      <4>1. k \in 0 .. Size(head, tail) - 1
        BY <1>2, <1>4, <3>1, RingFacts
      <4> QED
        BY <2>2, <4>1
    <3>2. CASE k >= Size(head, tail)
      <4> DEFINE z == Size(head, tail)
                 j == k - z
      <4>1. /\ z \in 0 .. Capacity /\ j \in 0 .. n - 1
            /\ z + j = k /\ z + j <= Capacity /\ j \in 0 .. Capacity
            /\ written + j = arrived - gone + k
        BY <1>2, <1>4, <3>2, RingFacts, TransferFacts
      <4> HIDE DEF z, j
      <4>2. Advance(tail, k) = Advance(Advance(tail, z), j)
        BY <1>2, <4>1, AdvanceAdd
      <4>3. Advance(tail, z) = head
        BY <1>2, UnreadEndsAtHead DEF z
      <4>4. buffer'[Advance(head, j)] = written + j
        BY <2>3, <4>1
      <4> QED
        BY <4>1, <4>2, <4>3, <4>4
    <3> QED
      BY <1>2, <1>4, <3>1, <3>2, RingFacts
  <2> QED
    BY <1>1, <2>1, <2>4 DEF RingHoldsStream
<1> QED
  BY <1>7, <1>8, <1>9, <1>10 DEF IInv

(* A transfer is started only when none runs, from the oldest unread byte. *)
LEMMA StartTxStep ==
  ASSUME IInv, StartTx
  PROVE  IInv'
<1>1. /\ pc = "idle" /\ ~busy /\ Size(head, tail) # 0
      /\ span' = ReadSpan(head, tail) /\ left' = ReadSpan(head, tail)
      /\ at' = tail /\ pc' = "release"
      /\ UNCHANGED <<head, tail, buffer, busy, release, bus, resets, written,
                     wire>>
  BY DEF StartTx, ringVars
<1>2. /\ ReadSpan(head, tail) \in 0 .. Size(head, tail)
      /\ tail + ReadSpan(head, tail) <= Capacity
  BY RingFacts, ReadSpanFits
<1>3. left = NoTransfer
  BY <1>1 DEF IInv, BusyTracksTransfer
<1>4. left' # NoTransfer
  BY <1>1, <1>2, RingFacts DEF NoTransfer
<1>5. gone = 0 /\ gone' = 0 /\ length' = ReadSpan(head, tail)
  <2>1. gone = 0
    BY <1>3 DEF gone
  <2>2. length' = ReadSpan(head, tail)
    BY <1>1 DEF length
  <2>3. gone' = 0
    BY <1>1, <1>2, <1>4, <2>2, RingFacts DEF gone
  <2> QED
    BY <2>1, <2>2, <2>3
<1>6. TypeOK'
  <2>1. /\ span' \in 0 .. Capacity /\ left' \in -1 .. Capacity
        /\ at' \in 0 .. Capacity
    BY <1>1, <1>2, RingFacts
  <2> QED
    BY <1>1, <2>1 DEF IInv, TypeOK
<1>7. BusyTracksTransfer' /\ HandedOver'
  BY <1>1, <1>4 DEF BusyTracksTransfer, HandedOver
<1>8. TransferKept'
  BY <1>1, <1>2, <1>5, RingFacts DEF TransferKept
<1>9. RingHoldsStream'
  <2>1. arrived' = arrived
    BY <1>1 DEF arrived
  <2> QED
    BY <1>1, <1>5, <2>1 DEF IInv, RingHoldsStream
<1>10. QuietUntilConfigured'
  <2>1. bus = "configured"
    BY <1>1, <1>5, RingFacts DEF IInv, QuietUntilConfigured
  <2> QED
    BY <1>1, <2>1 DEF IInv, QuietUntilConfigured
<1> QED
  BY <1>6, <1>7, <1>8, <1>9, <1>10 DEF IInv

LEMMA SetReleaseStep ==
  ASSUME IInv, SetRelease
  PROVE  IInv'
<1>1. /\ pc = "release" /\ release' = span /\ pc' = "flag"
      /\ UNCHANGED <<head, tail, buffer, busy, span, at, left, bus, resets,
                     written, wire>>
  BY DEF SetRelease, ringVars, usbVars, flight
<1>2. UNCHANGED <<length, gone, arrived>>
  BY <1>1 DEF length, gone, arrived
<1>3. TypeOK'
  BY <1>1 DEF IInv, TypeOK
<1>4. BusyTracksTransfer' /\ HandedOver' /\ QuietUntilConfigured'
  BY <1>1 DEF IInv, BusyTracksTransfer, HandedOver, QuietUntilConfigured
<1>5. TransferKept' /\ RingHoldsStream'
  BY <1>1, <1>2 DEF IInv, TransferKept, RingHoldsStream
<1> QED
  BY <1>3, <1>4, <1>5 DEF IInv

LEMMA SetBusyStep ==
  ASSUME IInv, SetBusy
  PROVE  IInv'
<1>1. /\ pc = "flag" /\ busy' = TRUE /\ pc' = "idle"
      /\ UNCHANGED <<head, tail, buffer, release, span, at, left, bus, resets,
                     written, wire>>
  BY DEF SetBusy, ringVars, usbVars, flight
<1>2. UNCHANGED <<length, gone, arrived>>
  BY <1>1 DEF length, gone, arrived
<1>3. TypeOK'
  BY <1>1 DEF IInv, TypeOK
<1>4. BusyTracksTransfer' /\ HandedOver' /\ QuietUntilConfigured'
  BY <1>1 DEF IInv, BusyTracksTransfer, HandedOver, QuietUntilConfigured
<1>5. TransferKept' /\ RingHoldsStream'
  BY <1>1, <1>2 DEF IInv, TransferKept, RingHoldsStream
<1> QED
  BY <1>3, <1>4, <1>5 DEF IInv

(* What the host takes: the next n bytes of the stream. *)
LEMMA PollTakes ==
  ASSUME IInv, HostPoll
  PROVE  \E n \in 1 .. left :
           /\ at' = at + n /\ left' = left - n
           /\ wire' = wire \o [k \in 1..n |-> arrived + k - 1]
<1> DEFINE n == IF left < MaxPacket THEN left ELSE MaxPacket
<1>1. /\ at' = at + n /\ left' = left - n
      /\ wire' = wire \o [k \in 1..n |-> buffer[at + k - 1]]
  BY DEF HostPoll
<1>2. left \in Nat /\ at \in Nat /\ n \in 1 .. left
  <2>1. left \in -1 .. Capacity /\ left > 0 /\ at \in Nat
    BY DEF IInv, TypeOK, HostPoll
  <2> QED
    BY <2>1, UsbxchTxAssumption
<1> HIDE DEF n
<1>3. ASSUME NEW k \in 1..n
      PROVE  buffer[at + k - 1] = arrived + k - 1
  <2>1. buffer[at + (k - 1)] = arrived + (k - 1)
    BY <1>2, InFlightByte
  <2>2. at + (k - 1) = at + k - 1 /\ arrived + (k - 1) = arrived + k - 1
    BY <1>2, RingFacts
  <2> QED
    BY <2>1, <2>2
<1>4. [k \in 1..n |-> buffer[at + k - 1]] = [k \in 1..n |-> arrived + k - 1]
  BY <1>3
<1> QED
  BY <1>1, <1>2, <1>4, Zenon

LEMMA HostPollStep ==
  ASSUME IInv, HostPoll
  PROVE  IInv'
<1>1. PICK n \in 1 .. left :
        /\ at' = at + n /\ left' = left - n
        /\ wire' = wire \o [k \in 1..n |-> arrived + k - 1]
  BY PollTakes
<1>2. at' = at + n /\ left' = left - n
  BY <1>1, Zenon
<1>3. UNCHANGED <<head, tail, buffer, busy, release, pc, span, bus, resets,
                  written, length>>
  BY DEF HostPoll, ringVars, length
<1>4. left \in Nat /\ left > 0 /\ n \in Nat /\ bus = "configured"
  BY DEF IInv, TypeOK, HostPoll
<1>5. left # NoTransfer /\ left' # NoTransfer
  BY <1>2, <1>4 DEF NoTransfer
<1>6. gone' = gone + n
  BY <1>2, <1>3, <1>4, <1>5, TransferFacts DEF gone
<1>7. wire' \in Seq(Int) /\ arrived' = arrived + n
  <2>1. wire \in Seq(Int)
    BY DEF IInv, TypeOK
  <2>2. /\ wire \o [k \in 1..n |-> arrived + k - 1] \in Seq(Int)
        /\ Len(wire \o [k \in 1..n |-> arrived + k - 1]) = arrived + n
    BY <1>4, <2>1, AppendStream DEF arrived
  <2> QED
    BY <1>1, <2>2, Zenon DEF arrived
<1>8. arrived' - gone' = arrived - gone
  <2>1. arrived' = arrived + n
    BY <1>7
  <2> QED
    BY <1>4, <1>6, <2>1, RingFacts, TransferFacts
<1>9. TypeOK'
  <2>1. at' \in 0 .. Capacity /\ left' \in -1 .. Capacity
    BY <1>2, <1>4, <1>5, TransferFacts, RingFacts
  <2> QED
    BY <1>3, <1>7, <2>1 DEF IInv, TypeOK
<1>10. BusyTracksTransfer' /\ HandedOver' /\ QuietUntilConfigured'
  BY <1>3, <1>4, <1>5
     DEF IInv, BusyTracksTransfer, HandedOver, QuietUntilConfigured
<1>11. TransferKept'
  BY <1>2, <1>3, <1>4, <1>5, <1>6, TransferFacts, RingFacts DEF TransferKept
<1>12. RingHoldsStream'
  BY <1>3, <1>8 DEF IInv, RingHoldsStream
<1> QED
  BY <1>9, <1>10, <1>11, <1>12 DEF IInv

(* The completion releases the transfer that is done.  Where bytes are     *)
(* left, the next transfer starts where it ended.                          *)
LEMMA TxCompleteStep ==
  ASSUME ~Prompt, IInv, TxComplete
  PROVE  IInv'
<1> DEFINE t == Advance(tail, release)
           c == ReadSpan(head, t)
<1>1. /\ left = 0 /\ pc = "idle" /\ tail' = t
      /\ UNCHANGED <<head, buffer, pc, span, bus, resets, written, wire,
                     arrived>>
  BY DEF TxComplete, arrived
<1>2. /\ left # NoTransfer /\ length = release /\ gone = release
      /\ busy = TRUE
  <2>1. left # NoTransfer /\ length = release
    BY <1>1 DEF NoTransfer, length
  <2>2. gone = release
    <3>1. release \in Nat
      BY DEF IInv, TypeOK
    <3> QED
      BY <1>1, <2>1, <3>1 DEF gone
  <2>3. busy = TRUE
    BY <1>1, <2>1 DEF IInv, BusyTracksTransfer, TypeOK
  <2> QED
    BY <2>1, <2>2, <2>3
<1>3. /\ release \in 0 .. Capacity /\ release \in 0 .. Size(head, tail)
      /\ head \in Slot /\ tail \in Slot
  BY <1>2, TransferFacts, RingFacts
<1>4. t \in Slot
  BY <1>3, AdvanceInSlot
<1>5. Size(head, t) = Size(head, tail) - release
  BY <1>3, SizeAfterRead
<1>6. c \in 0 .. Size(head, t) /\ t + c <= Capacity
      /\ Size(head, t) \in 0 .. Capacity - 1
  BY <1>3, <1>4, ReadSpanFits, SizeRange
<1>7. \/ /\ Size(head, t) = 0 /\ busy' = FALSE /\ left' = NoTransfer
         /\ UNCHANGED <<at, release>>
      \/ /\ Size(head, t) # 0 /\ at' = t /\ left' = c /\ release' = c
         /\ busy' = busy
  BY DEF TxComplete
<1>8. ASSUME NEW k \in 0 .. Size(head, t) - 1
      PROVE  buffer[Advance(t, k)] = arrived + k
  <2> DEFINE m == release + k
  <2>1. /\ m \in 0 .. Size(head, tail) - 1 /\ k \in 0 .. Capacity
        /\ m <= Capacity /\ arrived - gone + m = arrived + k
    BY <1>2, <1>3, <1>5, RingFacts
  <2>2. Advance(t, k) = Advance(tail, m)
    BY <1>3, <2>1, AdvanceAdd
  <2> HIDE DEF m, t
  <2>3. buffer[Advance(tail, m)] = arrived - gone + m
    BY <2>1 DEF IInv, RingHoldsStream
  <2> QED
    BY <2>1, <2>2, <2>3
<1> HIDE DEF t, c
<1>9. left' \in -1 .. Capacity /\ (left' = NoTransfer <=> Size(head, t) = 0)
  BY <1>6, <1>7 DEF NoTransfer
<1>10. gone' = 0 /\ (left' # NoTransfer => length' = c /\ left' = c)
  <2>1. CASE left' = NoTransfer
    BY <2>1 DEF gone
  <2>2. CASE left' # NoTransfer
    <3>1. left' = c /\ length' = c
      BY <1>1, <1>7, <2>2 DEF length
    <3> QED
      BY <1>6, <2>2, <3>1 DEF gone
  <2> QED
    BY <2>1, <2>2
<1>11. TypeOK'
  <2>1. release' \in 0 .. Capacity /\ at' \in 0 .. Capacity
    <3>1. at \in 0 .. Capacity
      BY DEF IInv, TypeOK
    <3> QED
      BY <1>3, <1>4, <1>6, <1>7, <3>1
  <2>2. busy' \in BOOLEAN
    BY <1>2, <1>7
  <2> QED
    BY <1>1, <1>4, <1>9, <2>1, <2>2 DEF IInv, TypeOK
<1>12. BusyTracksTransfer' /\ HandedOver'
  BY <1>1, <1>2, <1>7, <1>9 DEF BusyTracksTransfer, HandedOver
<1>13. TransferKept'
  BY <1>1, <1>4, <1>6, <1>7, <1>9, <1>10 DEF TransferKept
<1>14. RingHoldsStream'
  <2>1. arrived - 0 + Size(head, t) = written
    BY <1>2, <1>3, <1>5, RingFacts
  <2>2. \A k \in 0 .. Size(head, t) - 1 :
          buffer[Advance(t, k)] = arrived - 0 + k
    BY <1>8, RingFacts
  <2> QED
    BY <1>1, <1>10, <2>1, <2>2 DEF RingHoldsStream
<1>15. QuietUntilConfigured'
  BY <1>1, <1>2 DEF IInv, QuietUntilConfigured
<1> QED
  BY <1>11, <1>12, <1>13, <1>14, <1>15 DEF IInv

(* The only bus reset comes before anything has been written. *)
LEMMA BusResetStep ==
  ASSUME MaxResets <= 1, IInv, BusReset
  PROVE  IInv'
<1>1. /\ resets < MaxResets /\ resets' = resets + 1 /\ bus' = "default"
      /\ left' = NoTransfer
      /\ UNCHANGED <<head, tail, buffer, busy, release, pc, span, at, written,
                     wire, arrived>>
  BY DEF BusReset, ringVars, arrived
<1>2. resets = 0 /\ resets' = 1
  <2>1. resets \in Nat /\ MaxResets \in Nat
    BY UsbxchTxAssumption DEF IInv, TypeOK
  <2> QED
    BY <1>1, <2>1
<1>3. bus = "detached"
  BY <1>2 DEF IInv, QuietUntilConfigured
<1>4. left = NoTransfer /\ written = 0 /\ pc = "idle"
  BY <1>3 DEF IInv, QuietUntilConfigured
<1>5. gone = 0 /\ gone' = 0
  BY <1>1, <1>4 DEF gone
<1>6. TypeOK'
  BY <1>1, <1>2, <1>4 DEF IInv, TypeOK
<1>7. BusyTracksTransfer' /\ HandedOver' /\ TransferKept'
  BY <1>1, <1>4 DEF IInv, BusyTracksTransfer, HandedOver, TransferKept
<1>8. RingHoldsStream'
  BY <1>1, <1>5 DEF IInv, RingHoldsStream
<1>9. QuietUntilConfigured'
  BY <1>1, <1>2, <1>4 DEF QuietUntilConfigured
<1> QED
  BY <1>6, <1>7, <1>8, <1>9 DEF IInv

LEMMA SetConfigurationStep ==
  ASSUME IInv, SetConfiguration
  PROVE  IInv'
<1>1. /\ bus = "default" /\ bus' = "configured"
      /\ UNCHANGED <<head, tail, buffer, busy, release, pc, span, at, left,
                     resets, written, wire, arrived, length, gone>>
  <2>1. /\ bus = "default" /\ bus' = "configured"
        /\ UNCHANGED <<head, tail, buffer, busy, release, pc, span, at, left,
                       resets, written, wire>>
    BY DEF SetConfiguration, ringVars, flight
  <2> QED
    BY <2>1 DEF arrived, length, gone
<1>2. TypeOK'
  BY <1>1 DEF IInv, TypeOK
<1>3. BusyTracksTransfer' /\ HandedOver' /\ QuietUntilConfigured'
  BY <1>1 DEF IInv, BusyTracksTransfer, HandedOver, QuietUntilConfigured
<1>4. TransferKept' /\ RingHoldsStream'
  BY <1>1 DEF IInv, TransferKept, RingHoldsStream
<1> QED
  BY <1>2, <1>3, <1>4 DEF IInv

(* The hand-over of a transfer, its completion and the chaining of the     *)
(* next keep the strengthened invariant.                                   *)
THEOREM Inductive == ~Prompt /\ MaxResets <= 1 /\ Spec => []IInv
<1> SUFFICES ASSUME ~Prompt, MaxResets <= 1
             PROVE  Spec => []IInv
  OBVIOUS
<1>1. IInv /\ [Next]_vars => IInv'
  <2> SUFFICES ASSUME IInv, [Next]_vars PROVE IInv'
    OBVIOUS
  <2>1. ASSUME NEW n \in 1..Capacity, Write(n) PROVE IInv'
    BY <2>1, WriteStep
  <2>2. CASE StartTx
    BY <2>2, StartTxStep
  <2>3. CASE SetRelease
    BY <2>3, SetReleaseStep
  <2>4. CASE SetBusy
    BY <2>4, SetBusyStep
  <2>5. CASE HostPoll
    BY <2>5, HostPollStep
  <2>6. CASE TxComplete
    BY <2>6, TxCompleteStep
  <2>7. CASE BusReset
    BY <2>7, BusResetStep
  <2>8. CASE SetConfiguration
    BY <2>8, SetConfigurationStep
  <2>9. CASE UNCHANGED vars
    <3>1. UNCHANGED <<head, tail, buffer, busy, release, pc, span, at, left,
                      bus, resets, written, wire>>
      BY <2>9 DEF vars, flight
    <3>2. UNCHANGED <<arrived, length, gone>>
      BY <3>1 DEF arrived, length, gone
    <3> QED
      BY <3>1, <3>2 DEF IInv, TypeOK, BusyTracksTransfer, HandedOver,
                        TransferKept, RingHoldsStream, QuietUntilConfigured
  <2> QED
    BY <2>1, <2>2, <2>3, <2>4, <2>5, <2>6, <2>7, <2>8, <2>9 DEF Next
<1> QED
  BY <1>1, InitInv, PTL DEF Spec

(* While the IN endpoint reads the ring's storage, el_usbxch_write never   *)
(* touches what it has still to read.                                      *)
THEOREM TransfersStayIntact ==
  ~Prompt /\ MaxResets <= 1 /\ Spec => []InFlightIntact
<1>1. IInv => InFlightIntact
  <2> SUFFICES ASSUME IInv, NEW k \in 0 .. left - 1
               PROVE  buffer[at + k] = arrived + k
    BY DEF InFlightIntact, arrived
  <2>1. left \in -1 .. Capacity
    BY DEF IInv, TypeOK
  <2>2. k \in Nat /\ k < left
    BY <2>1
  <2> QED
    BY <2>2, InFlightByte
<1> QED
  BY <1>1, Inductive, PTL

(* Outside usbxch_start_tx the busy flag says whether a transfer runs. *)
THEOREM BusyIsExact ==
  ~Prompt /\ MaxResets <= 1 /\ Spec => []BusyTracksTransfer
<1>1. IInv => BusyTracksTransfer
  BY DEF IInv
<1> QED
  BY <1>1, Inductive, PTL

(* The host receives the bytes that were written, in order, none lost and  *)
(* none twice: the path implements a byte pipe that holds at most          *)
(* Capacity - 1 bytes.                                                     *)
THEOREM RefinesPipe ==
  ~Prompt /\ MaxResets <= 1 /\ Spec => ImplementsPipe
<1> SUFFICES ASSUME ~Prompt, MaxResets <= 1
             PROVE  Spec => ImplementsPipe
  OBVIOUS
<1>1. Init => Stream!PipeInit
  BY DEF Init, Stream!PipeInit
<1>2. IInv /\ [Next]_vars => [Stream!PipeNext]_(Stream!pipeVars)
  <2> SUFFICES ASSUME IInv, [Next]_vars
               PROVE  [Stream!PipeNext]_(Stream!pipeVars)
    OBVIOUS
  <2>1. ASSUME NEW n \in 1..Capacity, Write(n)
        PROVE  Stream!PipeNext
    <3>1. n <= Free(head, tail) /\ written' = written + n /\ wire' = wire
      BY <2>1 DEF Write
    <3>2. n \in 1 .. Capacity - 1 /\ written + n - arrived <= Capacity - 1
      BY <3>1, RingFacts, TransferFacts
    <3>3. Stream!Accept(n)
      BY <3>1, <3>2 DEF Stream!Accept, arrived
    <3> QED
      BY <3>2, <3>3 DEF Stream!PipeNext
  <2>2. CASE HostPoll
    <3>1. PICK n \in 1 .. left :
            wire' = wire \o [k \in 1..n |-> arrived + k - 1]
      BY <2>2, PollTakes
    <3>2. left \in Nat /\ left # NoTransfer
      BY <2>2 DEF HostPoll, IInv, TypeOK, NoTransfer
    <3>3. n \in 1 .. Capacity - 1 /\ arrived + n <= written
      BY <3>2, RingFacts, TransferFacts
    <3>4. written' = written
      BY <2>2 DEF HostPoll
    <3>5. Stream!Deliver(n)
      BY <3>1, <3>3, <3>4 DEF Stream!Deliver, arrived
    <3> QED
      BY <3>3, <3>5 DEF Stream!PipeNext
  <2>3. \/ \E n \in 1..Capacity : Write(n)
        \/ HostPoll
        \/ UNCHANGED <<written, wire>>
    BY DEF Next, vars, StartTx, SetRelease, SetBusy, TxComplete, BusReset,
           SetConfiguration
  <2> QED
    BY <2>1, <2>2, <2>3 DEF Stream!pipeVars
<1> QED
  BY <1>1, <1>2, Inductive, PTL DEF Spec, ImplementsPipe, Stream!PipeSpec
=============================================================================
