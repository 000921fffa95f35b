------------------------------ MODULE UsbxchRx ------------------------------
(***************************************************************************)
(* The host-to-device path of ecolib/driver/stm32f4/el_usbxch.c: the USB   *)
(* stack arms the OUT endpoint with a window of the ring's storage, the    *)
(* endpoint copies packets into it, the interrupt commits what arrived and *)
(* arms the next window, the main loop reads.                              *)
(*                                                                         *)
(* The ring is the one of module ElRing, which shows that a read may be    *)
(* one step.  The endpoint (external: STM32 HAL) counts whole packets: a   *)
(* window of n bytes is armed for as many packets as n needs, one at       *)
(* least, and every packet is copied in full.                              *)
(***************************************************************************)
EXTENDS RingIndex, Sequences

CONSTANTS
  MaxPacket,            \* XCH_OUT_MPS, the bytes of a full OUT packet
  MaxBytes,             \* bound: bytes ever sent by the host
  MaxResets             \* bound: bus resets, the first enumeration included

ASSUME UsbxchRxAssumption ==
  /\ MaxPacket \in Nat \ {0}
  /\ MaxBytes \in Nat /\ MaxResets \in Nat

Garbage == -1

VARIABLES
  head, tail, buffer,   \* el_usbxch_handle_t.rx and .rx_storage
  at, size,             \* the OUT endpoint: where its window starts, its bytes,
  packets, count,       \* packets left to accept, bytes accepted
  bus,                  \* device state as the host has set it
  resets,               \* bus resets so far
  sent,                 \* history: bytes of the completed transfers
  seen                  \* history: bytes el_usbxch_read has returned

endpoint == <<at, size, packets, count>>
vars     == <<head, tail, buffer, endpoint, bus, resets, sent, seen>>

Packets(n) == IF n = 0 THEN 1 ELSE (n + MaxPacket - 1) \div MaxPacket

(* USBD_XCH_GetRxStorage: the first span of a reservation of all the free  *)
(* room.                                                                   *)
Window(h, t) ==
  FirstSpan(IF h >= t THEN RoomToEnd(h, t) ELSE RoomToTail(h, t), Free(h, t))

(* USBD_LL_PrepareReceive with the window of these indices. *)
Arm(h, t) ==
  /\ at' = h /\ size' = Window(h, t)
  /\ packets' = Packets(Window(h, t)) /\ count' = 0

Init ==                 \* el_usbxch_init
  /\ head = 0 /\ tail = 0 /\ buffer = [s \in Slot |-> Garbage]
  /\ at = 0 /\ size = 0 /\ packets = 0 /\ count = 0
  /\ bus = "detached" /\ resets = 0
  /\ sent = 0 /\ seen = <<>>

-----------------------------------------------------------------------------
(* Host and USB interrupt. *)

(* A host that never sends more than the window takes.  It cannot know the *)
(* window: this is the condition under which the driver works.  One short  *)
(* packet is too much where the span up to the end of the storage is       *)
(* shorter.                                                                *)
Allowed(n) == count + n <= size

(* One packet of n bytes lands behind those already accepted.  A byte that *)
(* lands behind the storage is lost to the ring.                           *)
Packet(n) ==
  /\ bus = "configured"
  /\ packets > 0
  /\ sent + count + n <= MaxBytes
  /\ Allowed(n)
  /\ buffer' = [s \in Slot |-> IF at + count <= s /\ s < at + count + n
                               THEN sent + (s - at)
                               ELSE buffer[s]]
  /\ packets' = IF n < MaxPacket THEN 0 ELSE packets - 1
  /\ count' = count + n
  /\ UNCHANGED <<head, tail, at, size, bus, resets, sent, seen>>

(* Faulty variants: the whole window is committed; the next window is      *)
(* reserved before the commit.                                             *)
DataOutCommitsWindow ==
  /\ bus = "configured"
  /\ packets = 0
  /\ head' = Advance(head, size)
  /\ sent' = sent + count
  /\ Arm(head', tail)
  /\ UNCHANGED <<tail, buffer, bus, resets, seen>>

DataOutArmsFirst ==
  /\ bus = "configured"
  /\ packets = 0
  /\ head' = Advance(head, count)
  /\ sent' = sent + count
  /\ Arm(head, tail)
  /\ UNCHANGED <<tail, buffer, bus, resets, seen>>

(* USBD_XCH_DataOut: commit what arrived (USBD_XCH_RxComplete) and arm the *)
(* next window.                                                            *)
DataOut ==
  /\ bus = "configured"
  /\ packets = 0
  /\ head' = Advance(head, count)
  /\ sent' = sent + count
  /\ Arm(head', tail)
  /\ UNCHANGED <<tail, buffer, bus, resets, seen>>

(* A bus reset closes the endpoints: a transfer that is not complete is    *)
(* dropped, and the host will send it again.                               *)
BusReset ==
  /\ resets < MaxResets
  /\ resets' = resets + 1
  /\ bus' = "default"
  /\ at' = 0 /\ size' = 0 /\ packets' = 0 /\ count' = 0
  /\ UNCHANGED <<head, tail, buffer, sent, seen>>

(* Faulty variant: the ring is emptied. *)
SetConfigurationClears ==
  /\ bus = "default"
  /\ bus' = "configured"
  /\ head' = 0 /\ tail' = 0
  /\ Arm(0, 0)
  /\ UNCHANGED <<buffer, resets, sent, seen>>

(* SET_CONFIGURATION: USBD_XCH_Init opens the endpoints and arms a window. *)
SetConfiguration ==
  /\ bus = "default"
  /\ bus' = "configured"
  /\ Arm(head, tail)
  /\ UNCHANGED <<head, tail, buffer, resets, sent, seen>>

-----------------------------------------------------------------------------
(* Main loop: el_usbxch_read of at most length bytes.  el_usbxch_update    *)
(* does nothing for this direction.                                        *)
Read(length) ==
  /\ Size(head, tail) # 0
  /\ LET n == IF length < Size(head, tail) THEN length ELSE Size(head, tail) IN
       /\ seen' = seen \o [k \in 1..n |-> buffer[Advance(tail, k - 1)]]
       /\ tail' = Advance(tail, n)
  /\ UNCHANGED <<head, buffer, endpoint, bus, resets, sent>>

-----------------------------------------------------------------------------
Next ==
  \/ \E n \in 0..MaxPacket : Packet(n)
  \/ DataOut
  \/ BusReset
  \/ SetConfiguration
  \/ \E length \in {1, Capacity} : Read(length)

(* The super-loop reads for ever, a pending interrupt is taken, and a host *)
(* that has reset the bus configures it again.  Nothing makes it send.     *)
Fairness ==
  /\ WF_vars(\E length \in {1, Capacity} : Read(length))
  /\ WF_vars(DataOut)
  /\ WF_vars(SetConfiguration)

Spec == Init /\ [][Next]_vars
FairSpec == Spec /\ Fairness

-----------------------------------------------------------------------------
TypeOK ==
  /\ head \in Slot /\ tail \in Slot /\ buffer \in [Slot -> Int]
  /\ at \in Slot /\ size \in 0..Capacity - 1 /\ packets \in Nat /\ count \in Nat
  /\ bus \in {"detached", "default", "configured"} /\ resets \in Nat
  /\ sent \in Nat /\ seen \in Seq(Int)

(* el_usbxch_read "Reads received data" (el_usbxch.h:80): the bytes it     *)
(* returns are those of the host's completed transfers, in order, none     *)
(* lost, none twice, a transfer cut by a bus reset not delivered at all:   *)
(* the OUT endpoint and the reads are the two ends of one byte pipe.       *)
Stream == INSTANCE Pipe WITH
            Depth <- Capacity - 1, accepted <- sent, out <- seen
ImplementsPipe == Stream!PipeSpec

(* What the endpoint may still fill of its window is free, although tail   *)
(* has moved since the window was reserved, and starts where the next      *)
(* commit will publish it.                                                 *)
WindowIsFree ==
  bus = "configured" =>
    /\ at = head
    /\ at + size <= Capacity
    /\ size <= Free(head, tail)

(* What makes the two above inductive: the endpoint has not filled more    *)
(* than its window, what it has filled are the bytes the host sends next,  *)
(* and the unread part of the ring is the received, unread part of the     *)
(* stream.                                                                 *)
WindowKept ==
  /\ count <= size
  /\ bus # "configured" => count = 0

WindowFilled == \A k \in 0 .. count - 1 : buffer[at + k] = sent + k

taken == Len(seen)

RingHoldsStream ==
  /\ Size(head, tail) = sent - taken
  /\ \A k \in 0 .. Size(head, tail) - 1 : buffer[Advance(tail, k)] = taken + k

IInv ==
  /\ TypeOK
  /\ WindowIsFree /\ WindowKept /\ WindowFilled
  /\ RingHoldsStream

(* Every committed byte is read in the end, across bus resets too.         *)
ReceivedIsRead == \A n \in 1..MaxBytes : sent >= n ~> Len(seen) >= n
=============================================================================
