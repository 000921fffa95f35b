------------------------------ MODULE UsbxchTx ------------------------------
(***************************************************************************)
(* The device-to-host path of ecolib/driver/stm32f4/el_usbxch.c: the main  *)
(* loop writes into a ring and starts a bulk IN transfer when none is      *)
(* running, the USB interrupt releases what was sent and chains the next   *)
(* transfer, the host polls the endpoint and may reset the bus.            *)
(*                                                                         *)
(* The ring is the one of module ElRing.  A write and a reservation are    *)
(* one step each here: ElRing shows that the interrupt moving tail between *)
(* the accesses of a write changes nothing, and a reservation is made by   *)
(* the main loop only while no transfer runs.  What is interleaved is the  *)
(* hand-over of a transfer from the main loop to the interrupt.            *)
(***************************************************************************)
EXTENDS RingIndex, Sequences

CONSTANTS
  MaxPacket,            \* XCH_IN_MPS, the bytes of one IN packet
  MaxBytes,             \* bound: bytes ever accepted by el_usbxch_write
  MaxResets,            \* bound: bus resets, the first enumeration included
  Prompt                \* may a transfer complete inside usbxch_start_tx?

ASSUME UsbxchTxAssumption ==
  /\ MaxPacket \in Nat \ {0}
  /\ MaxBytes \in Nat /\ MaxResets \in Nat
  /\ Prompt \in BOOLEAN

Garbage == -1
NoTransfer == -1        \* left while the IN endpoint owns no transfer

VARIABLES
  head, tail, buffer,   \* el_usbxch_handle_t.tx and .tx_storage
  busy,                 \* USBXCH_FLAG_TX_BUSY
  release,              \* tx_to_release
  pc, span,             \* main loop: place in usbxch_start_tx, its c1
  at, left,             \* transfer owned by the IN endpoint: slot, bytes left
  bus,                  \* device state as the host has set it
  resets,               \* bus resets so far
  written, wire         \* history: bytes accepted, bytes the host received

ringVars == <<head, tail, buffer>>
flight   == <<at, left>>
usbVars  == <<flight, bus, resets>>
vars     == <<head, tail, buffer, busy, release, pc, span, flight, bus,
              resets, written, wire>>

Init ==                 \* el_usbxch_init
  /\ head = 0 /\ tail = 0 /\ buffer = [s \in Slot |-> Garbage]
  /\ busy = FALSE /\ release = 0
  /\ pc = "idle" /\ span = 0
  /\ at = 0 /\ left = NoTransfer /\ bus = "detached" /\ resets = 0
  /\ written = 0 /\ wire = <<>>

(* First span of el_ring_read_reserve. *)
ReadSpan(h, t) ==
  FirstSpan(IF t >= h THEN BytesToEnd(t) ELSE BytesToHead(h, t), Size(h, t))

-----------------------------------------------------------------------------
(* Main loop. *)

(* el_usbxch_write: all of the bytes, or none of them and nothing changes. *)
(* The device only writes in answer to a frame of the host, so the bus is  *)
(* configured.                                                             *)
Write(n) ==
  /\ pc = "idle"
  /\ bus = "configured"
  /\ n <= Free(head, tail)
  /\ written + n <= MaxBytes
  /\ LET new == { Advance(head, k) : k \in 0 .. n - 1 } IN
       buffer' = [s \in Slot |->
                    IF s \in new
                    THEN written + (CHOOSE k \in 0 .. n - 1 : Advance(head, k) = s)
                    ELSE buffer[s]]
  /\ head' = Advance(head, n)
  /\ written' = written + n
  /\ UNCHANGED <<tail, busy, release, pc, span, usbVars, wire>>

(* el_usbxch_update and el_usbxch_flush: both look at the flag, reserve    *)
(* the first span and give it to the endpoint.  With the flag set, or with *)
(* nothing to send, they change nothing.                                   *)
StartTx ==
  /\ pc = "idle"
  /\ ~busy
  /\ Size(head, tail) # 0
  /\ span' = ReadSpan(head, tail)
  /\ at' = tail /\ left' = ReadSpan(head, tail)
  /\ pc' = "release"
  /\ UNCHANGED <<ringVars, busy, release, bus, resets, written, wire>>

(* usbxch_start_tx after USBD_XCH_Transmit has returned. *)
SetRelease ==
  /\ pc = "release"
  /\ release' = span
  /\ pc' = "flag"
  /\ UNCHANGED <<ringVars, busy, span, usbVars, written, wire>>

SetBusy ==
  /\ pc = "flag"
  /\ busy' = TRUE
  /\ pc' = "idle"
  /\ UNCHANGED <<ringVars, release, span, usbVars, written, wire>>

-----------------------------------------------------------------------------
(* Host and USB interrupt. *)

(* The host takes one packet of the transfer out of the ring's storage. *)
HostPoll ==
  /\ bus = "configured"
  /\ left > 0
  /\ LET n == IF left < MaxPacket THEN left ELSE MaxPacket IN
       /\ wire' = wire \o [k \in 1..n |-> buffer[at + k - 1]]
       /\ at' = at + n /\ left' = left - n
  /\ UNCHANGED <<ringVars, busy, release, pc, span, bus, resets, written>>

(* Faulty variants: the busy flag survives the last transfer; a chained    *)
(* transfer leaves the bytes to release as they were.                      *)
TxCompleteStaysBusy ==
  /\ left = 0
  /\ Prompt \/ pc = "idle"
  /\ LET t == Advance(tail, release)
         c == ReadSpan(head, t) IN
       /\ tail' = t
       /\ IF Size(head, t) = 0
          THEN left' = NoTransfer /\ UNCHANGED <<at, release>>
          ELSE at' = t /\ left' = c /\ release' = c
  /\ UNCHANGED <<head, buffer, busy, pc, span, bus, resets, written, wire>>

TxCompleteKeepsRelease ==
  /\ left = 0
  /\ Prompt \/ pc = "idle"
  /\ LET t == Advance(tail, release) IN
       /\ tail' = t
       /\ IF Size(head, t) = 0
          THEN busy' = FALSE /\ left' = NoTransfer /\ UNCHANGED at
          ELSE at' = t /\ left' = ReadSpan(head, t) /\ UNCHANGED busy
  /\ UNCHANGED <<head, buffer, release, pc, span, bus, resets, written,
                 wire>>

(* USBD_XCH_DataIn -> USBD_XCH_TxComplete. *)
TxComplete ==
  /\ left = 0
  /\ Prompt \/ pc = "idle"
  /\ LET t == Advance(tail, release)
         c == ReadSpan(head, t) IN
       /\ tail' = t
       /\ IF Size(head, t) = 0
          THEN /\ busy' = FALSE
               /\ left' = NoTransfer
               /\ UNCHANGED <<at, release>>
          ELSE /\ at' = t /\ left' = c
               /\ release' = c
               /\ UNCHANGED busy
  /\ UNCHANGED <<head, buffer, pc, span, bus, resets, written, wire>>

(* A bus reset makes the stack close the endpoints (USBD_XCH_DeInit): the  *)
(* transfer is dropped and never completes.  The driver's handle is left   *)
(* as it is.                                                               *)
BusReset ==
  /\ resets < MaxResets
  /\ resets' = resets + 1
  /\ bus' = "default"
  /\ left' = NoTransfer
  /\ UNCHANGED <<ringVars, busy, release, pc, span, at, written, wire>>

(* SET_CONFIGURATION opens the endpoints (USBD_XCH_Init); nothing is       *)
(* started on the IN endpoint.                                             *)
SetConfiguration ==
  /\ bus = "default"
  /\ bus' = "configured"
  /\ UNCHANGED <<ringVars, busy, release, pc, span, flight, resets, written,
                 wire>>

-----------------------------------------------------------------------------
MainLoop == StartTx \/ SetRelease \/ SetBusy

Next ==
  \/ \E n \in 1..Capacity : Write(n)
  \/ StartTx
  \/ SetRelease
  \/ SetBusy
  \/ HostPoll
  \/ TxComplete
  \/ BusReset
  \/ SetConfiguration

(* The super-loop calls el_usbxch_update for ever, the host keeps polling  *)
(* (EcoTool's ioLoop), a pending interrupt is taken, and a host that has   *)
(* reset the bus configures it again.                                      *)
Fairness ==
  /\ WF_vars(MainLoop)
  /\ WF_vars(HostPoll)
  /\ WF_vars(TxComplete)
  /\ WF_vars(SetConfiguration)

Spec == Init /\ [][Next]_vars
FairSpec == Spec /\ Fairness

-----------------------------------------------------------------------------
TypeOK ==
  /\ head \in Slot /\ tail \in Slot /\ buffer \in [Slot -> Int]
  /\ busy \in BOOLEAN /\ release \in 0..Capacity
  /\ pc \in {"idle", "release", "flag"} /\ span \in 0..Capacity
  /\ at \in 0..Capacity /\ left \in -1..Capacity
  /\ bus \in {"detached", "default", "configured"} /\ resets \in Nat
  /\ written \in Nat /\ wire \in Seq(Int)

(* The host receives the bytes in the order they were written, none lost,  *)
(* none twice, none before it was written, and never more than Capacity -  *)
(* 1 are on their way: el_usbxch_write and the IN endpoint are the two     *)
(* ends of one byte pipe.                                                  *)
Stream == INSTANCE Pipe WITH
            Depth <- Capacity - 1, accepted <- written, out <- wire
ImplementsPipe == Stream!PipeSpec

(* The storage the IN endpoint is still going to read holds exactly the    *)
(* bytes that come next: el_usbxch_write never overwrites them and a       *)
(* chained transfer starts where the last one ended.                       *)
InFlightIntact ==
  \A k \in 0 .. left - 1 : buffer[at + k] = Len(wire) + k

(* When the main loop is outside usbxch_start_tx, the busy flag says       *)
(* whether the endpoint owns a transfer.  Set with no transfer, nothing    *)
(* would ever clear it; clear with one, a second would be started on top.  *)
BusyTracksTransfer == pc = "idle" => (busy <=> left # NoTransfer)

(* What makes the three above inductive.  The running transfer is the      *)
(* unread bytes that come first; its length is where the main loop or the  *)
(* interrupt keeps it, and gone bytes of it have left already.             *)
length  == IF pc = "release" THEN span ELSE release
gone    == IF left = NoTransfer THEN 0 ELSE length - left
arrived == Len(wire)

TransferKept ==
  left # NoTransfer =>
    /\ left <= length /\ length <= Size(head, tail)
    /\ tail + length <= Capacity
    /\ at = tail + gone

RingHoldsStream ==
  /\ arrived - gone + Size(head, tail) = written
  /\ \A k \in 0 .. Size(head, tail) - 1 :
       buffer[Advance(tail, k)] = arrived - gone + k

HandedOver ==
  /\ pc # "idle" => ~busy /\ left # NoTransfer
  /\ pc = "flag" => release = span

(* Nothing is written before the host has configured the device, which a   *)
(* first and only bus reset precedes.                                      *)
QuietUntilConfigured ==
  /\ bus # "configured" => written = 0 /\ left = NoTransfer /\ pc = "idle"
  /\ resets = 0 => bus = "detached"

IInv ==
  /\ TypeOK
  /\ BusyTracksTransfer /\ HandedOver
  /\ TransferKept /\ RingHoldsStream
  /\ QuietUntilConfigured

(* Every byte accepted reaches the host: el_usbxch_update "Starts pending  *)
(* IN transfers if the bus is idle" (el_usbxch.h:104).                     *)
PendingIsSent == \A n \in 1..MaxBytes : written >= n ~> Len(wire) >= n
=============================================================================
