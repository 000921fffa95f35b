------------------------------- MODULE ElRing -------------------------------
(***************************************************************************)
(* One el_ring_t (ecolib/el/el_ring.h) shared by a writer and a reader     *)
(* that preempt each other at any volatile access: the main loop and the   *)
(* USB interrupt of ecolib/driver/stm32f4/el_usbxch.c.                     *)
(*                                                                         *)
(* Each action ends at the next read of the index the OTHER side stores    *)
(* (head and tail are volatile and are read again and again during one     *)
(* reservation), or at the copy of one byte.  A side's own index cannot    *)
(* change under it, so reading it is never a step of its own.              *)
(*                                                                         *)
(* A byte is represented by its position in the stream, so that a wrong,   *)
(* stale, repeated or missing byte is told apart from the right one.       *)
(***************************************************************************)
EXTENDS RingIndex, Sequences

CONSTANT MaxBytes       \* bound: bytes the writer ever reserves

ASSUME MaxBytesAssumption == MaxBytes \in Nat

Garbage == -1           \* contents of a slot that was never written

VARIABLES
  head, tail,           \* el_ring_t.head and .tail
  buffer,               \* el_ring_t.buffer
  wpc,                  \* where the writer stands
  want,                 \* count given to el_ring_write_reserve
  wcont,                \* its cont_space
  copied,               \* bytes of the reservation filled so far
  rpc,                  \* where the reader stands
  avail,                \* count in el_ring_read_reserve
  rcont,                \* its cont_space
  limit,                \* bytes the caller takes of what was reserved
  got,                  \* bytes the reader has copied out so far
  written, taken, chunk \* history: the abstract stream (module Fifo)

index    == <<head, tail>>
writer   == <<wpc, want, wcont, copied>>
reader   == <<rpc, avail, rcont, limit, got>>
history  == <<written, taken, chunk>>
vars     == <<head, tail, buffer, wpc, want, wcont, copied,
              rpc, avail, rcont, limit, got, written, taken, chunk>>

Init ==                 \* el_ring_init
  /\ head = 0 /\ tail = 0
  /\ buffer = [s \in Slot |-> Garbage]
  /\ wpc = "idle" /\ want = 0 /\ wcont = 0 /\ copied = 0
  /\ rpc = "idle" /\ avail = 0 /\ rcont = 0 /\ limit = 0 /\ got = <<>>
  /\ written = 0 /\ taken = 0 /\ chunk = <<>>

-----------------------------------------------------------------------------
(* Writer: el_ring_write_reserve, copy, el_ring_write_commit. *)

(* Faulty variant: no room is asked for. *)
WriteReserveBlindly(n) ==
  /\ wpc = "idle"
  /\ written + n <= MaxBytes
  /\ want' = n
  /\ wpc' = "compare"
  /\ UNCHANGED <<index, buffer, wcont, copied, reader, history>>

(* First reading of tail: is there room?  If not the call returns false    *)
(* and has changed nothing.                                                *)
WriteReserve(n) ==
  /\ wpc = "idle"
  /\ written + n <= MaxBytes
  /\ n <= Free(head, tail)
  /\ want' = n
  /\ wpc' = "compare"
  /\ UNCHANGED <<index, buffer, wcont, copied, reader, history>>

(* Second reading: which side of the writer is the reader on? *)
WriteCompare ==
  /\ wpc = "compare"
  /\ wpc' = IF head >= tail THEN "toEnd" ELSE "toTail"
  /\ UNCHANGED <<index, buffer, want, wcont, copied, reader, history>>

(* Third reading: the contiguous room. *)
WriteRoom ==
  /\ \/ wpc = "toEnd"  /\ wcont' = RoomToEnd(head, tail)
     \/ wpc = "toTail" /\ wcont' = RoomToTail(head, tail)
  /\ copied' = 0
  /\ wpc' = "copy"
  /\ UNCHANGED <<index, buffer, want, reader, history>>

WriteSlot(k) == SlotOf(head, FirstSpan(wcont, want), k)

(* One byte of the caller's copy into the two reserved spans. *)
WriteByte ==
  /\ wpc = "copy"
  /\ copied < want
  /\ buffer' = [buffer EXCEPT ![WriteSlot(copied)] = written + copied]
  /\ copied' = copied + 1
  /\ UNCHANGED <<index, wpc, want, wcont, reader, history>>

(* Faulty variant: commits what was reserved, filled or not. *)
WriteCommitReserved ==
  /\ wpc = "copy"
  /\ head' = Advance(head, want)
  /\ written' = written + want
  /\ wpc' = "idle"
  /\ UNCHANGED <<tail, buffer, want, wcont, copied, reader, taken, chunk>>

(* el_usbxch_write commits all it reserved; the USB receive path commits   *)
(* the bytes that arrived, at most what was reserved.                      *)
WriteCommit ==
  /\ wpc = "copy"
  /\ head' = Advance(head, copied)
  /\ written' = written + copied
  /\ wpc' = "idle"
  /\ UNCHANGED <<tail, buffer, want, wcont, copied, reader, taken, chunk>>

-----------------------------------------------------------------------------
(* Reader: el_ring_read_reserve, copy, el_ring_read_commit. *)

(* First reading of head: an empty ring makes the call return false. *)
ReadReserve ==
  /\ rpc = "idle"
  /\ Size(head, tail) # 0
  /\ rpc' = "count"
  /\ UNCHANGED <<index, buffer, writer, avail, rcont, limit, got, history>>

(* Second reading: the number of bytes reserved. *)
ReadCount ==
  /\ rpc = "count"
  /\ avail' = Size(head, tail)
  /\ rpc' = "compare"
  /\ UNCHANGED <<index, buffer, writer, rcont, limit, got, history>>

(* Third reading, and, below the writer, a fourth one. *)
ReadCompare ==
  /\ rpc = "compare"
  /\ IF tail >= head
     THEN rcont' = BytesToEnd(tail) /\ rpc' = "take"
     ELSE rpc' = "toHead" /\ UNCHANGED rcont
  /\ UNCHANGED <<index, buffer, writer, avail, limit, got, history>>

ReadToHead ==
  /\ rpc = "toHead"
  /\ rcont' = BytesToHead(head, tail)
  /\ rpc' = "take"
  /\ UNCHANGED <<index, buffer, writer, avail, limit, got, history>>

(* The caller takes n bytes of the two spans: el_usbxch_read the length it *)
(* was asked for, the transmit path the first span.                        *)
ReadTake(n) ==
  /\ rpc = "take"
  /\ n <= avail
  /\ limit' = n
  /\ got' = <<>>
  /\ rpc' = "copy"
  /\ UNCHANGED <<index, buffer, writer, avail, rcont, history>>

ReadSlot(k) == SlotOf(tail, FirstSpan(rcont, avail), k)

ReadByte ==
  /\ rpc = "copy"
  /\ Len(got) < limit
  /\ got' = Append(got, buffer[ReadSlot(Len(got))])
  /\ UNCHANGED <<index, buffer, writer, rpc, avail, rcont, limit, history>>

ReadCommit ==
  /\ rpc = "copy"
  /\ Len(got) = limit
  /\ tail' = Advance(tail, limit)
  /\ taken' = taken + limit
  /\ chunk' = got
  /\ rpc' = "idle"
  /\ UNCHANGED <<head, buffer, writer, avail, rcont, limit, got, written>>

-----------------------------------------------------------------------------
Write ==
  \/ \E n \in 0 .. Capacity : WriteReserve(n)
  \/ WriteCompare
  \/ WriteRoom
  \/ WriteByte
  \/ WriteCommit

Read ==
  \/ ReadReserve
  \/ ReadCount
  \/ ReadCompare
  \/ ReadToHead
  \/ \E n \in 0 .. Capacity : ReadTake(n)
  \/ ReadByte
  \/ ReadCommit

Next == Write \/ Read

Spec == Init /\ [][Next]_vars

-----------------------------------------------------------------------------
(* Types of the program's variables and of the history. *)
TypeOK ==
  /\ head \in Slot /\ tail \in Slot
  /\ buffer \in [Slot -> Int]
  /\ wpc \in {"idle", "compare", "toEnd", "toTail", "copy"}
  /\ want \in 0..Capacity /\ copied \in 0..Capacity
  /\ wcont \in Nat /\ wcont < 65536
  /\ rpc \in {"idle", "count", "compare", "toHead", "take", "copy"}
  /\ avail \in 0..Capacity /\ limit \in 0..Capacity
  /\ rcont \in Nat /\ rcont < 65536
  /\ got \in Seq(Int)
  /\ written \in Nat /\ taken \in Nat /\ chunk \in Seq(Int)

(* Every byte the reader has copied in the read it is in the middle of is  *)
(* the right byte of the stream, whatever the writer did between the       *)
(* several readings of head (el_ring_read_reserve, el_usbxch_read).        *)
ReadsInOrder ==
  rpc = "copy" => \A k \in 1..Len(got) : got[k] = taken + k - 1

(* A slot the writer may still fill under its reservation never holds a    *)
(* committed byte the reader has not released: the stale readings of tail  *)
(* in el_ring_write_reserve never let the copy reach unread data, and the  *)
(* copy never leaves the storage.                                          *)
ReservedSlotsAreFree ==
  wpc = "copy" =>
    \A k \in copied .. want - 1 :
      /\ WriteSlot(k) \in Slot
      /\ \A j \in 0 .. Size(head, tail) - 1 : WriteSlot(k) # Advance(tail, j)

(* The unread part of the ring is exactly the committed, unreleased part   *)
(* of the stream: a full ring is never mistaken for an empty one (one slot *)
(* is kept free) and every index wrap keeps the order.                     *)
RingHoldsStream ==
  /\ Size(head, tail) = written - taken
  /\ \A k \in 0 .. written - taken - 1 :
       buffer[Advance(tail, k)] = taken + k

(* The inductive invariant behind the three facts above and the refinement: *)
(* what each reading of the other side's index still implies after that     *)
(* index has moved on.  The reader only frees room and the writer only adds *)
(* bytes, so a count once found possible stays possible; and an index seen  *)
(* on one side of the other can only leave that side by wrapping.           *)
WantFits == wpc # "idle" => want <= Free(head, tail)

SideKept ==
  /\ wpc = "toEnd" => tail <= head
  /\ wpc = "toTail" => head + want < Capacity

WriteSpansFit ==
  wpc = "copy" => IF wcont >= want THEN head + want <= Capacity
                                   ELSE wcont = Capacity - head

Filled ==
  wpc = "copy" => /\ copied <= want
                  /\ \A k \in 0 .. copied - 1 :
                       buffer[Advance(head, k)] = written + k

AvailStays ==
  /\ rpc # "idle" => Size(head, tail) # 0
  /\ rpc \in {"compare", "toHead", "take", "copy"} => avail <= Size(head, tail)

BelowKept == rpc = "toHead" => tail + avail < Capacity

ReadSpansFit ==
  rpc \in {"take", "copy"} => IF rcont >= avail THEN tail + avail <= Capacity
                                               ELSE rcont = Capacity - tail

TakesReserved == rpc = "copy" => limit <= avail /\ Len(got) <= limit

IInv ==
  /\ TypeOK
  /\ RingHoldsStream
  /\ WantFits /\ SideKept /\ WriteSpansFit /\ Filled
  /\ AvailStays /\ BelowKept /\ ReadSpansFit /\ TakesReserved
  /\ ReadsInOrder

Stream == INSTANCE Fifo WITH Depth <- Capacity - 1

(* The ring implements a bounded first-in first-out byte stream of         *)
(* Capacity - 1 bytes: a commit of the writer puts bytes, a commit of the  *)
(* reader hands over the oldest ones.                                      *)
ImplementsFifo == Stream!FifoSpec
=============================================================================
