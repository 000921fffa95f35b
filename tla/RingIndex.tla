----------------------------- MODULE RingIndex -----------------------------
(***************************************************************************)
(* The index arithmetic of el_ring_t (ecolib/el/el_ring.h), the byte ring  *)
(* every firmware driver buffers its streams in.  An el_ring_t is used by  *)
(* one writer and one reader: only the writer stores head, only the reader *)
(* stores tail, and head = tail means "empty", so one slot is never used.  *)
(*                                                                         *)
(* The operators are pure: the modules that extend this one decide when    *)
(* each volatile index is read.  Indices are uint16_t; an intermediate     *)
(* result is an int and is cut to 16 bits when it is stored (U16).         *)
(***************************************************************************)
EXTENDS Integers

CONSTANT Capacity       \* el_ring_t.capacity, a uint16_t

ASSUME CapacityAssumption == Capacity \in Nat /\ 1 <= Capacity /\ Capacity <= 65535

Slot == 0 .. Capacity - 1

(* Conversion of an int to uint16_t. *)
U16(x) == x % 65536

(* el_ring_size and el_ring_free on one reading of each index. *)
Size(head, tail) ==
  IF head >= tail THEN head - tail ELSE Capacity - tail + head

(* Faulty variant: no slot is kept free. *)
FreeOfAll(head, tail) == Capacity - Size(head, tail)

Free(head, tail) == Capacity - Size(head, tail) - 1

(* Faulty variant: the wrap comes one slot late. *)
AdvanceLate(index, count) ==
  (index + count) - (IF index + count > Capacity THEN Capacity ELSE 0)

(* The commits move an index by a count and wrap it once. *)
Advance(index, count) ==
  (index + count) - (IF index + count >= Capacity THEN Capacity ELSE 0)

(* Room up to the end of the storage, as el_ring_write_reserve computes it *)
(* when head >= tail: one slot less when the reader stands at slot 0.      *)
RoomToEnd(head, tail) ==
  U16(Capacity - head - (IF tail = 0 THEN 1 ELSE 0))

(* Room below the reader, used when head < tail was seen. *)
RoomToTail(head, tail) == U16(tail - head - 1)

(* Faulty variant: the last slot is left out. *)
BytesToEndShort(tail) == U16(Capacity - tail - 1)

(* Bytes up to the end of the storage, and bytes up to the writer. *)
BytesToEnd(tail) == U16(Capacity - tail)
BytesToHead(head, tail) == U16(head - tail)

(* A reservation of count bytes of which cont are contiguous is split into *)
(* a first span at the index and a second span at slot 0.                  *)
FirstSpan(cont, count) == IF cont >= count THEN count ELSE cont

(* The slot of the k-th byte (from 0) of a reservation that starts at start *)
SlotOf(start, first, k) == IF k < first THEN start + k ELSE k - first
=============================================================================
