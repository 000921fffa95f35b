-------------------------- MODULE RingIndex_proofs --------------------------
(***************************************************************************)
(* Facts about the index arithmetic of the byte ring, for every capacity   *)
(* up to 65535.                                                            *)
(***************************************************************************)
EXTENDS RingIndex, Sequences, TLAPS

USE CapacityAssumption DEF Slot

-----------------------------------------------------------------------------
(* One wrap is enough: moving an index by at most a whole ring stays in the *)
(* storage.                                                                 *)
LEMMA AdvanceInSlot ==
  ASSUME NEW i \in Slot, NEW n \in 0..Capacity
  PROVE  Advance(i, n) \in Slot
BY DEF Advance

LEMMA SizeRange ==
  ASSUME NEW h \in Slot, NEW t \in Slot
  PROVE  Size(h, t) \in 0 .. Capacity - 1 /\ Free(h, t) \in 0 .. Capacity - 1
BY DEF Size, Free

(* Committing n bytes that fit the free room makes the ring n bytes fuller. *)
LEMMA SizeAfterWrite ==
  ASSUME NEW h \in Slot, NEW t \in Slot, NEW n \in 0 .. Free(h, t)
  PROVE  Size(Advance(h, n), t) = Size(h, t) + n
BY DEF Advance, Size, Free

(* Releasing n bytes that are there makes it n bytes emptier. *)
LEMMA SizeAfterRead ==
  ASSUME NEW h \in Slot, NEW t \in Slot, NEW n \in 0 .. Size(h, t)
  PROVE  Size(h, Advance(t, n)) = Size(h, t) - n
BY DEF Advance, Size

(* Unread bytes and free room are different slots. *)
LEMMA FreeApartFromUnread ==
  ASSUME NEW h \in Slot, NEW t \in Slot,
         NEW k \in 0 .. Free(h, t) - 1, NEW j \in 0 .. Size(h, t) - 1
  PROVE  Advance(h, k) # Advance(t, j)
BY DEF Advance, Size, Free

(* Moving twice is moving once by the sum, within one turn of the ring. *)
LEMMA AdvanceAdd ==
  ASSUME NEW i \in Slot, NEW m \in 0..Capacity, NEW n \in 0..Capacity,
         m + n <= Capacity
  PROVE  Advance(Advance(i, m), n) = Advance(i, m + n)
BY DEF Advance

(* Different distances below a whole turn are different slots. *)
LEMMA AdvanceInjective ==
  ASSUME NEW i \in Slot, NEW m \in 0 .. Capacity - 1,
         NEW n \in 0 .. Capacity - 1, m # n
  PROVE  Advance(i, m) # Advance(i, n)
BY DEF Advance

(* The end of the unread bytes is the writer's index. *)
LEMMA UnreadEndsAtHead ==
  ASSUME NEW h \in Slot, NEW t \in Slot
  PROVE  Advance(t, Size(h, t)) = h
BY DEF Advance, Size

(* What most steps need of CapacityAssumption.  It has no large numeral,   *)
(* which Zenon would write in unary.                                       *)
LEMMA CapacityPositive == Capacity \in Nat /\ 1 <= Capacity
BY CapacityAssumption

(* Storing in 16 bits keeps what fits and wraps a negative difference. *)
LEMMA U16Range == ASSUME NEW x \in Int PROVE U16(x) \in Nat /\ U16(x) < 65536
BY DEF U16

LEMMA U16Fits == ASSUME NEW x \in Nat, x < 65536 PROVE U16(x) = x
BY DEF U16

LEMMA U16Wraps ==
  ASSUME NEW x \in Int, x < 0, x >= -65536 PROVE U16(x) = x + 65536
BY DEF U16

(* Appending the next m bytes of the stream. *)
LEMMA AppendStream ==
  ASSUME NEW s \in Seq(Int), NEW m \in Nat
  PROVE  /\ s \o [k \in 1..m |-> Len(s) + k - 1] \in Seq(Int)
         /\ Len(s \o [k \in 1..m |-> Len(s) + k - 1]) = Len(s) + m
<1> DEFINE new == [k \in 1..m |-> Len(s) + k - 1]
<1>1. Len(s) \in Int
  OBVIOUS
<1>2. new \in Seq(Int) /\ Len(new) = m
  BY <1>1
<1> HIDE DEF new
<1>3. s \o new \in Seq(Int) /\ Len(s \o new) = Len(s) + m
  BY <1>2
<1> QED
  BY <1>3 DEF new
=============================================================================
