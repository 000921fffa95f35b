-------------------------------- MODULE Fifo --------------------------------
(***************************************************************************)
(* What a ring of Depth bytes promises: a bounded first-in first-out byte  *)
(* stream between one writer and one reader.                               *)
(*                                                                         *)
(* A byte is identified by its position in the stream (0, 1, 2, ...), so   *)
(* "the reader is handed positions taken, taken + 1, ..." says that no     *)
(* byte is lost, repeated, reordered or handed over before it was written. *)
(***************************************************************************)
EXTENDS Integers

CONSTANT Depth          \* the most bytes the stream may hold at once

VARIABLES
  written,              \* bytes the writer has committed
  taken,                \* bytes the reader has released
  chunk                 \* the bytes handed to the reader by its last read

fifoVars == <<written, taken, chunk>>

Positions(first, n) == [k \in 1..n |-> first + k - 1]

FifoInit ==
  /\ written = 0
  /\ taken = 0
  /\ chunk = <<>>

Put(n) ==
  /\ written + n - taken <= Depth
  /\ written' = written + n
  /\ UNCHANGED <<taken, chunk>>

Take(n) ==
  /\ n <= written - taken
  /\ taken' = taken + n
  /\ chunk' = Positions(taken, n)
  /\ UNCHANGED written

FifoNext == \E n \in 0..Depth : Put(n) \/ Take(n)

FifoSpec == FifoInit /\ [][FifoNext]_fifoVars
=============================================================================
