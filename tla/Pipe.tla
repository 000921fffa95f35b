-------------------------------- MODULE Pipe --------------------------------
(***************************************************************************)
(* What each direction of the USB link promises: a byte pipe that holds at *)
(* most Depth bytes.  What comes out is what went in, in order, each byte  *)
(* once and none before it was accepted, however the bytes are grouped     *)
(* into writes, transfers, packets and reads.                              *)
(*                                                                         *)
(* A byte is its position in the stream: the k-th byte out is k - 1.       *)
(***************************************************************************)
EXTENDS Integers, Sequences

CONSTANT Depth          \* the most bytes between the two ends

VARIABLES
  accepted,             \* bytes that went in
  out                   \* the bytes that came out

pipeVars == <<accepted, out>>

PipeInit == accepted = 0 /\ out = <<>>

Accept(n) ==
  /\ accepted + n - Len(out) <= Depth
  /\ accepted' = accepted + n
  /\ UNCHANGED out

Deliver(n) ==
  /\ Len(out) + n <= accepted
  /\ out' = out \o [k \in 1..n |-> Len(out) + k - 1]
  /\ UNCHANGED accepted

PipeNext == \E n \in 1..Depth : Accept(n) \/ Deliver(n)

PipeSpec == PipeInit /\ [][PipeNext]_pipeVars
=============================================================================
