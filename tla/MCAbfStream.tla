---------------------------- MODULE MCAbfStream ----------------------------
(***************************************************************************)
(* Small instances of AbfStream: bytes 0..3, so that a payload has at most *)
(* three bytes, the one without a zero makes its code wrap to 0 (as 255    *)
(* non-zero bytes do in the code), and every pattern of zeros of up to     *)
(* three bytes occurs.                                                     *)
(***************************************************************************)
EXTENDS AbfStream

MCByteMod == 4

(* A checksum in a byte; like the code's, 0 is replaced by the top value. *)
MCCrc8(s, n, c) ==
  LET sum == (s + 2 * n + c) % MCByteMod
  IN  IF sum = 0 THEN MCByteMod - 1 ELSE sum

MCPayloads == UNION { [1 .. n -> {0, 2}] : n \in 1 .. 3 }

(* No code wraps to 0, so that the only zero of a frame is its first byte. *)
MCFewPayloads == {<<2>>, <<0, 3>>, <<2, 0, 2>>}
=============================================================================
