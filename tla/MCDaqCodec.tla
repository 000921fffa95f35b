----------------------------- MODULE MCDaqCodec -----------------------------
(***************************************************************************)
(* A small instance of DaqCodec, for Channels channels and for one.  With  *)
(* two or more the reserve that pushSample keeps always has room for the   *)
(* mark of flush; with one channel the mark may find the stream too full.  *)
(*                                                                         *)
(* The samples have residuals of every length, negative ones and ones that *)
(* wrap around 16 bits, but none of those the two ends do not agree on,    *)
(* which are -128 .. -120 and 120 .. 127.                                  *)
(***************************************************************************)
EXTENDS DaqCodec

MCSamples == {<<0, 0>>, <<50, -32768>>}
MCSingleSamples == {<<0>>, <<20000>>}

VARIABLE single         \* the codec has one channel only

Single == INSTANCE DaqCodec WITH Channels <- 1, Samples <- MCSingleSamples

MCInit == \/ single = FALSE /\ CodecInit
          \/ single = TRUE /\ Single!CodecInit

MCNext == /\ UNCHANGED single
          /\ IF single THEN Single!CodecNext ELSE CodecNext

\* The fairness speaks of no channel: it is the same for both.
MCSpec == MCInit /\ [][MCNext]_<<single, codecVars>> /\ CodecFairness
=============================================================================
