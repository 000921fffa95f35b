---------------------------- MODULE MCMc3pCalib ----------------------------
(* A small instance of Mc3pCalib. *)
EXTENDS Mc3pCalib

(* The sums of CSW and VSW may not fit SumMod, and wrap around.  The sum   *)
(* of the other stage, or one stray reading, would move any average out of *)
(* what its channel's readings come to.                                    *)
MCReadings == [c \in Channels |-> CASE c = "CSU" -> {4, 5}
                                    [] c = "CSV" -> {5, 6}
                                    [] c = "CSW" -> {7}
                                    [] c = "VSU" -> {0, 1}
                                    [] c = "VSV" -> {1}
                                    [] c = "VSW" -> {6, 7}
                                    [] OTHER     -> {9}]
=============================================================================
