----------------------------- MODULE Mc3pCalib -----------------------------
(***************************************************************************)
(* The offset calibration of the three-phase driver                        *)
(* (ecolib/driver/stm32f4/el_mc3p.c).  el_mc3p_init, in the main thread,   *)
(* holds the bridge low, selects four channels for the injected sequence,  *)
(* and waits in a loop for the end-of-sequence interrupt to sum up a       *)
(* number of samples: first of the three currents, then of the three phase *)
(* voltages.  The interrupt comes once a PWM period from the moment it is  *)
(* enabled, between any two volatile accesses of the main thread.          *)
(*                                                                         *)
(* The motor controller sets offset_calibration before it calls            *)
(* el_mc3p_init, so this happens at every start.                           *)
(*                                                                         *)
(* pwmLoop, which the same interrupt calls, is left out: in None, the mode *)
(* during initialisation, it returns.  The converter is external: a        *)
(* conversion is started again when its sequence is written (RM0090), so   *)
(* that its four results belong to the sequence as it is at its end.       *)
(***************************************************************************)
EXTENDS Integers

CONSTANTS
  Samples,              \* EL_MC3P_OFFSET_CALIBRATION_SAMPLES
  Readings,             \* what each channel may read while the bridge is low
  Stray,                \* what any channel may read otherwise
  SumMod, CountMod      \* values of the 16-bit sums and of the counter

Channels == {"VSBUS", "CSU", "CSV", "CSW", "VSU", "VSV", "VSW"}

ASSUME Mc3pCalibAssumption ==
  /\ Samples \in Nat \ {0} /\ Samples < CountMod
  /\ Readings \in [Channels -> SUBSET Nat]
  /\ \A c \in Channels : Readings[c] # {}
  /\ Stray \in Nat /\ SumMod \in Nat \ {0} /\ CountMod \in Nat

Ranks  == 1..4
Sequences == <<<<"VSBUS", "CSU", "CSV", "CSW">>,
               <<"VSBUS", "VSU", "VSV", "VSW">>>>

VARIABLES
  mode,                 \* mode of the handle: NONE or CALIB
  bridge,               \* the phases: float or low
  ranks,                \* channel of each rank of the injected sequence
  sum, remaining,       \* offset_calibration_sum, _remaining_samples
  mean,                 \* the averaged value of each calibrated channel
  at, stage, rank       \* where the main thread stands

calibVars == <<mode, bridge, ranks, sum, remaining, mean, at, stage, rank>>

(* el_mc3p_init with the interrupt enabled; the sequence has its reset     *)
(* value, channel 0, which is none of the seven.                           *)
CalibInit ==
  /\ mode = "NONE" /\ bridge = "float"
  /\ ranks = [k \in Ranks |-> "none"]
  /\ sum = [k \in Ranks |-> 0] /\ remaining = 0
  /\ mean = [c \in {} |-> 0]
  /\ at = "start" /\ stage = 1 /\ rank = 1

-----------------------------------------------------------------------------
(* Main thread: mc3p_offset_calibration. *)

SetMode ==
  /\ at = "start"
  /\ mode' = "CALIB" /\ at' = "bridge"
  /\ UNCHANGED <<bridge, ranks, sum, remaining, mean, stage, rank>>

SetBridgeLow ==
  /\ at = "bridge"
  /\ bridge' = "low" /\ at' = "ranks"
  /\ UNCHANGED <<mode, ranks, sum, remaining, mean, stage, rank>>

(* One LL_ADC_INJ_SetSequencerRanks after the other. *)
SetRank ==
  /\ at = "ranks"
  /\ ranks' = [ranks EXCEPT ![rank] = Sequences[stage][rank]]
  /\ IF rank < 4 THEN rank' = rank + 1 /\ at' = at
                 ELSE rank' = 1 /\ at' = "clear"
  /\ UNCHANGED <<mode, bridge, sum, remaining, mean, stage>>

(* Faulty variant: the sums of the first stage are kept for the second. *)
ClearSumOnce ==
  /\ at = "clear"
  /\ sum' = IF stage = 1 THEN [sum EXCEPT ![rank] = 0] ELSE sum
  /\ IF rank < 4 THEN rank' = rank + 1 /\ at' = at
                 ELSE rank' = 1 /\ at' = "count"
  /\ UNCHANGED <<mode, bridge, ranks, remaining, mean, stage>>

ClearSum ==
  /\ at = "clear"
  /\ sum' = [sum EXCEPT ![rank] = 0]
  /\ IF rank < 4 THEN rank' = rank + 1 /\ at' = at
                 ELSE rank' = 1 /\ at' = "count"
  /\ UNCHANGED <<mode, bridge, ranks, remaining, mean, stage>>

StartSamples ==
  /\ at = "count"
  /\ remaining' = Samples /\ at' = "wait"
  /\ UNCHANGED <<mode, bridge, ranks, sum, mean, stage, rank>>

(* while(h->offset_calibration_remaining_samples); and the averages, which *)
(* are scaled and assigned for ranks 2 to 4.                               *)
Average ==
  /\ at = "wait" /\ remaining = 0
  /\ sum' = [k \in Ranks |-> sum[k] \div Samples]
  /\ LET new == { Sequences[stage][k] : k \in 2..4 } IN
       mean' = [c \in DOMAIN mean \union new |->
                  IF c \in new
                  THEN sum'[CHOOSE k \in 2..4 : Sequences[stage][k] = c]
                  ELSE mean[c]]
  /\ IF stage = 1 THEN stage' = 2 /\ at' = "ranks"
                  ELSE stage' = 2 /\ at' = "mode"
  /\ UNCHANGED <<mode, bridge, ranks, remaining, rank>>

(* The phases to High-Z, once more by el_mc3p_init. *)
LeaveMode ==
  /\ at = "mode"
  /\ mode' = "NONE" /\ at' = "float"
  /\ UNCHANGED <<bridge, ranks, sum, remaining, mean, stage, rank>>

WriteFloat ==
  /\ at = "float"
  /\ bridge' = "float" /\ at' = "done"
  /\ UNCHANGED <<mode, ranks, sum, remaining, mean, stage, rank>>

-----------------------------------------------------------------------------
(* End-of-sequence interrupt: INTERNAL_mc3p_ADC_JEOS_IRQ. *)

(* The converter's results for the sequence. *)
Results ==
  IF bridge = "low" /\ \A k \in Ranks : ranks[k] # "none"
  THEN { r \in [Ranks -> UNION { Readings[ranks[k]] : k \in Ranks }] :
           \A k \in Ranks : r[k] \in Readings[ranks[k]] }
  ELSE {[k \in Ranks |-> Stray]}

(* Faulty variant: the last sample is left to another sequence. *)
EndOfSequenceShort ==
  /\ mode = "CALIB" /\ remaining > 1
  /\ \E r \in Results : sum' = [k \in Ranks |-> (sum[k] + r[k]) % SumMod]
  /\ remaining' = (remaining - 1) % CountMod
  /\ UNCHANGED <<mode, bridge, ranks, mean, at, stage, rank>>

EndOfSequence ==
  /\ mode = "CALIB" /\ remaining # 0
  /\ \E r \in Results : sum' = [k \in Ranks |-> (sum[k] + r[k]) % SumMod]
  /\ remaining' = (remaining - 1) % CountMod
  /\ UNCHANGED <<mode, bridge, ranks, mean, at, stage, rank>>

Main == \/ SetMode \/ SetBridgeLow \/ SetRank \/ ClearSum \/ StartSamples
        \/ Average \/ LeaveMode \/ WriteFloat

CalibNext == Main \/ EndOfSequence

CalibSpec == CalibInit /\ [][CalibNext]_calibVars

(* The PWM timer triggers the converter for ever, and between two of its   *)
(* interrupts the main thread runs; but not fast enough to be sure to look *)
(* at the counter between any two of them.                                 *)
CalibFairSpec ==
  CalibSpec /\ WF_calibVars(Main) /\ WF_calibVars(EndOfSequence)

-----------------------------------------------------------------------------
(* What Samples readings of the channel come to: their sum, cut to the     *)
(* width of offset_calibration_sum, divided by their number.               *)
TotalsOf(c) ==
  UNION { UNION { Samples * low .. Samples * high : high \in Readings[c] } :
            low \in Readings[c] }

AveragesOf(c) == { (total % SumMod) \div Samples : total \in TotalsOf(c) }

(* "the reading is your offset" (el_mc3p.c:788): the offset of each of the *)
(* six channels comes from what that channel reads while the bridge is     *)
(* low.  Every sample in its sum is of the channel itself, none is of the  *)
(* floating bridge, and there are neither more nor fewer of them than the  *)
(* divisor says, wherever the interrupt comes.  It is their average when   *)
(* the sum fits 16 bits, and what is left of it when the sum wraps around. *)
OffsetsAreMeans ==
  \A c \in DOMAIN mean : mean[c] \in AveragesOf(c)

(* Initialisation comes to its end: the main thread sees the counter at 0  *)
(* although the interrupt goes on, in both stages, and all six channels    *)
(* have their offset when the bridge is released.                          *)
CalibrationEnds ==
  <>[](/\ at = "done" /\ bridge = "float" /\ mode = "NONE"
       /\ DOMAIN mean = Channels \ {"VSBUS"})
=============================================================================
