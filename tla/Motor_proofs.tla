---------------------------- MODULE Motor_proofs ----------------------------
(***************************************************************************)
(* Proofs about the two parts of the motor controller that share the ADC   *)
(* interrupt with the rest of the firmware: the offset calibration of the  *)
(* three-phase driver, during initialisation, and the self-commissioning.  *)
(*                                                                         *)
(* The calibration is proved for every number of samples, every set of     *)
(* readings of each channel and every stray reading, whether the sums fit  *)
(* 16 bits or wrap around.  The self-commissioning is proved for every     *)
(* settling time, every number of samples and any number of entries, where *)
(* the two loops do not preempt each other.                                *)
(***************************************************************************)
EXTENDS Mc3pCalib, SComm, TLAPS

-----------------------------------------------------------------------------
(* The offset calibration. *)

(* The inductive invariant. *)

CalibTypeOK ==
  /\ mode \in {"NONE", "CALIB"} /\ bridge \in {"float", "low"}
  /\ ranks \in [Ranks -> Channels \union {"none"}]
  /\ sum \in [Ranks -> Nat] /\ remaining \in 0..Samples
  /\ at \in {"start", "bridge", "ranks", "clear", "count", "wait", "mode",
             "float", "done"}
  /\ stage \in 1..2 /\ rank \in Ranks

(* The interrupt sums only while the main thread waits, and then the       *)
(* bridge is low and the four ranks are those of the stage.                *)
OnlyWhileWaiting ==
  /\ remaining # 0 => at = "wait"
  /\ at \in {"ranks", "clear", "count", "wait"} => bridge = "low"

SequenceOfStage ==
  /\ at \in {"start", "bridge", "count", "wait"} => rank = 1
  /\ at = "ranks" =>
       \A k \in Ranks : k < rank => ranks[k] = Sequences[stage][k]
  /\ at \in {"clear", "count", "wait"} =>
       \A k \in Ranks : ranks[k] = Sequences[stage][k]

(* n readings of a channel may add up to t. *)
AddUpTo(n, t, c) ==
  /\ \E low  \in Readings[c] : n * low <= t
  /\ \E high \in Readings[c] : t <= n * high

(* A sum is what n readings add up to, cut to its width. *)
SumOf(n, s, c) == \E t \in Nat : AddUpTo(n, t, c) /\ s = t % SumMod

SumsOfStage ==
  /\ at = "clear" => \A k \in Ranks : k < rank => sum[k] = 0
  /\ at = "count" => \A k \in Ranks : sum[k] = 0
  /\ at = "wait" =>
       \A k \in Ranks : SumOf(Samples - remaining, sum[k], Sequences[stage][k])

MeansKept == DOMAIN mean \subseteq Channels

CalibInv ==
  /\ CalibTypeOK /\ OnlyWhileWaiting /\ SequenceOfStage /\ SumsOfStage
  /\ MeansKept /\ OffsetsAreMeans

-----------------------------------------------------------------------------
LEMMA Reading ==
  /\ \A c \in Channels : Readings[c] \subseteq Nat /\ Readings[c] # {}
  /\ Samples \in Nat \ {0} /\ SumMod \in Nat \ {0}
BY Mc3pCalibAssumption

LEMMA StageChannels ==
  ASSUME NEW s \in 1..2, NEW k \in Ranks
  PROVE  Sequences[s][k] \in Channels
BY DEF Sequences, Ranks, Channels

LEMMA Monotone ==
  ASSUME NEW n \in Nat, NEW a \in Nat, NEW b \in Nat, a <= b
  PROVE  n * a <= n * b
<1>1. n * (b - a) >= 0
  OBVIOUS
<1> QED
  BY <1>1

LEMMA OneMore ==
  ASSUME NEW n \in Nat, NEW a \in Nat
  PROVE  (n + 1) * a = n * a + a
OBVIOUS

LEMMA Division ==
  ASSUME NEW s \in Nat, NEW n \in Nat \ {0}
  PROVE  /\ s \div n \in Nat /\ s % n \in Nat /\ s % n < n
         /\ s = n * (s \div n) + (s % n)
OBVIOUS

LEMMA RemainderOf ==
  ASSUME NEW m \in Nat \ {0}, NEW q \in Nat, NEW b \in Nat, b < m
  PROVE  (m * q + b) % m = b
<1> DEFINE t == m * q + b
           p == t \div m
           a == t % m
<1>1. t \in Nat /\ t = m * q + b
  <2>1. m * q \in Nat
    OBVIOUS
  <2> QED
    BY <2>1
<1>2. p \in Nat /\ a \in Nat /\ a < m /\ t = m * p + a
  BY <1>1, Division
<1> HIDE DEF t, p, a
<1>3. p = q
  <2>1. m * p + a = m * q + b /\ m * p \in Nat /\ m * q \in Nat
    BY <1>1, <1>2
  <2>2. ~(p + 1 <= q)
    <3> SUFFICES ASSUME p + 1 <= q PROVE FALSE
      OBVIOUS
    <3>1. m * (p + 1) <= m * q
      BY <1>2, Monotone
    <3>2. m * (p + 1) = m * p + m
      BY <1>2
    <3> QED
      BY <1>2, <2>1, <3>1, <3>2
  <2>3. ~(q + 1 <= p)
    <3> SUFFICES ASSUME q + 1 <= p PROVE FALSE
      OBVIOUS
    <3>1. m * (q + 1) <= m * p
      BY <1>2, Monotone
    <3>2. m * (q + 1) = m * q + m
      OBVIOUS
    <3> QED
      BY <1>2, <2>1, <3>1, <3>2
  <2> QED
    BY <1>2, <2>2, <2>3
<1>4. a = b
  <2>1. m * q \in Nat
    OBVIOUS
  <2> QED
    BY <1>1, <1>2, <1>3, <2>1
<1> QED
  BY <1>4 DEF a, t

(* No reading adds up to nothing. *)
LEMMA NoneAddUp ==
  ASSUME NEW c \in Channels
  PROVE  SumOf(0, 0, c)
<1>1. PICK r \in Readings[c] : r \in Nat
  BY Reading
<1>2. 0 * r = 0 /\ 0 % SumMod = 0
  BY <1>1, Reading
<1>3. AddUpTo(0, 0, c)
  BY <1>1, <1>2 DEF AddUpTo
<1> QED
  BY <1>2, <1>3 DEF SumOf

(* Cutting before adding changes nothing. *)
LEMMA CutBefore ==
  ASSUME NEW m \in Nat \ {0}, NEW t \in Nat, NEW r \in Nat
  PROVE  ((t % m) + r) % m = (t + r) % m
<1> DEFINE q == t \div m
           a == t % m
           b == (a + r) % m
           p == (a + r) \div m
<1>1. q \in Nat /\ a \in Nat /\ a < m /\ t = m * q + a
  BY Division
<1> HIDE DEF q, a
<1>2. p \in Nat /\ b \in Nat /\ b < m /\ a + r = m * p + b
  <2>1. a + r \in Nat
    BY <1>1
  <2> QED
    BY <2>1, Division
<1> HIDE DEF p, b
<1>3. t + r = m * (q + p) + b
  <2>1. m * (q + p) = m * q + m * p
    BY <1>1, <1>2
  <2>2. m * q \in Nat /\ m * p \in Nat
    BY <1>1, <1>2
  <2> QED
    BY <1>1, <1>2, <2>1, <2>2
<1>4. (t + r) % m = b
  <2>1. q + p \in Nat
    BY <1>1, <1>2
  <2> QED
    BY <1>2, <1>3, <2>1, RemainderOf
<1> QED
  BY <1>4 DEF a, b

(* One more reading of the channel, whether or not the sum wraps around. *)
LEMMA SumGrows ==
  ASSUME NEW c \in Channels, NEW n \in Nat, NEW s \in Nat, SumOf(n, s, c),
         NEW r \in Readings[c]
  PROVE  /\ SumOf(n + 1, (s + r) % SumMod, c)
         /\ (s + r) % SumMod \in Nat
<1>0. PICK t \in Nat : AddUpTo(n, t, c) /\ s = t % SumMod
  BY DEF SumOf
<1>1. PICK low \in Readings[c] : n * low <= t
  BY <1>0 DEF AddUpTo
<1>2. PICK high \in Readings[c] : t <= n * high
  BY <1>0 DEF AddUpTo
<1>3. r \in Nat /\ low \in Nat /\ high \in Nat
  BY Reading
<1> DEFINE least == IF low <= r THEN low ELSE r
           most  == IF high >= r THEN high ELSE r
<1>4. /\ least \in Readings[c] /\ least \in Nat /\ least <= low /\ least <= r
      /\ most \in Readings[c] /\ most \in Nat /\ high <= most /\ r <= most
  BY <1>3
<1> HIDE DEF least, most
<1>5. n * least <= n * low /\ n * high <= n * most
  BY <1>3, <1>4, Monotone
<1>6. (n + 1) * least = n * least + least /\ (n + 1) * most = n * most + most
  BY <1>4, OneMore
<1>7. /\ n * least \in Nat /\ n * most \in Nat
      /\ n * low \in Nat /\ n * high \in Nat
  BY <1>3, <1>4
<1>8. (n + 1) * least <= t + r /\ t + r <= (n + 1) * most
  BY <1>0, <1>1, <1>2, <1>3, <1>4, <1>5, <1>6, <1>7
<1>9. AddUpTo(n + 1, t + r, c)
  BY <1>4, <1>8 DEF AddUpTo
<1>10. (s + r) % SumMod = (t + r) % SumMod
  BY <1>0, <1>3, Reading, CutBefore
<1>11. (s + r) % SumMod \in Nat /\ t + r \in Nat
  BY <1>0, <1>3, Reading
<1> QED
  BY <1>9, <1>10, <1>11 DEF SumOf

(* What is left of a full sum is divided by the number of its samples. *)
LEMMA AverageOf ==
  ASSUME NEW c \in Channels, NEW s \in Nat, SumOf(Samples, s, c)
  PROVE  s \div Samples \in AveragesOf(c) /\ s \div Samples \in Nat
<1>1. PICK t \in Nat : AddUpTo(Samples, t, c) /\ s = t % SumMod
  BY DEF SumOf
<1>2. PICK low \in Readings[c] : Samples * low <= t
  BY <1>1 DEF AddUpTo
<1>3. PICK high \in Readings[c] : t <= Samples * high
  BY <1>1 DEF AddUpTo
<1>4. low \in Nat /\ high \in Nat /\ Samples \in Nat \ {0}
  BY Reading
<1>5. t \in Samples * low .. Samples * high
  BY <1>1, <1>2, <1>3, <1>4
<1>6. s \div Samples \in AveragesOf(c)
  <2>1. t \in UNION { Samples * low .. Samples * h : h \in Readings[c] }
    BY <1>5
  <2>2. t \in TotalsOf(c)
    BY <2>1 DEF TotalsOf
  <2> QED
    BY <1>1, <2>2 DEF AveragesOf
<1> QED
  BY <1>4, <1>6, Division

(* A sum that fits is divided to an average: it lies between two readings. *)
Fits(c) == \A r \in Readings[c] : Samples * r < SumMod

Between(v, c) ==
  /\ \E low  \in Readings[c] : low <= v
  /\ \E high \in Readings[c] : v <= high

LEMMA FittingAverage ==
  ASSUME NEW c \in Channels, Fits(c), NEW v \in AveragesOf(c)
  PROVE  Between(v, c)
<1>0. PICK t \in TotalsOf(c) : v = (t % SumMod) \div Samples
  BY DEF AveragesOf
<1>1. PICK low \in Readings[c] :
        t \in UNION { Samples * low .. Samples * h : h \in Readings[c] }
  BY DEF TotalsOf
<1>2. PICK high \in Readings[c] : t \in Samples * low .. Samples * high
  BY <1>1
<1>3. low \in Nat /\ high \in Nat /\ Samples \in Nat \ {0}
  BY Reading
<1>4. Samples * low \in Nat /\ Samples * high \in Nat
  BY <1>3
<1>5. t \in Nat /\ Samples * low <= t /\ t <= Samples * high
  BY <1>2, <1>4
<1>6. t % SumMod = t
  <2>1. Samples * high < SumMod
    BY DEF Fits
  <2> QED
    BY <1>4, <1>5, <2>1, Reading
<1> DEFINE m == t % Samples
<1>7. v \in Nat /\ m \in Nat /\ m < Samples /\ t = Samples * v + m
  BY <1>0, <1>3, <1>5, <1>6, Division
<1> HIDE DEF m
<1>8. low <= v
  <2> SUFFICES ASSUME v + 1 <= low PROVE FALSE
    BY <1>3, <1>7
  <2>1. Samples * (v + 1) <= Samples * low
    BY <1>3, <1>7, Monotone
  <2>2. Samples * (v + 1) = Samples * v + Samples
    BY <1>3, <1>7
  <2>3. Samples * v \in Nat
    BY <1>3, <1>7
  <2> QED
    BY <1>3, <1>4, <1>5, <1>7, <2>1, <2>2, <2>3
<1>9. v <= high
  <2> SUFFICES ASSUME high + 1 <= v PROVE FALSE
    BY <1>3, <1>7
  <2>1. Samples * (high + 1) <= Samples * v
    BY <1>3, <1>7, Monotone
  <2>2. Samples * (high + 1) = Samples * high + Samples
    BY <1>3
  <2>3. Samples * v \in Nat
    BY <1>3, <1>7
  <2> QED
    BY <1>3, <1>4, <1>5, <1>7, <2>1, <2>2, <2>3
<1> QED
  BY <1>8, <1>9 DEF Between

-----------------------------------------------------------------------------
LEMMA CalibInitInv == CalibInit => CalibInv
<1> SUFFICES ASSUME CalibInit PROVE CalibInv
  OBVIOUS
<1>1. CalibTypeOK
  BY Reading DEF CalibInit, CalibTypeOK, Ranks
<1>2. OnlyWhileWaiting /\ SequenceOfStage /\ SumsOfStage
  BY DEF CalibInit, OnlyWhileWaiting, SequenceOfStage, SumsOfStage
<1>3. DOMAIN mean = {}
  BY DEF CalibInit
<1> QED
  BY <1>1, <1>2, <1>3 DEF CalibInv, MeansKept, OffsetsAreMeans

(* The steps of the main thread that neither select nor sum. *)
LEMMA QuietStep ==
  ASSUME CalibInv, SetMode \/ SetBridgeLow \/ LeaveMode \/ WriteFloat
  PROVE  CalibInv'
<1> USE DEF CalibInv
<1>1. UNCHANGED <<ranks, sum, remaining, mean, stage, rank>>
  BY DEF SetMode, SetBridgeLow, LeaveMode, WriteFloat
<1>2. CalibTypeOK'
  BY <1>1 DEF SetMode, SetBridgeLow, LeaveMode, WriteFloat, CalibTypeOK
<1>3. OnlyWhileWaiting'
  BY <1>1 DEF SetMode, SetBridgeLow, LeaveMode, WriteFloat, OnlyWhileWaiting
<1>4. SequenceOfStage' /\ SumsOfStage'
  <2>1. at' \in {"bridge", "ranks", "float", "done"}
    BY DEF SetMode, SetBridgeLow, LeaveMode, WriteFloat
  <2>2. at' \in {"ranks", "bridge"} => at \in {"start", "bridge"}
    BY DEF SetMode, SetBridgeLow, LeaveMode, WriteFloat
  <2>3. at' \in {"ranks", "bridge"} => rank' = 1
    BY <1>1, <2>2 DEF SequenceOfStage
  <2>4. at' = "ranks" => \A k \in Ranks : ~(k < rank')
    BY <2>3 DEF Ranks
  <2> QED
    BY <2>1, <2>3, <2>4 DEF SequenceOfStage, SumsOfStage
<1>5. MeansKept' /\ OffsetsAreMeans'
  BY <1>1 DEF MeansKept, OffsetsAreMeans
<1> QED
  BY <1>2, <1>3, <1>4, <1>5

LEMMA SelectStep ==
  ASSUME CalibInv, SetRank
  PROVE  CalibInv'
<1> USE DEF CalibInv
<1>1. /\ at = "ranks"
      /\ ranks' = [ranks EXCEPT ![rank] = Sequences[stage][rank]]
      /\ UNCHANGED <<mode, bridge, sum, remaining, mean, stage>>
      /\ \/ rank < 4 /\ rank' = rank + 1 /\ at' = "ranks"
         \/ ~(rank < 4) /\ rank' = 1 /\ at' = "clear"
  BY DEF SetRank
<1>2. /\ rank \in 1..4 /\ stage \in 1..2
      /\ ranks \in [Ranks -> Channels \union {"none"}]
      /\ Sequences[stage][rank] \in Channels
  BY StageChannels DEF CalibTypeOK, Ranks
<1>3. rank' \in Ranks /\ at' \in {"ranks", "clear"}
  BY <1>1, <1>2 DEF Ranks
<1>4. CalibTypeOK'
  BY <1>1, <1>2, <1>3 DEF CalibTypeOK
<1>5. OnlyWhileWaiting'
  BY <1>1, <1>3 DEF OnlyWhileWaiting
<1>6. \A k \in Ranks : k < rank \/ k = rank => ranks'[k] = Sequences[stage][k]
  BY <1>1, <1>2 DEF SequenceOfStage, Ranks
<1>7. SequenceOfStage'
  <2>1. CASE rank < 4 /\ rank' = rank + 1 /\ at' = "ranks"
    BY <1>1, <1>2, <1>6, <2>1 DEF SequenceOfStage, Ranks
  <2>2. CASE ~(rank < 4) /\ rank' = 1 /\ at' = "clear"
    BY <1>1, <1>2, <1>6, <2>2 DEF SequenceOfStage, Ranks
  <2> QED
    BY <1>1, <2>1, <2>2
<1>8. SumsOfStage'
  <2>1. at' = "clear" => \A k \in Ranks : ~(k < rank')
    BY <1>1 DEF Ranks
  <2> QED
    BY <1>3, <2>1 DEF SumsOfStage
<1>9. MeansKept' /\ OffsetsAreMeans'
  BY <1>1 DEF MeansKept, OffsetsAreMeans
<1> QED
  BY <1>4, <1>5, <1>7, <1>8, <1>9

LEMMA ClearStep ==
  ASSUME CalibInv, ClearSum
  PROVE  CalibInv'
<1> USE DEF CalibInv
<1>1. /\ at = "clear" /\ sum' = [sum EXCEPT ![rank] = 0]
      /\ UNCHANGED <<mode, bridge, ranks, remaining, mean, stage>>
      /\ \/ rank < 4 /\ rank' = rank + 1 /\ at' = "clear"
         \/ ~(rank < 4) /\ rank' = 1 /\ at' = "count"
  BY DEF ClearSum
<1>2. rank \in 1..4 /\ sum \in [Ranks -> Nat]
  BY DEF CalibTypeOK, Ranks
<1>3. rank' \in Ranks /\ at' \in {"clear", "count"}
  BY <1>1, <1>2 DEF Ranks
<1>4. CalibTypeOK'
  BY <1>1, <1>2, <1>3 DEF CalibTypeOK
<1>5. OnlyWhileWaiting'
  BY <1>1, <1>3 DEF OnlyWhileWaiting
<1>6. SequenceOfStage'
  BY <1>1, <1>3 DEF SequenceOfStage
<1>7. \A k \in Ranks : k < rank \/ k = rank => sum'[k] = 0
  BY <1>1, <1>2 DEF SumsOfStage, Ranks
<1>8. SumsOfStage'
  <2>1. CASE rank < 4 /\ rank' = rank + 1 /\ at' = "clear"
    BY <1>2, <1>7, <2>1 DEF SumsOfStage, Ranks
  <2>2. CASE ~(rank < 4) /\ rank' = 1 /\ at' = "count"
    BY <1>2, <1>7, <2>2 DEF SumsOfStage, Ranks
  <2> QED
    BY <1>1, <2>1, <2>2
<1>9. MeansKept' /\ OffsetsAreMeans'
  BY <1>1 DEF MeansKept, OffsetsAreMeans
<1> QED
  BY <1>4, <1>5, <1>6, <1>8, <1>9

LEMMA StartStep ==
  ASSUME CalibInv, StartSamples
  PROVE  CalibInv'
<1> USE DEF CalibInv
<1>1. /\ at = "count" /\ remaining' = Samples /\ at' = "wait"
      /\ UNCHANGED <<mode, bridge, ranks, sum, mean, stage, rank>>
  BY DEF StartSamples
<1>2. CalibTypeOK'
  BY <1>1, Reading DEF CalibTypeOK
<1>3. OnlyWhileWaiting'
  BY <1>1 DEF OnlyWhileWaiting
<1>4. SequenceOfStage'
  BY <1>1 DEF SequenceOfStage
<1>5. SumsOfStage'
  <2> SUFFICES ASSUME NEW k \in Ranks
               PROVE  SumOf(Samples - remaining', sum'[k], Sequences[stage'][k])
    BY <1>1 DEF SumsOfStage
  <2>1. Samples - remaining' = 0 /\ sum'[k] = 0
    BY <1>1, Reading DEF SumsOfStage
  <2>2. Sequences[stage'][k] \in Channels
    BY <1>1, StageChannels DEF CalibTypeOK
  <2> QED
    BY <2>1, <2>2, NoneAddUp
<1>6. MeansKept' /\ OffsetsAreMeans'
  BY <1>1 DEF MeansKept, OffsetsAreMeans
<1> QED
  BY <1>2, <1>3, <1>4, <1>5, <1>6

LEMMA SampleStep ==
  ASSUME CalibInv, EndOfSequence
  PROVE  CalibInv'
<1> USE DEF CalibInv
<1>1. /\ mode = "CALIB" /\ remaining # 0
      /\ remaining' = (remaining - 1) % CountMod
      /\ UNCHANGED <<mode, bridge, ranks, mean, at, stage, rank>>
  BY DEF EndOfSequence
<1>2. PICK r \in Results : sum' = [k \in Ranks |-> (sum[k] + r[k]) % SumMod]
  BY DEF EndOfSequence
<1>3. /\ at = "wait" /\ bridge = "low"
      /\ \A k \in Ranks : ranks[k] = Sequences[stage][k]
  BY <1>1 DEF OnlyWhileWaiting, SequenceOfStage
<1>4. \A k \in Ranks : Sequences[stage][k] \in Channels
  BY StageChannels DEF CalibTypeOK
<1>5. \A k \in Ranks : r[k] \in Readings[Sequences[stage][k]]
  <2>1. \A k \in Ranks : ranks[k] # "none"
    BY <1>3, <1>4 DEF Channels
  <2> QED
    BY <1>3, <2>1 DEF Results
<1>6. /\ remaining \in 1..Samples /\ remaining' = remaining - 1
      /\ Samples - remaining \in Nat /\ Samples - remaining < Samples
      /\ Samples - remaining' = (Samples - remaining) + 1
  <2>1. remaining \in 1..Samples
    BY <1>1, Reading DEF CalibTypeOK
  <2>2. remaining - 1 \in 0..CountMod - 1 /\ CountMod \in Nat \ {0}
    BY <2>1, Mc3pCalibAssumption
  <2>3. remaining' = remaining - 1
    BY <1>1, <2>2
  <2> QED
    BY <2>1, <2>3, Reading
<1>7. ASSUME NEW k \in Ranks
      PROVE  /\ SumOf(Samples - remaining', sum'[k], Sequences[stage][k])
             /\ sum'[k] \in Nat
  <2>1. sum'[k] = (sum[k] + r[k]) % SumMod
    BY <1>2
  <2>2. /\ sum[k] \in Nat
        /\ SumOf(Samples - remaining, sum[k], Sequences[stage][k])
    BY <1>3 DEF CalibTypeOK, SumsOfStage
  <2>3. /\ SumOf((Samples - remaining) + 1, (sum[k] + r[k]) % SumMod,
                 Sequences[stage][k])
        /\ (sum[k] + r[k]) % SumMod \in Nat
    BY <1>4, <1>5, <1>6, <2>2, SumGrows
  <2> QED
    BY <1>6, <2>1, <2>3
<1>8. CalibTypeOK'
  <2>1. sum' \in [Ranks -> Nat]
    BY <1>2, <1>7
  <2>2. remaining' \in 0..Samples
    BY <1>6, Reading
  <2> QED
    BY <1>1, <2>1, <2>2 DEF CalibTypeOK
<1>9. OnlyWhileWaiting' /\ SequenceOfStage'
  BY <1>1, <1>3 DEF OnlyWhileWaiting, SequenceOfStage
<1>10. SumsOfStage'
  BY <1>1, <1>3, <1>7 DEF SumsOfStage
<1>11. MeansKept' /\ OffsetsAreMeans'
  BY <1>1 DEF MeansKept, OffsetsAreMeans
<1> QED
  BY <1>8, <1>9, <1>10, <1>11

LEMMA AverageStep ==
  ASSUME CalibInv, Average
  PROVE  CalibInv'
<1> USE DEF CalibInv
<1> DEFINE new == { Sequences[stage][k] : k \in 2..4 }
           place(c) == CHOOSE k \in 2..4 : Sequences[stage][k] = c
<1>1. /\ at = "wait" /\ remaining = 0
      /\ sum' = [k \in Ranks |-> sum[k] \div Samples]
      /\ mean' = [c \in DOMAIN mean \union new |->
                    IF c \in new THEN sum'[place(c)] ELSE mean[c]]
      /\ at' \in {"ranks", "mode"} /\ stage' = 2
      /\ UNCHANGED <<mode, bridge, ranks, remaining, rank>>
  BY DEF Average
<1>2. stage \in 1..2 /\ sum \in [Ranks -> Nat] /\ rank = 1
  BY <1>1 DEF CalibTypeOK, SequenceOfStage
<1>3. ASSUME NEW k \in Ranks
      PROVE  /\ sum'[k] \in Nat
             /\ sum'[k] \in AveragesOf(Sequences[stage][k])
  <2>1. SumOf(Samples, sum[k], Sequences[stage][k])
    <3>1. SumOf(Samples - remaining, sum[k], Sequences[stage][k])
      BY <1>1 DEF SumsOfStage
    <3>2. Samples - remaining = Samples
      BY <1>1, Reading
    <3> QED
      BY <3>1, <3>2
  <2>2. Sequences[stage][k] \in Channels /\ sum[k] \in Nat
    BY <1>2, StageChannels
  <2>3. sum'[k] = sum[k] \div Samples
    BY <1>1
  <2> QED
    BY <2>1, <2>2, <2>3, AverageOf
<1>4. CalibTypeOK'
  <2>1. sum' \in [Ranks -> Nat]
    BY <1>1, <1>3
  <2> QED
    BY <1>1, <2>1 DEF CalibTypeOK
<1>5. OnlyWhileWaiting'
  BY <1>1 DEF OnlyWhileWaiting
<1>6. SequenceOfStage' /\ SumsOfStage'
  BY <1>1, <1>2 DEF SequenceOfStage, SumsOfStage, Ranks
<1>7. DOMAIN mean' = DOMAIN mean \union new
  BY <1>1
<1>8. new \subseteq Channels
  BY <1>2, StageChannels DEF Ranks
<1>9. MeansKept'
  BY <1>7, <1>8 DEF MeansKept
<1>10. OffsetsAreMeans'
  <2> SUFFICES ASSUME NEW c \in DOMAIN mean'
               PROVE  mean'[c] \in AveragesOf(c)
    BY DEF OffsetsAreMeans
  <2>1. CASE c \in new
    <3>1. place(c) \in 2..4 /\ Sequences[stage][place(c)] = c
      BY <2>1
    <3> HIDE DEF place
    <3>2. mean'[c] = sum'[place(c)] /\ place(c) \in Ranks
      BY <1>1, <1>7, <2>1, <3>1 DEF Ranks
    <3> QED
      BY <1>3, <3>1, <3>2
  <2>2. CASE c \notin new
    <3>1. c \in DOMAIN mean /\ mean'[c] = mean[c]
      BY <1>1, <1>7, <2>2
    <3> QED
      BY <3>1 DEF OffsetsAreMeans
  <2> QED
    BY <2>1, <2>2
<1> QED
  BY <1>4, <1>5, <1>6, <1>9, <1>10

(* Each step of either side keeps the invariant. *)
LEMMA CalibStepInv == CalibInv /\ [CalibNext]_calibVars => CalibInv'
<1> SUFFICES ASSUME CalibInv, [CalibNext]_calibVars PROVE CalibInv'
  OBVIOUS
<1>1. CASE SetMode \/ SetBridgeLow \/ LeaveMode \/ WriteFloat
  BY <1>1, QuietStep
<1>2. CASE SetRank
  BY <1>2, SelectStep
<1>3. CASE ClearSum
  BY <1>3, ClearStep
<1>4. CASE StartSamples
  BY <1>4, StartStep
<1>5. CASE Average
  BY <1>5, AverageStep
<1>6. CASE EndOfSequence
  BY <1>6, SampleStep
<1>7. CASE UNCHANGED calibVars
  BY <1>7 DEF calibVars, CalibInv, CalibTypeOK, OnlyWhileWaiting,
     SequenceOfStage, SumsOfStage, MeansKept, OffsetsAreMeans
<1> QED
  BY <1>1, <1>2, <1>3, <1>4, <1>5, <1>6, <1>7 DEF CalibNext, Main

LEMMA CalibInductive == CalibSpec => []CalibInv
<1>1. CalibInit => CalibInv
  BY CalibInitInv
<1>2. CalibInv /\ [CalibNext]_calibVars => CalibInv'
  BY CalibStepInv
<1> QED
  BY <1>1, <1>2, PTL DEF CalibSpec

(* Wherever the end-of-sequence interrupt comes, an offset comes from as   *)
(* many readings of its own channel, with the bridge low, as it is divided *)
(* by (mc3p_offset_calibration, INTERNAL_mc3p_ADC_JEOS_IRQ).               *)
THEOREM OffsetsAreOwn == CalibSpec => []OffsetsAreMeans
<1>1. CalibInv => OffsetsAreMeans
  BY DEF CalibInv
<1> QED
  BY <1>1, CalibInductive, PTL

(* Of a channel whose sum fits 16 bits, whatever the others read, the      *)
(* offset is an average: "the reading is your offset" (el_mc3p.c:788).     *)
MeansThatFit == \A c \in DOMAIN mean : Fits(c) => Between(mean[c], c)

THEOREM FittingOffsetsAreMeans == CalibSpec => []MeansThatFit
<1>1. CalibInv => MeansThatFit
  BY FittingAverage DEF CalibInv, MeansKept, OffsetsAreMeans, MeansThatFit
<1> QED
  BY <1>1, CalibInductive, PTL

-----------------------------------------------------------------------------
(* The self-commissioning. *)

USE SCommAssumption DEF Modes, Stages, Kinds

-----------------------------------------------------------------------------
(* Sums. *)

LEMMA OnlyNone ==
  ASSUME NEW k \in Kinds
  PROVE  Only(k, 0) = NoSamples
BY DEF Only, NoSamples

LEMMA OnlyOneMore ==
  ASSUME NEW k \in Kinds, NEW n \in Nat
  PROVE  [Only(k, n) EXCEPT ![k] = @ + 1] = Only(k, n + 1)
BY DEF Only, NoSamples

LEMMA TickCounts ==
  ASSUME NEW m \in 0 .. Settle + 1, NEW n \in 0 .. Settle + 1
  PROVE  /\ Tick(n) \in 0 .. Settle + 1
         /\ Tick(n) > 0
         /\ Tick(0) = 1
         /\ n > Settle => Tick(n) > Settle
         /\ m >= n => Tick(m) >= Tick(n)
BY DEF Tick

-----------------------------------------------------------------------------
(* Types. *)

LEMMA InitTypes == Init => TypeOK
BY DEF Init, TypeOK, NoSamples, Unknown

LEMMA XmcTypes == TypeOK /\ XmcLoop => TypeOK'
<1> SUFFICES ASSUME TypeOK, XmcLoop PROVE TypeOK'
  OBVIOUS
<1> USE DEF TypeOK, XmcUnchanged, StartSettling, StartSampling, Result, StayIn
<1>1. NoSamples \in [Kinds -> Nat] /\ [Kinds -> Nat] \subseteq [Kinds -> Int]
  BY DEF NoSamples
<1>2. CASE CaseRs
  BY <1>1, <1>2 DEF CaseRs
<1>3. CASE CaseLd
  BY <1>1, <1>3 DEF CaseLd
<1>4. CASE CaseRest0
  BY <1>1, <1>4 DEF CaseRest0, RestStarts, RestEnds, RestStays
<1>5. CASE CaseLq
  BY <1>1, <1>5 DEF CaseLq
<1> QED
  BY <1>2, <1>3, <1>4, <1>5 DEF XmcLoop

LEMMA PwmTypes == TypeOK /\ PwmLoop => TypeOK'
<1> SUFFICES ASSUME TypeOK, PwmLoop PROVE TypeOK'
  OBVIOUS
<1>1. waited' \in 0 .. Settle + 1
  BY TickCounts DEF TypeOK, PwmLoop
<1>2. steady' \in 0 .. Settle + 1
  BY TickCounts DEF TypeOK, PwmLoop, SCommPwmLoop, FocPwmLoop, IdlePwmLoop
<1>3. acc' \in [Kinds -> Nat]
  BY DEF TypeOK, PwmLoop, SCommPwmLoop, FocPwmLoop, IdlePwmLoop, Kind
<1>4. samples' \in 0 .. Oversample
  BY DEF TypeOK, PwmLoop, SCommPwmLoop, FocPwmLoop, IdlePwmLoop, Sampling
<1>5. sp' \in {"zero", "dc", "hfi_d", "hfi_q"}
  BY DEF TypeOK, PwmLoop, SCommPwmLoop, FocPwmLoop, IdlePwmLoop, Excitation
<1> QED
  BY <1>1, <1>2, <1>3, <1>4, <1>5 DEF TypeOK, PwmLoop

LEMMA TypeStep == TypeOK /\ [Next]_vars => TypeOK'
<1> SUFFICES ASSUME TypeOK, [Next]_vars PROVE TypeOK'
  OBVIOUS
<1>1. ASSUME NEW m \in Modes, ConfigControlMode(m) PROVE TypeOK'
  BY <1>1 DEF TypeOK, ConfigControlMode, SetControlMode
<1>2. CASE PwmLoop
  BY <1>2, PwmTypes
<1>3. CASE XmcLoop
  BY <1>3, XmcTypes
<1>4. CASE UNCHANGED vars
  BY <1>4 DEF TypeOK, vars
<1> QED
  BY <1>1, <1>2, <1>3, <1>4 DEF Next

(* The counters of PmsmControlCore_SComm.cpp stay in their ranges, whether *)
(* or not the interrupt preempts the slow loop.                            *)
THEOREM TypeCorrect == Spec => []TypeOK
BY InitTypes, TypeStep, PTL DEF Spec

-----------------------------------------------------------------------------
(* The invariant. *)

LEMMA InitInv == Init => IInv
<1> SUFFICES ASSUME Init PROVE IInv
  OBVIOUS
<1>1. TypeOK
  BY InitTypes
<1>2. FallsThrough /\ Entries /\ SumsAreOwn /\ ResultsFromOwnSamples
  BY DEF Init, FallsThrough, Entries, SumsAreOwn, Measures,
         ResultsFromOwnSamples
<1> QED
  BY <1>1, <1>2 DEF IInv

(* A change of the mode: SComm is entered with a stage that has not begun, *)
(* or is entered again.                                                    *)
LEMMA ModeStep ==
  ASSUME IInv, NEW m \in Modes, ConfigControlMode(m)
  PROVE  FallsThrough' /\ Entries' /\ SumsAreOwn' /\ ResultsFromOwnSamples'
<1> USE DEF ConfigControlMode, SetControlMode
<1>1. FallsThrough'
  BY DEF FallsThrough
<1>2. Entries'
  BY DEF IInv, TypeOK, Entries
<1>3. SumsAreOwn'
  BY DEF IInv, TypeOK, Entries, SumsAreOwn, Measures
<1>4. ResultsFromOwnSamples'
  BY DEF IInv, TypeOK, ResultsFromOwnSamples
<1> QED
  BY <1>1, <1>2, <1>3, <1>4

(* A tick of the PWM loop, between two calls of the slow loop. *)
LEMMA PwmStep ==
  ASSUME IInv, ~Preempt, PwmLoop
  PROVE  FallsThrough' /\ Entries' /\ SumsAreOwn' /\ ResultsFromOwnSamples'
<1>0. /\ xpc = "idle"
      /\ UNCHANGED <<mc_mode, idstage, idsub, model, xpc, entered>>
  BY DEF PwmLoop
<1>1. FallsThrough' /\ Entries' /\ ResultsFromOwnSamples'
  BY <1>0 DEF IInv, FallsThrough, Entries, ResultsFromOwnSamples
<1>2. SumsAreOwn'
  <2> SUFFICES ASSUME Measures PROVE SumsAreOwn'
    BY <1>0 DEF SumsAreOwn, Measures
  <2>1. SCommPwmLoop /\ waited' = Tick(waited) /\ TypeOK
    BY DEF IInv, PwmLoop, FocPwmLoop, IdlePwmLoop, Measures
  <2>2. idsub # "ESettle_Start" => sp' = Excitation[idstage]
    BY <2>1 DEF IInv, TypeOK, SumsAreOwn, Measures, SCommPwmLoop, Excitation
  <2>3. ASSUME idsub = "ESettle_Wait"
        PROVE  acc' = NoSamples /\ samples' = Oversample /\ steady' >= waited'
    <3>1. acc' = NoSamples /\ samples' = Oversample
      BY <2>1, <2>3 DEF SCommPwmLoop, Sampling, IInv, SumsAreOwn
    <3>2. CASE waited > 0
      <4>1. sp = Excitation[idstage] /\ steady >= waited
        BY <2>3, <3>2 DEF IInv, SumsAreOwn
      <4> QED
        BY <2>1, <2>2, <2>3, <3>1, <4>1, TickCounts DEF SCommPwmLoop, TypeOK
    <3>3. CASE waited = 0
      <4>1. waited' = 1 /\ steady' >= 1
        BY <2>1, <3>3, TickCounts DEF SCommPwmLoop, TypeOK
      <4> QED
        BY <3>1, <4>1
    <3> QED
      BY <2>1, <3>2, <3>3 DEF TypeOK
  <2>4. ASSUME idsub = "Active_Sampling"
        PROVE  /\ acc' = Only(idstage, Oversample - samples')
               /\ steady' > Settle
    <3>1. /\ acc = Only(idstage, Oversample - samples)
          /\ sp = Excitation[idstage] /\ steady > Settle
      BY <2>4 DEF IInv, SumsAreOwn
    <3>2. steady' > Settle
      BY <2>1, <2>2, <2>4, <3>1, TickCounts DEF SCommPwmLoop, TypeOK
    <3>3. CASE samples > 0
      <4>1. acc' = [acc EXCEPT ![idstage] = @ + 1] /\ samples' = samples - 1
        BY <2>1, <2>4, <3>1, <3>3 DEF SCommPwmLoop, Sampling, Kind, Measures,
           TypeOK
      <4>2. Oversample - samples \in Nat /\ idstage \in Kinds
        BY <2>1 DEF TypeOK, Measures
      <4>3. acc' = Only(idstage, Oversample - samples + 1)
        BY <3>1, <4>1, <4>2, OnlyOneMore
      <4>4. Oversample - samples + 1 = Oversample - samples'
        BY <2>1, <4>1 DEF TypeOK
      <4> QED
        BY <3>2, <4>3, <4>4
    <3>4. CASE samples = 0
      BY <2>1, <3>1, <3>2, <3>4 DEF SCommPwmLoop, Sampling
    <3> QED
      BY <2>1, <3>3, <3>4 DEF TypeOK
  <2> QED
    BY <1>0, <2>2, <2>3, <2>4 DEF SumsAreOwn, Measures, Excitation
<1> QED
  BY <1>1, <1>2

(* A case of the slow loop. *)
LEMMA XmcStep ==
  ASSUME IInv, XmcLoop
  PROVE  FallsThrough' /\ Entries' /\ SumsAreOwn' /\ ResultsFromOwnSamples'
<1>0. /\ mc_mode = "SComm" /\ entered \in Nat /\ entered # 0
      /\ UNCHANGED <<mc_mode, entered>>
  BY DEF IInv, TypeOK, FallsThrough, Entries, XmcLoop, CaseRs, CaseLd,
         CaseRest0, CaseLq, XmcUnchanged
<1>1. CASE CaseRs
  <2> USE DEF CaseRs
  <2>1. FallsThrough' /\ Entries'
    BY <1>0, <1>1 DEF FallsThrough, Entries, StartSettling, StartSampling,
       Result, StayIn
  <2>2. SumsAreOwn'
    BY <1>0, <1>1, OnlyNone
    DEF IInv, TypeOK, SumsAreOwn, Measures, StartSettling, StartSampling,
        Result, StayIn, Excitation
  <2>3. ResultsFromOwnSamples'
    BY <1>0, <1>1
    DEF IInv, TypeOK, SumsAreOwn, Measures, ResultsFromOwnSamples, Pure,
        StartSettling, StartSampling, Result, StayIn
  <2> QED
    BY <2>1, <2>2, <2>3
<1>2. CASE CaseLd
  <2> USE DEF CaseLd
  <2>1. FallsThrough' /\ Entries'
    BY <1>0, <1>2 DEF IInv, TypeOK, FallsThrough, Entries, NothingDue,
       StartSettling, StartSampling, Result, StayIn, SumsAreOwn, Measures
  <2>2. SumsAreOwn'
    BY <1>0, <1>2, OnlyNone
    DEF IInv, TypeOK, SumsAreOwn, Measures, StartSettling, StartSampling,
        Result, StayIn, Excitation
  <2>3. ResultsFromOwnSamples'
    BY <1>0, <1>2
    DEF IInv, TypeOK, SumsAreOwn, Measures, ResultsFromOwnSamples, Pure,
        StartSettling, StartSampling, Result, StayIn
  <2> QED
    BY <2>1, <2>2, <2>3
<1>3. CASE CaseRest0
  <2> USE DEF CaseRest0, RestStarts, RestEnds, RestStays, StartSettling
  <2>1. FallsThrough' /\ Entries'
    BY <1>0, <1>3 DEF IInv, TypeOK, FallsThrough, Entries, NothingDue
  <2>2. SumsAreOwn'
    BY <1>0, <1>3
    DEF IInv, TypeOK, FallsThrough, NothingDue, SumsAreOwn, Measures
  <2>3. ResultsFromOwnSamples'
    BY <1>0, <1>3 DEF IInv, ResultsFromOwnSamples
  <2> QED
    BY <2>1, <2>2, <2>3
<1>4. CASE CaseLq
  <2> USE DEF CaseLq
  <2>1. FallsThrough' /\ Entries'
    BY <1>0, <1>4 DEF IInv, TypeOK, FallsThrough, NothingDue, Entries,
       StartSettling, StartSampling, Result, StayIn
  <2>2. SumsAreOwn'
    BY <1>0, <1>4, OnlyNone
    DEF IInv, TypeOK, FallsThrough, NothingDue, SumsAreOwn, Measures,
        StartSettling, StartSampling, Result, StayIn, Excitation
  <2>3. ResultsFromOwnSamples'
    BY <1>0, <1>4
    DEF IInv, TypeOK, FallsThrough, NothingDue, SumsAreOwn, Measures,
        ResultsFromOwnSamples, Pure, StartSettling, StartSampling, Result,
        StayIn
  <2> QED
    BY <2>1, <2>2, <2>3
<1> QED
  BY <1>1, <1>2, <1>3, <1>4 DEF XmcLoop

(* Where the loops do not preempt each other, every step keeps the         *)
(* strengthened invariant, for every settling time, number of samples and  *)
(* number of entries.                                                      *)
THEOREM Inductive == ~Preempt /\ Spec => []IInv
<1> SUFFICES ASSUME ~Preempt PROVE Spec => []IInv
  OBVIOUS
<1>1. IInv /\ [Next]_vars => IInv'
  <2> SUFFICES ASSUME IInv, [Next]_vars PROVE IInv'
    OBVIOUS
  <2>0. TypeOK'
    BY TypeStep DEF IInv
  <2>1. ASSUME NEW m \in Modes, ConfigControlMode(m) PROVE IInv'
    BY <2>0, <2>1, ModeStep DEF IInv
  <2>2. CASE PwmLoop
    BY <2>0, <2>2, PwmStep DEF IInv
  <2>3. CASE XmcLoop
    BY <2>0, <2>3, XmcStep DEF IInv
  <2>4. CASE UNCHANGED vars
    BY <2>0, <2>4 DEF IInv, vars, FallsThrough, NothingDue, Entries,
       SumsAreOwn, Measures, ResultsFromOwnSamples
  <2> QED
    BY <2>1, <2>2, <2>3, <2>4 DEF Next
<1> QED
  BY <1>1, InitInv, PTL DEF Spec

(* The inductances the commissioning reports, always, and the resistance   *)
(* of the first commissioning come from the full number of settled samples *)
(* of their own stage (SComm_xmcLoop, SComm_pwmLoop).  The resistance of a *)
(* commissioning entered again does not: its stage may be under way.       *)
THEOREM ResultsAreOwn == ~Preempt /\ Spec => []ResultsFromOwnSamples
<1>1. IInv => ResultsFromOwnSamples
  BY DEF IInv
<1> QED
  BY <1>1, Inductive, PTL

(* The identification skips no stage: the cases that fall through find     *)
(* nothing due (SComm_xmcLoop).                                            *)
THEOREM StagesAreInOrder == ~Preempt /\ Spec => StagesInOrder
<1> DEFINE InOrder ==
      idstage' # idstage =>
        \/ <<idstage, idstage'>> \in
             {<<"RS_ID", "LD_ID">>, <<"LD_ID", "REST0">>,
              <<"REST0", "LQ_ID">>, <<"LQ_ID", "RS_ID">>}
        \/ entered' # entered
<1>1. IInv /\ [Next]_vars => [InOrder]_vars
  <2> SUFFICES ASSUME IInv, Next PROVE InOrder
    OBVIOUS
  <2>1. ASSUME NEW m \in Modes, ConfigControlMode(m) PROVE InOrder
    BY <2>1 DEF ConfigControlMode, SetControlMode, IInv, TypeOK
  <2>2. CASE PwmLoop
    BY <2>2 DEF PwmLoop
  <2>3. CASE CaseRs \/ CaseLd
    BY <2>3 DEF CaseRs, CaseLd, StartSettling, StartSampling, Result, StayIn
  <2>4. CASE CaseRest0
    BY <2>4 DEF CaseRest0, RestStarts, RestEnds, RestStays, StartSettling,
       IInv, TypeOK, FallsThrough, NothingDue
  <2>5. CASE CaseLq
    BY <2>5 DEF CaseLq, StartSettling, StartSampling, Result, StayIn, IInv,
       FallsThrough, NothingDue, TypeOK
  <2> QED
    BY <2>1, <2>2, <2>3, <2>4, <2>5 DEF Next, XmcLoop
<1> QED
  BY <1>1, Inductive, PTL DEF Spec, StagesInOrder
=============================================================================
