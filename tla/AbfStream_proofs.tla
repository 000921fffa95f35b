-------------------------- MODULE AbfStream_proofs --------------------------
(***************************************************************************)
(* Proofs about the framing, for every set of services, payloads and       *)
(* capacities, every checksum that is not 0, every cut of the bytes into   *)
(* reads and any number of frames: those delivered are those sent, and a   *)
(* payload that is refused costs no more than its own frame and the next.  *)
(***************************************************************************)
EXTENDS AbfStream, TLAPS, SequenceTheorems, WellFoundedInduction

(* What the transport and the receive buffer must be like for it: no       *)
(* payload is refused after its header, and the bytes read have a buffer   *)
(* of their own.                                                           *)
Whole == ~Shared /\ "payload" \notin Drops

-----------------------------------------------------------------------------
(* The inductive invariant. *)

Types ==
  /\ TypeOK
  /\ state = "READ_HEADER" => headerPos \in 1..4

Fits(f) == Len(f.payload) <= capacity

(* Frames are handled in order, each delivered or reported, and due lists  *)
(* those that fit: the first of it are handled, the others are not.        *)
Handled == Len(delivered) + errors

DueListed ==
  /\ \A k \in 1..Len(due) : Fits(sent[due[k]])
  /\ \A k, l \in 1..Len(due) : k < l => l - k <= due[l] - due[k]
  /\ \A j \in 1..Len(sent) : Fits(sent[j]) => \E k \in 1..Len(due) : due[k] = j

InTurn ==
  /\ delivered \in Seq(Frames)
  /\ Handled <= Len(sent)
  /\ DeliveredInOrder
  /\ \A k \in 1..Len(due) : k <= Len(delivered) <=> due[k] <= Handled

(* The bytes that are still to be processed, counted from 1: the rest of   *)
(* the piece that was read, then what is in the transport.                 *)
Left == length - i + Len(line)
At(x) == IF x <= length - i THEN data[i + x - 1] ELSE line[x - (length - i)]

(* The frames of which bytes may be among them.  Of the last one, only the *)
(* header may be written.                                                  *)
HalfWritten == half # NoFrame /\ kept
Begun == Len(sent) + (IF HalfWritten THEN 1 ELSE 0)
Open == Handled + 1 .. Begun
Frame(j) == IF j <= Len(sent) THEN sent[j] ELSE half
Size(j) == IF j <= Len(sent) THEN 5 + Len(sent[j].payload) ELSE 5

(* Byte k of a frame on the wire. *)
Wire(f, k) ==
  IF k < 5 THEN EncodedHeader(f)[k + 1] ELSE EncodedPayload(f.payload)[k - 4]

(* Frame j begins at byte start[j] (of the one that is being processed,    *)
(* the bytes from 1 on are left): the open frames lie one behind the       *)
(* other, and there is no zero outside them.                               *)
LaidOut(start) ==
  /\ \A j \in Open : start[j] + Size(j) <= Left + 1
  /\ \A j \in Open : \A k \in 0..Size(j) - 1 :
       start[j] + k >= 1 => At(start[j] + k) = Wire(Frame(j), k)
  /\ HalfWritten => start[Begun] + 5 = Left + 1
  /\ \A j, l \in Open : j < l => start[j] + Size(j) <= start[l]
  /\ \A x \in 1..Left : At(x) = 0 =>
       \E j \in Open : start[j] <= x /\ x < start[j] + Size(j)

(* What process has made of the bytes before: nothing, a part of the       *)
(* header, or the header and a part of the payload, in which nextZero is   *)
(* the distance to the next zero.                                          *)
HeaderRead(j, n) == \A k \in 0..n - 1 : header[k] = Wire(Frame(j), k)

Decoding(start) ==
  /\ state = "HUNT_SYNC" => \A j \in Open : start[j] >= 1
  /\ state # "HUNT_SYNC" => Handled < Begun
  /\ state = "READ_HEADER" => \A j \in Open : j = Handled + 1 =>
       HeaderRead(j, headerPos) /\ start[j] = 1 - headerPos
  /\ state = "READ_PAYLOAD" => \A j \in Open : j = Handled + 1 =>
       LET p == Frame(j).payload IN
       /\ HeaderRead(j, 5) /\ start[j] = -4 - rxPos
       /\ rxPos < Len(p)
       /\ nextZero = Code(p, rxPos)
       /\ \A k \in 0..rxPos - 1 : rxPayload[k] = p[k + 1]

IInv ==
  /\ Types
  /\ DueListed
  /\ InTurn
  /\ \E start \in [Nat -> Int] : LaidOut(start) /\ Decoding(start)

-----------------------------------------------------------------------------
(* The encoding of one frame. *)

LEMMA Smallest ==
  ASSUME NEW S \in SUBSET Nat, S # {}
  PROVE  \E m \in S : \A n \in S : m <= n
<1>1. \E m \in S : \A n \in S : ~ (<<n, m>> \in OpToRel(<, Nat))
  BY WFMin, NatLessThanWellFounded, Zenon
<1>2. PICK m \in S : \A n \in S : ~ (<<n, m>> \in OpToRel(<, Nat))
  BY <1>1
<1>3. ASSUME NEW n \in S PROVE m <= n
  <2>1. ~ (<<n, m>> \in OpToRel(<, Nat))
    BY <1>2, Zenon
  <2>2. n \in Nat /\ m \in Nat
    BY <1>2
  <2> QED BY <2>1, <2>2 DEF OpToRel
<1> QED BY <1>3

(* The position of the first zero is one. *)
LEMMA ZeroAfterIs ==
  ASSUME NEW p \in Seq(Byte), NEW k \in 0..Len(p)
  PROVE  /\ ZeroAfter(p, k) \in k + 1 .. Len(p) + 1
         /\ ZeroAfter(p, k) = Len(p) + 1 \/ p[ZeroAfter(p, k)] = 0
         /\ \A j \in k + 1 .. ZeroAfter(p, k) - 1 : p[j] # 0
<1> DEFINE Z == {z \in k + 1 .. Len(p) + 1 : z = Len(p) + 1 \/ p[z] = 0}
<1>1. Len(p) + 1 \in Z /\ Z \in SUBSET Nat
  OBVIOUS
<1>2. PICK z \in Z : \A n \in Z : z <= n
  BY <1>1, Smallest, Zenon
<1>3. ASSUME NEW j \in k + 1 .. z - 1 PROVE p[j] # 0
  <2>1. j \notin Z
    BY <1>2, <1>1
  <2> QED BY <2>1, <1>1, <1>2
<1>4. \E y \in k + 1 .. Len(p) + 1 :
        /\ y = Len(p) + 1 \/ p[y] = 0
        /\ \A j \in k + 1 .. y - 1 : p[j] # 0
  BY <1>2, <1>3
<1> QED BY <1>4, Zenon DEF ZeroAfter

(* A code fits in a byte, and only that of a header can be 0. *)
LEMMA CodeIs ==
  ASSUME NEW p \in Seq(Byte), NEW k \in 0..Len(p), Len(p) < ByteMod
  PROVE  /\ Code(p, k) \in Byte
         /\ k >= 1 => Code(p, k) # 0
         /\ Code(p, k) = 1 <=> ZeroAfter(p, k) = k + 1
<1>1. ZeroAfter(p, k) - k \in 1..ByteMod /\ (k >= 1 => ZeroAfter(p, k) - k < ByteMod)
  BY ZeroAfterIs, AbfAssumption
<1>2. ByteMod \in Nat /\ ByteMod >= 2
  BY AbfAssumption
<1> DEFINE x == ZeroAfter(p, k) - k
<1>x. x \in 1..ByteMod
  BY <1>1
<1>4. Code(p, k) = x % ByteMod
  BY DEF Code
<1>5. ZeroAfter(p, k) = k + x /\ (k >= 1 => x < ByteMod)
  BY <1>1, ZeroAfterIs
<1> HIDE DEF x
<1>3. /\ x % ByteMod \in 0..ByteMod - 1
      /\ x < ByteMod => x % ByteMod = x
      /\ x = ByteMod => x % ByteMod = 0
  BY <1>x, <1>2
<1>6. Code(p, k) = 1 <=> x = 1
  BY <1>x, <1>2, <1>3, <1>4
<1> QED BY <1>x, <1>2, <1>3, <1>4, <1>5, <1>6 DEF Byte

(* One byte on, the distance to the next zero is one less. *)
LEMMA CodeStep ==
  ASSUME NEW p \in Seq(Byte), NEW r \in 0..Len(p) - 1, Len(p) < ByteMod
  PROVE  /\ Code(p, r) = 1 <=> p[r + 1] = 0
         /\ p[r + 1] # 0 => (Code(p, r) - 1) % ByteMod = Code(p, r + 1)
<1> DEFINE z == ZeroAfter(p, r)  y == ZeroAfter(p, r + 1)
<1>1. /\ z \in r + 1 .. Len(p) + 1 /\ (z = Len(p) + 1 \/ p[z] = 0)
      /\ \A j \in r + 1 .. z - 1 : p[j] # 0
  BY ZeroAfterIs
<1>2. /\ y \in r + 2 .. Len(p) + 1 /\ (y = Len(p) + 1 \/ p[y] = 0)
      /\ \A j \in r + 2 .. y - 1 : p[j] # 0
  <2>1. r + 1 \in 0..Len(p) /\ (r + 1) + 1 = r + 2
    OBVIOUS
  <2> QED BY <2>1, ZeroAfterIs
<1> HIDE DEF z, y
<1>3. z = r + 1 <=> p[r + 1] = 0
  BY <1>1
<1>4. Code(p, r) = 1 <=> z = r + 1
  BY CodeIs DEF z
<1>5. ASSUME p[r + 1] # 0 PROVE (Code(p, r) - 1) % ByteMod = Code(p, r + 1)
  <2>1. z # r + 1
    BY <1>3, <1>5
  <2>2. z = y
    BY <1>1, <1>2, <2>1, <1>5
  <2>3. Code(p, r) = (z - r) % ByteMod /\ Code(p, r + 1) = (z - r - 1) % ByteMod
    BY <2>2, <1>1 DEF Code, z, y
  <2>4. z - r \in 2..ByteMod /\ ByteMod \in Nat /\ ByteMod >= 2
    BY <1>1, <2>1, AbfAssumption
  <2> DEFINE x == z - r
  <2>5. x \in 2..ByteMod /\ x - 1 \in Int /\ x \in Int
    BY <2>4
  <2> HIDE DEF x
  <2>6. /\ x < ByteMod => x % ByteMod = x
        /\ x = ByteMod => x % ByteMod = 0
        /\ (x - 1) % ByteMod = x - 1
        /\ (0 - 1) % ByteMod = ByteMod - 1
    BY <2>4, <2>5
  <2>7. ((x % ByteMod) - 1) % ByteMod = (x - 1) % ByteMod
    <3>1. CASE x < ByteMod
      BY <3>1, <2>6
    <3>2. CASE x = ByteMod
      <4>1. (x % ByteMod) - 1 = 0 - 1
        BY <3>2, <2>6
      <4> QED BY <4>1, <3>2, <2>6
    <3> QED BY <3>1, <3>2, <2>4, <2>5
  <2> QED BY <2>3, <2>7 DEF x
<1> QED BY <1>3, <1>4, <1>5

LEMMA FrameIs ==
  ASSUME NEW f \in Frames
  PROVE  /\ f.payload \in Seq(Byte) /\ Len(f.payload) \in 1..ByteMod - 1
         /\ f.payload \in Payloads /\ f.service \in Byte \ {0}
         /\ f # NoFrame
<1>1. f.payload \in Payloads /\ f.service \in Services
  BY DEF Frames
<1>2. f.service \in Byte \ {0} /\ f.payload \in Seq(Byte) /\ Len(f.payload) \in Byte \ {0}
  BY <1>1, AbfAssumption
<1>3. Len(f.payload) \in 1..ByteMod - 1
  <2>1. ByteMod \in Nat
    BY AbfAssumption
  <2> QED BY <1>2, <2>1 DEF Byte
<1>4. NoFrame.service = 0
  BY DEF NoFrame
<1> QED BY <1>1, <1>2, <1>3, <1>4

(* The payload on the wire has no zero. *)
LEMMA EncodedPayloadIs ==
  ASSUME NEW p \in Seq(Byte), Len(p) < ByteMod
  PROVE  /\ EncodedPayload(p) \in Seq(Byte) /\ Len(EncodedPayload(p)) = Len(p)
         /\ \A k \in 1..Len(p) :
              /\ EncodedPayload(p)[k] \in Byte \ {0}
              /\ EncodedPayload(p)[k] = IF p[k] = 0 THEN Code(p, k) ELSE p[k]
<1> DEFINE e == EncodedPayload(p)
<1>1. ASSUME NEW k \in 1..Len(p)
      PROVE (IF p[k] = 0 THEN Code(p, k) ELSE p[k]) \in Byte \ {0}
  <2>1. p[k] \in Byte /\ k \in 0..Len(p) /\ k >= 1
    OBVIOUS
  <2>2. Code(p, k) \in Byte /\ Code(p, k) # 0
    BY <2>1, CodeIs
  <2> QED BY <2>1, <2>2
<1>2. e = [k \in 1..Len(p) |-> IF p[k] = 0 THEN Code(p, k) ELSE p[k]]
  BY DEF EncodedPayload
<1>3. Len(p) \in Nat
  OBVIOUS
<1>4. e \in [1..Len(p) -> Byte]
  BY <1>1, <1>2
<1>5. e \in Seq(Byte) /\ Len(e) = Len(p)
  BY <1>3, <1>4
<1> QED BY <1>1, <1>2, <1>5

LEMMA EncodedHeaderIs ==
  ASSUME NEW f \in Frames
  PROVE  LET n == Len(f.payload)
             c == Code(f.payload, 0)
             e == EncodedHeader(f)
         IN  /\ e \in Seq(Byte) /\ Len(e) = 5
             /\ e[1] = 0 /\ e[2] = f.service /\ e[3] = n /\ e[4] = c
             /\ e[5] = Crc8(f.service, n, c)
<1> DEFINE n == Len(f.payload)
           c == Code(f.payload, 0)
           v == Crc8(f.service, n, c)
<1>1. f.service \in Byte /\ n \in Byte
  BY FrameIs, AbfAssumption DEF Byte
<1>2. c \in Byte
  <2>1. f.payload \in Seq(Byte) /\ n < ByteMod /\ 0 \in 0..n
    BY FrameIs, AbfAssumption
  <2> QED BY <2>1, CodeIs
<1>3. v \in Byte
  BY <1>1, <1>2, AbfAssumption, Zenon
<1>4. 0 \in Byte
  BY AbfAssumption DEF Byte
<1>5. EncodedHeader(f) = <<0, f.service, n, c, v>>
  BY DEF EncodedHeader
<1> HIDE DEF n, c, v
<1>6. EncodedHeader(f) \in Seq(Byte) /\ Len(EncodedHeader(f)) = 5
  BY <1>1, <1>2, <1>3, <1>4, <1>5
<1>7. LET e == EncodedHeader(f) IN e[1] = 0 /\ e[2] = f.service /\ e[3] = n /\ e[4] = c /\ e[5] = v
  BY <1>5
<1> QED BY <1>6, <1>7 DEF n, c, v

(* The bytes of a frame: the sync byte, the four of the header behind it,  *)
(* and the payload, in which every zero is the distance to the next one.   *)
LEMMA WireIs ==
  ASSUME NEW f \in Frames
  PROVE  LET p == f.payload
             n == Len(p)
             c == Code(p, 0)
         IN  /\ \A k \in 0..4 + n : Wire(f, k) \in Byte
             /\ Wire(f, 0) = 0 /\ Wire(f, 1) = f.service /\ Wire(f, 2) = n
             /\ Wire(f, 3) = c /\ Wire(f, 4) = Crc8(f.service, n, c)
             /\ \A k \in 1..n :
                  /\ Wire(f, 4 + k) # 0
                  /\ Wire(f, 4 + k) = IF p[k] = 0 THEN Code(p, k) ELSE p[k]
<1> DEFINE p == f.payload
           n == Len(p)
           e == EncodedHeader(f)
           q == EncodedPayload(p)
<1>1. p \in Seq(Byte) /\ n \in 1..ByteMod - 1 /\ n < ByteMod
  BY FrameIs, AbfAssumption
<1>2. /\ q \in Seq(Byte) /\ Len(q) = n
      /\ \A k \in 1..n : /\ q[k] \in Byte \ {0}
                         /\ q[k] = IF p[k] = 0 THEN Code(p, k) ELSE p[k]
  BY <1>1, EncodedPayloadIs
<1>3. /\ e \in Seq(Byte) /\ Len(e) = 5
      /\ e[1] = 0 /\ e[2] = f.service /\ e[3] = n /\ e[4] = Code(p, 0)
      /\ e[5] = Crc8(f.service, n, Code(p, 0))
  BY EncodedHeaderIs
<1> HIDE DEF p, n, e, q
<1>4. \A k \in 0..4 : Wire(f, k) = e[k + 1]
  BY DEF Wire, e
<1>5. \A k \in 1..n : Wire(f, 4 + k) = q[k]
  <2>1. ASSUME NEW k \in 1..n PROVE Wire(f, 4 + k) = q[k]
    <3>1. ~ (4 + k < 5) /\ (4 + k) - 4 = k
      BY <1>1
    <3> QED BY <3>1 DEF Wire, q, p
  <2> QED BY <2>1
<1>6. \A k \in 0..4 + n : Wire(f, k) \in Byte
  <2>1. ASSUME NEW k \in 0..4 + n PROVE Wire(f, k) \in Byte
    <3>1. CASE k \in 0..4
      <4>1. k + 1 \in 1..5 /\ Wire(f, k) = e[k + 1]
        BY <3>1, <1>4
      <4>2. 1..Len(e) = 1..5
        BY <1>3
      <4>3. e[k + 1] \in Byte
        BY <4>1, <4>2, <1>3, ElementOfSeq, Zenon
      <4> QED BY <4>1, <4>3
    <3>2. CASE k \notin 0..4
      <4>1. k - 4 \in 1..n /\ 4 + (k - 4) = k
        BY <3>2, <1>1
      <4>2. Wire(f, 4 + (k - 4)) = q[k - 4]
        BY <4>1, <1>5
      <4> QED BY <4>1, <4>2, <1>2
    <3> QED BY <3>1, <3>2
  <2> QED BY <2>1
<1>7. Wire(f, 0) = e[1] /\ Wire(f, 1) = e[2] /\ Wire(f, 2) = e[3] /\ Wire(f, 3) = e[4] /\ Wire(f, 4) = e[5]
  BY <1>4
<1>8. \A k \in 1..n : Wire(f, 4 + k) # 0 /\ Wire(f, 4 + k) = IF p[k] = 0 THEN Code(p, k) ELSE p[k]
  BY <1>5, <1>2
<1> QED BY <1>3, <1>6, <1>7, <1>8 DEF p, n

-----------------------------------------------------------------------------
(* Types, whatever the transport refuses and where the bytes are read to. *)

LEMMA Constants ==
  /\ ByteMod \in Nat /\ ByteMod >= 2 /\ ReadMax \in Nat \ {0} /\ MaxFrames \in Nat
  /\ 0 \in Byte /\ Byte \subseteq Nat
  /\ \A c \in Capacities : c \in Nat /\ c > 0
  /\ Shared \in BOOLEAN /\ (Shared => \A c \in Capacities : c = ReadMax)
BY AbfAssumption DEF Byte

LEMMA RemainderIsByte ==
  ASSUME NEW x \in Int
  PROVE  (x - 1) % ByteMod \in Byte
<1>1. ByteMod \in Nat \ {0}
  BY Constants
<1> QED BY <1>1 DEF Byte

LEMMA TypesInit == Init => Types
<1> SUFFICES ASSUME Init PROVE Types
  OBVIOUS
<1> USE Constants DEF Init
<1>1. /\ data \in [0 .. ReadMax - 1 -> Byte] /\ rxPayload \in [0 .. capacity - 1 -> Byte]
      /\ header \in [0..4 -> Byte]
  OBVIOUS
<1>2. line \in Seq(Byte) /\ sent \in Seq(Frames) /\ due \in Seq(1..Len(sent))
  OBVIOUS
<1> QED BY <1>1, <1>2 DEF Types, TypeOK

LEMMA TypesWriteHeader ==
  ASSUME Types, NEW f \in Frames, WriteHeader(f)
  PROVE  Types'
<1> USE DEF Types, TypeOK
<1>1. line' \in Seq(Byte)
  <2>1. EncodedHeader(f) \in Seq(Byte)
    BY EncodedHeaderIs, Zenon
  <2>2. line \o EncodedHeader(f) \in Seq(Byte)
    BY <2>1, ConcatProperties, Zenon
  <2> QED BY <2>2, Zenon DEF WriteHeader
<1>2. encoded' \in 0..MaxFrames
  BY Constants DEF WriteHeader
<1>3. half' \in Frames \cup {NoFrame} /\ kept' \in BOOLEAN
  BY Zenon DEF WriteHeader
<1>4. UNCHANGED <<receiver, sent, due>>
  BY Zenon DEF WriteHeader
<1> QED BY <1>1, <1>2, <1>3, <1>4, Zenon DEF receiver

LEMMA TypesWritePayload ==
  ASSUME Types, WritePayload
  PROVE  Types'
<1> USE DEF Types, TypeOK
<1>f. half \in Frames
  BY Zenon DEF WritePayload
<1>1. line' \in Seq(Byte)
  <2>1. half.payload \in Seq(Byte) /\ Len(half.payload) < ByteMod
    BY <1>f, FrameIs, Constants
  <2>2. EncodedPayload(half.payload) \in Seq(Byte)
    BY <2>1, EncodedPayloadIs, Zenon
  <2>3. line \o EncodedPayload(half.payload) \in Seq(Byte)
    BY <2>2, ConcatProperties, Zenon
  <2> QED BY <2>3, Zenon DEF WritePayload
<1>2. sent' \in Seq(Frames) /\ due' \in Seq(1..Len(sent'))
  <2>1. CASE sent' = Append(sent, half)
    <3>1. sent' \in Seq(Frames) /\ Len(sent') = Len(sent) + 1 /\ Len(sent) \in Nat
      BY <2>1, <1>f
    <3>2. 1..Len(sent) \subseteq 1..Len(sent') /\ Len(sent') \in 1..Len(sent')
      BY <3>1
    <3>3. due \in Seq(1..Len(sent'))
      BY <3>2, SeqMonotonic, Zenon
    <3>4. Append(due, Len(sent')) \in Seq(1..Len(sent'))
      BY <3>2, <3>3, AppendProperties, Zenon
    <3>5. due' = due \/ due' = Append(due, Len(sent'))
      <4>1. sent' # sent
        BY <3>1
      <4> QED BY <4>1, Zenon DEF WritePayload
    <3> QED BY <3>1, <3>3, <3>4, <3>5, Zenon
  <2>2. CASE UNCHANGED <<sent, due>>
    BY <2>2
  <2> QED BY <2>1, <2>2, Zenon DEF WritePayload
<1>3. half' \in Frames \cup {NoFrame}
  BY Zenon DEF WritePayload
<1>4. UNCHANGED <<receiver, kept, encoded>>
  BY Zenon DEF WritePayload
<1> QED BY <1>1, <1>2, <1>3, <1>4, Zenon DEF receiver

LEMMA TypesRead ==
  ASSUME Types, NEW n \in 1..ReadMax, Read(n)
  PROVE  Types'
<1> USE DEF Types, TypeOK
<1>1. data' \in [0 .. ReadMax - 1 -> Byte]
  <2>1. ASSUME NEW k \in 0 .. ReadMax - 1
        PROVE  (IF k < n THEN line[k + 1] ELSE IF Shared THEN data[k] ELSE 0) \in Byte
    <3>1. k < n => k + 1 \in 1..Len(line)
      BY Constants DEF Read
    <3>2. k < n => line[k + 1] \in Byte
      BY <3>1, ElementOfSeq, Zenon
    <3> QED BY <3>2, Constants
  <2> QED BY <2>1, Zenon DEF Read
<1>2. rxPayload' \in [0 .. capacity - 1 -> Byte]
  <2>1. CASE Shared
    BY <1>1, <2>1, Constants DEF Read
  <2>2. CASE ~Shared
    BY <2>2 DEF Read
  <2> QED BY <2>1, <2>2
<1>3. line' \in Seq(Byte)
  BY DEF Read
<1>4. length' \in 0..ReadMax /\ i' \in 0..length'
  BY Constants DEF Read
<1>5. UNCHANGED <<sender, capacity, state, header, headerPos, rxPos, nextZero, errors>>
  BY Zenon DEF Read
<1> QED BY <1>1, <1>2, <1>3, <1>4, <1>5, Zenon DEF sender

LEMMA CurrentByte ==
  ASSUME Types, i < length
  PROVE  data[i] \in Byte /\ i + 1 \in 0..length /\ i \in 0..ReadMax - 1
BY Constants DEF Types, TypeOK

LEMMA TypesHuntSync ==
  ASSUME Types, HuntSync
  PROVE  Types'
<1> USE DEF Types, TypeOK
<1>1. i' \in 0..length'
  BY CurrentByte DEF HuntSync
<1>2. /\ header' \in [0..4 -> Byte] /\ headerPos' \in 0..5
      /\ state' \in {"HUNT_SYNC", "READ_HEADER", "READ_PAYLOAD"}
      /\ (state' = "READ_HEADER" => headerPos' \in 1..4)
  <2>1. header \in [0..4 -> Byte] /\ headerPos \in 0..5 /\ 0 \in Byte
    BY Constants
  <2>2. CASE data[i] = 0
    <3>1. /\ state' = "READ_HEADER" /\ header' = [header EXCEPT ![0] = 0]
          /\ headerPos' = 1
      BY <2>2, Zenon DEF HuntSync
    <3> HIDE DEF Types, TypeOK
    <3> QED BY <2>1, <3>1
  <2>3. CASE data[i] # 0
    <3>1. UNCHANGED <<state, header, headerPos>> /\ state = "HUNT_SYNC"
      BY <2>3, Zenon DEF HuntSync
    <3> HIDE DEF Types, TypeOK
    <3> QED BY <2>1, <3>1
  <2> QED BY <2>2, <2>3
<1>3. UNCHANGED <<sender, line, data, length, capacity, rxPayload, rxPos, nextZero, errors>>
  BY Zenon DEF HuntSync
<1> QED BY <1>1, <1>2, <1>3, Zenon DEF sender

LEMMA TypesReadHeader ==
  ASSUME Types, ReadHeader
  PROVE  Types'
<1> DEFINE b == data[i]
           matches == Crc8(header[1], header[2], header[3]) = data[i]
<1>1. i' \in 0..length' /\ b \in Byte
  BY CurrentByte DEF ReadHeader, Types, TypeOK
<1>2. /\ headerPos \in 1..4 /\ errors \in Nat /\ header \in [0..4 -> Byte]
      /\ header[3] \in Byte /\ nextZero \in Byte /\ rxPos \in 0..capacity
      /\ capacity \in Nat
  BY Constants DEF ReadHeader, Types, TypeOK
<1>3. /\ header' = [header EXCEPT ![headerPos] = b] /\ state = "READ_HEADER"
      /\ IF headerPos = 4
         THEN /\ errors' = IF matches THEN errors ELSE errors + 1
              /\ headerPos' = IF matches THEN 5 ELSE 1
              /\ nextZero' = header[3] /\ state' = "READ_PAYLOAD" /\ rxPos' = 0
         ELSE /\ headerPos' = headerPos + 1
              /\ UNCHANGED <<errors, nextZero, state, rxPos>>
  BY Zenon DEF ReadHeader
<1> HIDE DEF b, matches
<1>4. header' \in [0..4 -> Byte]
  BY <1>1, <1>2, <1>3
<1>5. /\ headerPos' \in 0..5 /\ errors' \in Nat
      /\ state' \in {"HUNT_SYNC", "READ_HEADER", "READ_PAYLOAD"}
      /\ (state' = "READ_HEADER" => headerPos' \in 1..4)
  BY <1>2, <1>3
<1>6. nextZero' \in Byte /\ rxPos' \in 0..capacity
  BY <1>2, <1>3
<1>7. UNCHANGED <<sender, line, data, length, capacity, rxPayload>>
  BY Zenon DEF ReadHeader
<1> QED BY <1>1, <1>4, <1>5, <1>6, <1>7, Zenon DEF sender, Types, TypeOK

LEMMA TypesReadPayload ==
  ASSUME Types, ReadPayload
  PROVE  Types'
<1> USE DEF Types, TypeOK
<1> DEFINE b    == data[i]
           more == rxPos < header[2]
           cut  == more /\ b = 0
           from == IF cut THEN 0 ELSE rxPos
           full == more /\ from >= capacity
           to   == IF full THEN 0 ELSE IF more THEN from + 1 ELSE from
           done == to = header[2]
           v    == IF nextZero = 1 THEN 0 ELSE b
<1>1. i' \in 0..length' /\ b \in Byte
  BY CurrentByte DEF ReadPayload
<1>2. /\ IF more /\ ~full
         THEN /\ Store(from, v)
              /\ nextZero' = IF nextZero = 1 THEN b ELSE (nextZero - 1) % ByteMod
         ELSE UNCHANGED <<rxPayload, data, nextZero>>
      /\ errors' = errors + (IF cut THEN 1 ELSE 0) + (IF full THEN 1 ELSE 0)
      /\ IF Resets(cut, full, done)
         THEN state' = "HUNT_SYNC" /\ headerPos' = 0
         ELSE UNCHANGED <<state, headerPos>>
      /\ rxPos' = IF done THEN 0 ELSE to
      /\ state = "READ_PAYLOAD"
  BY DEF ReadPayload, Reported
<1>3. UNCHANGED <<sender, line, length, capacity, header>>
  BY Zenon DEF ReadPayload
<1>4. v \in Byte
  BY <1>1, Constants
<1>5. /\ capacity \in Nat /\ capacity > 0 /\ from \in 0..capacity /\ to \in 0..capacity
      /\ (more /\ ~full => from \in 0..capacity - 1)
  BY Constants
<1> HIDE DEF b, more, cut, from, full, to, done, v
<1>6. nextZero' \in Byte
  <2>1. (nextZero - 1) % ByteMod \in Byte
    <3>1. nextZero \in Int
      BY Constants
    <3> QED BY <3>1, RemainderIsByte
  <2> QED BY <1>1, <1>2, <2>1, Zenon
<1>7. rxPayload' \in [0 .. capacity - 1 -> Byte] /\ data' \in [0 .. ReadMax - 1 -> Byte]
  <2>1. CASE more /\ ~full
    <3>1. rxPayload' = [rxPayload EXCEPT ![from] = v]
      BY <1>2, <2>1, Zenon DEF Store
    <3>2. rxPayload' \in [0 .. capacity - 1 -> Byte]
      BY <3>1, <1>4
    <3>3. data' = data \/ data' = [data EXCEPT ![from] = v]
      BY <1>2, <2>1, Zenon DEF Store
    <3>4. data' \in [0 .. ReadMax - 1 -> Byte]
      BY <3>3, <1>4
    <3> QED BY <3>2, <3>4
  <2>2. CASE ~(more /\ ~full)
    BY <1>2, <2>2, Zenon
  <2> QED BY <2>1, <2>2
<1>8. errors' \in Nat /\ rxPos' \in 0..capacity
  BY <1>2, <1>5
<1>9. /\ headerPos' \in 0..5
      /\ state' \in {"HUNT_SYNC", "READ_HEADER", "READ_PAYLOAD"}
      /\ (state' = "READ_HEADER" => headerPos' \in 1..4)
  BY <1>2
<1> QED BY <1>1, <1>3, <1>6, <1>7, <1>8, <1>9, Zenon DEF sender

(* Types hold in every state, whatever the transport refuses and also when *)
(* the bytes are read into the payload buffer itself (process).            *)
THEOREM TypeCorrect == Spec => []TypeOK
<1>1. ASSUME Types, [Next]_vars PROVE Types'
  <2>1. CASE UNCHANGED vars
    BY <1>1, <2>1, Zenon DEF Types, TypeOK, vars, sender, receiver
  <2>2. ASSUME NEW f \in Frames, WriteHeader(f) PROVE Types'
    BY <1>1, <2>2, TypesWriteHeader
  <2>3. CASE WritePayload
    BY <1>1, <2>3, TypesWritePayload
  <2>4. ASSUME NEW n \in 1..ReadMax, Read(n) PROVE Types'
    BY <1>1, <2>4, TypesRead
  <2>5. CASE HuntSync
    BY <1>1, <2>5, TypesHuntSync
  <2>6. CASE ReadHeader
    BY <1>1, <2>6, TypesReadHeader
  <2>7. CASE ReadPayload
    BY <1>1, <2>7, TypesReadPayload
  <2> QED BY <1>1, <2>1, <2>2, <2>3, <2>4, <2>5, <2>6, <2>7, Zenon DEF Next
<1>2. Types => TypeOK
  BY DEF Types
<1> QED BY TypesInit, <1>1, <1>2, PTL DEF Spec

-----------------------------------------------------------------------------
(* The bytes that are left, and the frames laid out in them. *)

LEMMA Numbers ==
  ASSUME Types, InTurn
  PROVE  /\ Len(sent) \in Nat /\ Len(delivered) \in Nat /\ errors \in Nat
         /\ Handled \in Nat /\ Begun \in Nat /\ Handled <= Len(sent)
         /\ Len(sent) <= Begun /\ Begun <= Len(sent) + 1
         /\ i \in Nat /\ length \in Nat /\ Len(line) \in Nat /\ i <= length /\ Left \in Nat
         /\ Handled = Len(delivered) + errors
<1>1. Len(sent) \in Nat /\ Len(delivered) \in Nat /\ errors \in Nat /\ Len(line) \in Nat
  BY DEF Types, TypeOK, InTurn
<1>2. length \in Nat /\ i \in Nat /\ i <= length
  BY Constants DEF Types, TypeOK
<1> QED BY <1>1, <1>2 DEF Handled, Begun, Left, InTurn

(* Every open frame is one of Frames, sent or half written. *)
LEMMA OpenFrames ==
  ASSUME Types, InTurn, NEW j \in 1..Begun
  PROVE  /\ Frame(j) \in Frames /\ Size(j) \in Nat /\ Size(j) >= 5
         /\ j <= Len(sent) => Frame(j) = sent[j] /\ Size(j) = 5 + Len(Frame(j).payload)
         /\ j > Len(sent) => HalfWritten /\ j = Begun /\ Size(j) = 5
<1>n. Len(sent) \in Nat /\ Begun \in Nat
  BY Numbers
<1>1. CASE j <= Len(sent)
  <2>1. Frame(j) = sent[j] /\ Size(j) = 5 + Len(Frame(j).payload)
    BY <1>1 DEF Frame, Size
  <2>2. sent[j] \in Frames
    BY <1>1, <1>n DEF Types, TypeOK
  <2>3. Len(Frame(j).payload) \in Nat
    BY <2>1, <2>2, FrameIs
  <2> QED BY <1>1, <1>n, <2>1, <2>2, <2>3
<1>2. CASE j > Len(sent)
  <2>1. HalfWritten /\ j = Begun /\ Begun = Len(sent) + 1
    BY <1>2, <1>n DEF Begun
  <2>2. Frame(j) = half /\ Size(j) = 5
    BY <1>2, <1>n DEF Frame, Size
  <2>3. half \in Frames
    BY <2>1 DEF HalfWritten, Types, TypeOK
  <2> QED BY <1>2, <1>n, <2>1, <2>2, <2>3
<1> QED BY <1>1, <1>2, <1>n

(* One byte on, byte 1 is gone and the others are one nearer. *)
ByteTaken ==
  /\ i < length
  /\ i' = i + 1
  /\ UNCHANGED <<data, length, line>>

LEMMA OneByteOn ==
  ASSUME Types, ByteTaken
  PROVE  /\ Left \in Nat /\ Left >= 1 /\ Left' = Left - 1
         /\ At(1) = data[i]
         /\ \A x \in 2..Left : At(x - 1)' = At(x)
<1>1. i \in Nat /\ length \in Nat /\ Len(line) \in Nat /\ i < length
  BY Constants DEF Types, TypeOK, ByteTaken
<1>2. Left \in Nat /\ Left >= 1 /\ Left' = Left - 1
  BY <1>1 DEF Left, ByteTaken
<1>3. At(1) = data[i]
  <2>1. 1 <= length - i /\ i + 1 - 1 = i
    BY <1>1
  <2> QED BY <2>1 DEF At
<1>4. ASSUME NEW x \in 2..Left PROVE At(x - 1)' = At(x)
  <2>1. At(x - 1)' = IF x - 1 <= length - (i + 1) THEN data[i + 1 + (x - 1) - 1]
                     ELSE line[x - 1 - (length - (i + 1))]
    BY DEF At, ByteTaken
  <2>2. /\ x - 1 <= length - (i + 1) <=> x <= length - i
        /\ i + 1 + (x - 1) - 1 = i + x - 1
        /\ x - 1 - (length - (i + 1)) = x - (length - i)
    BY <1>1
  <2> QED BY <2>1, <2>2 DEF At
<1> QED BY <1>2, <1>3, <1>4

Shifted(start) == [j \in Nat |-> start[j] - 1]

(* The frames move one nearer, whether the first of them is still open or  *)
(* is closed with no zero left in it.                                      *)
LEMMA LayoutShifts ==
  ASSUME Types, InTurn, ByteTaken, UNCHANGED sender,
         NEW start \in [Nat -> Int], LaidOut(start),
         \/ Handled' = Handled
         \/ /\ Handled' = Handled + 1
            /\ \A x \in 2..Left :
                 /\ start[Handled + 1] <= x
                 /\ x < start[Handled + 1] + Size(Handled + 1)
                 => At(x) # 0
  PROVE  /\ LaidOut(Shifted(start))'
         /\ Open' \subseteq Open
         /\ \A j \in Nat : Frame(j)' = Frame(j) /\ Size(j)' = Size(j)
         /\ Begun' = Begun
<1> DEFINE s == Shifted(start)
<1>n. Handled \in Nat /\ Begun \in Nat /\ Left \in Nat
  BY Numbers
<1>1. /\ Left >= 1 /\ Left' = Left - 1
      /\ \A x \in 2..Left : At(x - 1)' = At(x)
  BY OneByteOn
<1>2. /\ \A j \in Nat : Frame(j)' = Frame(j) /\ Size(j)' = Size(j)
      /\ Begun' = Begun /\ (HalfWritten' <=> HalfWritten)
  BY DEF sender, Frame, Size, Begun, HalfWritten
<1>3. Open' \subseteq Open
  BY <1>n, <1>2 DEF Open
<1>4. \A j \in Open : j \in Nat /\ j \in 1..Begun /\ Size(j) \in Nat /\ Size(j) >= 5 /\ start[j] \in Int
  <2>1. ASSUME NEW j \in Open PROVE j \in Nat /\ j \in 1..Begun
    BY <1>n DEF Open
  <2> QED BY <2>1, OpenFrames
<1>5. \A j \in Nat : s[j] = start[j] - 1
  BY DEF Shifted
<1>6. s' = s
  BY DEF Shifted
<1> HIDE DEF s
<1>7. \A j \in Open' : s[j] + Size(j)' <= Left' + 1
  <2>1. ASSUME NEW j \in Open' PROVE s[j] + Size(j)' <= Left' + 1
    <3>1. j \in Open /\ start[j] + Size(j) <= Left + 1
      BY <1>3 DEF LaidOut
    <3> QED BY <3>1, <1>1, <1>2, <1>4, <1>5, <1>n
  <2> QED BY <2>1
<1>8. ASSUME NEW j \in Open', NEW k \in 0..Size(j)' - 1, s[j] + k >= 1
      PROVE  At(s[j] + k)' = Wire(Frame(j), k)'
  <2>1. j \in Open /\ k \in 0..Size(j) - 1
    BY <1>3, <1>4, <1>2
  <2>2. /\ start[j] + k \in 2..Left /\ s[j] + k = (start[j] + k) - 1
        /\ start[j] + k >= 1
    <3>1. start[j] + Size(j) <= Left + 1
      BY <2>1 DEF LaidOut
    <3> QED BY <2>1, <3>1, <1>4, <1>5, <1>8, <1>n
  <2>3. At(start[j] + k) = Wire(Frame(j), k)
    BY <2>1, <2>2 DEF LaidOut
  <2>4. At((start[j] + k) - 1)' = At(start[j] + k)
    BY <1>1, <2>2, Zenon
  <2>5. Wire(Frame(j), k)' = Wire(Frame(j), k)
    <3>1. Frame(j)' = Frame(j)
      BY <1>2, <1>4, <2>1
    <3> QED BY <3>1, Zenon DEF Wire
  <2> QED BY <2>2, <2>3, <2>4, <2>5
<1>9. HalfWritten' => s[Begun'] + 5 = Left' + 1
  <2>1. SUFFICES ASSUME HalfWritten PROVE s[Begun] + 5 = Left' + 1
    BY <1>2
  <2>2. start[Begun] + 5 = Left + 1
    BY <2>1 DEF LaidOut
  <2>3. start[Begun] \in Int
    BY <1>n
  <2> QED BY <2>2, <2>3, <1>1, <1>5, <1>n
<1>10. \A j, l \in Open' : j < l => s[j] + Size(j)' <= s[l]
  <2>1. ASSUME NEW j \in Open', NEW l \in Open', j < l PROVE s[j] + Size(j)' <= s[l]
    <3>1. j \in Open /\ l \in Open /\ start[j] + Size(j) <= start[l]
      BY <1>3, <2>1 DEF LaidOut
    <3> QED BY <3>1, <1>2, <1>4, <1>5
  <2> QED BY <2>1
<1>11. ASSUME NEW y \in 1..Left', At(y)' = 0
       PROVE  \E j \in Open' : s[j] <= y /\ y < s[j] + Size(j)'
  <2> DEFINE x == y + 1
  <2>1. x \in 2..Left /\ x \in 1..Left /\ x - 1 = y
    BY <1>1, <1>n
  <2>2. At(x) = 0
    <3>1. At(x - 1)' = At(x)
      BY <1>1, <2>1, Zenon
    <3>2. At(x - 1)' = At(y)'
      BY <2>1
    <3> QED BY <3>1, <3>2, <1>11
  <2>3. PICK j \in Open : start[j] <= x /\ x < start[j] + Size(j)
    BY <2>1, <2>2 DEF LaidOut
  <2>4. j \in Open'
    <3>1. CASE Handled' = Handled
      BY <3>1, <1>2 DEF Open
    <3>2. CASE Handled' = Handled + 1 /\ j # Handled + 1
      BY <3>2, <1>2, <1>n DEF Open
    <3>3. CASE Handled' = Handled + 1 /\ j = Handled + 1
      <4>1. At(x) # 0
        BY <3>3, <2>1, <2>3, <1>n
      <4> QED BY <4>1, <2>2
    <3> QED BY <3>1, <3>2, <3>3
  <2>5. s[j] <= y /\ y < s[j] + Size(j)'
    BY <2>1, <2>3, <1>2, <1>4, <1>5
  <2> QED BY <2>4, <2>5
<1> QED BY <1>2, <1>3, <1>6, <1>7, <1>8, <1>9, <1>10, <1>11 DEF LaidOut, s

-----------------------------------------------------------------------------
(* The receiver's steps. *)

LEMMA DueKept ==
  ASSUME DueListed, UNCHANGED <<sender, capacity>>
  PROVE  DueListed'
BY DEF DueListed, Fits, sender

LEMMA TurnKept ==
  ASSUME InTurn, UNCHANGED <<sender, delivered, errors>>
  PROVE  InTurn' /\ Handled' = Handled
BY DEF InTurn, DeliveredInOrder, Handled, sender

LEMMA StepHuntSync ==
  ASSUME IInv, HuntSync
  PROVE  IInv'
<1>1. Types /\ InTurn /\ DueListed /\ Types'
  BY TypesHuntSync DEF IInv
<1>2. ByteTaken /\ UNCHANGED <<sender, capacity, delivered, errors>> /\ state = "HUNT_SYNC"
  BY DEF HuntSync, ByteTaken
<1>3. DueListed' /\ InTurn' /\ Handled' = Handled
  BY <1>1, <1>2, DueKept, TurnKept
<1>4. PICK start \in [Nat -> Int] : LaidOut(start) /\ Decoding(start)
  BY DEF IInv
<1>5. /\ LaidOut(Shifted(start))' /\ Open' \subseteq Open
      /\ \A j \in Nat : Frame(j)' = Frame(j)
      /\ Begun' = Begun
  BY <1>1, <1>2, <1>3, <1>4, LayoutShifts
<1>n. Handled \in Nat /\ Begun \in Nat
  BY <1>1, Numbers
<1>6. \A j \in Open : j \in Nat /\ j \in 1..Begun /\ start[j] \in Int /\ start[j] >= 1
  BY <1>2, <1>4, <1>n DEF Decoding, Open
<1>7. /\ \A j \in Open : Frame(j) \in Frames /\ Size(j) \in Nat /\ Size(j) >= 5
  BY <1>1, <1>6, OpenFrames
<1>8. Left \in Nat /\ Left >= 1 /\ At(1) = data[i]
  BY <1>1, <1>2, OneByteOn
<1>9. Shifted(start) \in [Nat -> Int]
  BY DEF Shifted
<1>10. Decoding(Shifted(start))'
  <2>1. CASE data[i] = 0
    <3>1. PICK j \in Open : start[j] <= 1 /\ 1 < start[j] + Size(j)
      BY <2>1, <1>4, <1>8 DEF LaidOut
    <3>2. j = Handled + 1
      <4>1. SUFFICES ASSUME j # Handled + 1 PROVE FALSE
        OBVIOUS
      <4>2. Handled + 1 \in Open /\ Handled + 1 < j
        BY <4>1, <1>n DEF Open
      <4>3. start[Handled + 1] + Size(Handled + 1) <= start[j]
        BY <4>2, <1>4 DEF LaidOut
      <4> QED BY <4>2, <4>3, <3>1, <1>6, <1>7
    <3>3. start[Handled + 1] = 1 /\ Handled < Begun /\ Frame(Handled + 1) \in Frames
      BY <3>1, <3>2, <1>6, <1>7, <1>n
    <3>4. state' = "READ_HEADER" /\ header' = [header EXCEPT ![0] = 0] /\ headerPos' = 1
      BY <2>1 DEF HuntSync
    <3>5. ASSUME NEW l \in Open', l = (Handled + 1)'
          PROVE  HeaderRead(l, headerPos)' /\ Shifted(start)[l] = 1 - headerPos'
      <4>1. l = Handled + 1 /\ l \in Nat /\ Frame(l)' = Frame(l)
        BY <3>5, <1>3, <1>5, <1>n
      <4>2. Shifted(start)[l] = 1 - headerPos'
        BY <3>3, <3>4, <4>1 DEF Shifted
      <4>3. header'[0] = Wire(Frame(l), 0)
        <5>1. Wire(Frame(l), 0) = 0
          BY <3>3, <4>1, WireIs
        <5>2. header'[0] = 0
          BY <3>4, <1>1 DEF Types, TypeOK
        <5> QED BY <5>1, <5>2
      <4>4. Wire(Frame(l), 0)' = Wire(Frame(l), 0)
        BY <4>1, Zenon DEF Wire
      <4>5. HeaderRead(l, headerPos)'
        <5>1. \A k \in 0..headerPos' - 1 : k = 0
          BY <3>4
        <5> QED BY <5>1, <4>3, <4>4 DEF HeaderRead
      <4> QED BY <4>2, <4>5
    <3>6. Shifted(start)' = Shifted(start)
      BY DEF Shifted
    <3>7. Handled' < Begun'
      BY <3>3, <1>3, <1>5
    <3> QED BY <3>4, <3>5, <3>6, <3>7 DEF Decoding
  <2>2. CASE data[i] # 0
    <3>1. ASSUME NEW j \in Open PROVE start[j] >= 2
      <4>1. SUFFICES ASSUME start[j] = 1 PROVE FALSE
        BY <1>6
      <4>2. 0 \in 0..Size(j) - 1 /\ start[j] + 0 = 1
        BY <4>1, <1>7
      <4>3. At(1) = Wire(Frame(j), 0)
        BY <4>2, <1>4 DEF LaidOut
      <4>4. Wire(Frame(j), 0) = 0
        BY <1>7, WireIs
      <4> QED BY <4>3, <4>4, <1>8, <2>2
    <3>2. \A j \in Open' : Shifted(start)[j] >= 1
      BY <3>1, <1>5, <1>6 DEF Shifted
    <3>3. state' = "HUNT_SYNC"
      BY <2>2, <1>2 DEF HuntSync
    <3>4. Shifted(start)' = Shifted(start)
      BY DEF Shifted
    <3> QED BY <3>2, <3>3, <3>4 DEF Decoding
  <2> QED BY <2>1, <2>2
<1> QED BY <1>1, <1>3, <1>5, <1>9, <1>10, Zenon DEF IInv

LEMMA StepReadHeader ==
  ASSUME IInv, ReadHeader
  PROVE  IInv'
<1>1. Types /\ InTurn /\ DueListed /\ Types'
  BY TypesReadHeader DEF IInv
<1>2. ByteTaken /\ UNCHANGED <<sender, capacity, delivered>> /\ state = "READ_HEADER"
  BY DEF ReadHeader, ByteTaken
<1>n. Handled \in Nat /\ Begun \in Nat
  BY <1>1, Numbers
<1>3. PICK start \in [Nat -> Int] : LaidOut(start) /\ Decoding(start)
  BY DEF IInv
<1> DEFINE h == Handled + 1
<1>4. h \in Open /\ h \in Nat /\ h \in 1..Begun
  BY <1>2, <1>3, <1>n DEF Decoding, Open
<1>5. HeaderRead(h, headerPos) /\ start[h] = 1 - headerPos
  BY <1>2, <1>3, <1>4 DEF Decoding
<1> DEFINE f == Frame(h)
<1>6. f \in Frames /\ Size(h) \in Nat /\ Size(h) >= 5
  BY <1>1, <1>4, OpenFrames
<1>7. headerPos \in 1..4 /\ header \in [0..4 -> Byte]
  BY <1>1, <1>2 DEF Types, TypeOK
<1>8. data[i] = Wire(f, headerPos)
  <2>1. headerPos \in 0..Size(h) - 1 /\ start[h] + headerPos = 1
    BY <1>5, <1>6, <1>7
  <2>2. At(start[h] + headerPos) = Wire(f, headerPos)
    BY <2>1, <1>3, <1>4 DEF LaidOut
  <2>3. At(1) = data[i]
    BY <1>1, <1>2, OneByteOn
  <2> QED BY <2>1, <2>2, <2>3
<1>9. header' = [header EXCEPT ![headerPos] = data[i]]
  BY DEF ReadHeader
<1>10. \A k \in 0..headerPos : header'[k] = Wire(f, k)
  <2>1. ASSUME NEW k \in 0..headerPos PROVE header'[k] = Wire(f, k)
    <3>1. CASE k = headerPos
      BY <3>1, <1>7, <1>8, <1>9
    <3>2. CASE k # headerPos
      <4>1. k \in 0..headerPos - 1 /\ k \in 0..4
        BY <3>2, <1>7
      <4>2. header[k] = Wire(f, k)
        BY <4>1, <1>5 DEF HeaderRead
      <4> QED BY <3>2, <4>1, <4>2, <1>7, <1>9
    <3> QED BY <3>1, <3>2
  <2> QED BY <2>1
<1>11. ASSUME headerPos = 4
       PROVE  /\ errors' = errors /\ nextZero' = Code(f.payload, 0)
              /\ state' = "READ_PAYLOAD" /\ rxPos' = 0
  <2>1. header'[1] = header[1] /\ header'[2] = header[2] /\ header'[3] = header[3]
    BY <1>7, <1>9, <1>11
  <2>2. header[1] = Wire(f, 1) /\ header[2] = Wire(f, 2) /\ header[3] = Wire(f, 3)
    BY <2>1, <1>10, <1>11
  <2>3. /\ Wire(f, 1) = f.service /\ Wire(f, 2) = Len(f.payload)
        /\ Wire(f, 3) = Code(f.payload, 0)
        /\ Wire(f, 4) = Crc8(f.service, Len(f.payload), Code(f.payload, 0))
    BY <1>6, WireIs
  <2>4. Crc8(header[1], header[2], header[3]) = data[i]
    BY <2>2, <2>3, <1>8, <1>11
  <2> QED BY <2>2, <2>3, <2>4, <1>11 DEF ReadHeader
<1>12. ASSUME headerPos # 4
       PROVE  /\ errors' = errors /\ headerPos' = headerPos + 1
              /\ state' = "READ_HEADER"
  BY <1>2, <1>12, Zenon DEF ReadHeader
<1>13. DueListed' /\ InTurn' /\ Handled' = Handled
  BY <1>1, <1>2, <1>11, <1>12, DueKept, TurnKept
<1>14. /\ LaidOut(Shifted(start))' /\ Open' \subseteq Open
       /\ \A j \in Nat : Frame(j)' = Frame(j)
       /\ Begun' = Begun
  BY <1>1, <1>2, <1>3, <1>13, LayoutShifts
<1>15. Shifted(start) \in [Nat -> Int] /\ Shifted(start)' = Shifted(start)
  BY DEF Shifted
<1>16. Shifted(start)[h] = - headerPos
  BY <1>4, <1>5, <1>7 DEF Shifted
<1>17. ASSUME NEW l \in Open', l = (Handled + 1)'
       PROVE  l = h /\ Frame(l)' = f /\ \A k : Wire(Frame(l), k)' = Wire(f, k)
  <2>1. l = h /\ Frame(l)' = f
    BY <1>17, <1>4, <1>13, <1>14
  <2> QED BY <2>1, Zenon DEF Wire
<1>18. Decoding(Shifted(start))'
  <2>1. Handled' < Begun'
    BY <1>4, <1>13, <1>14, <1>n
  <2>2. CASE headerPos = 4
    <3>1. ASSUME NEW l \in Open', l = (Handled + 1)'
          PROVE  LET p == Frame(l)'.payload IN
                 /\ HeaderRead(l, 5)' /\ Shifted(start)[l] = -4 - rxPos'
                 /\ rxPos' < Len(p) /\ nextZero' = Code(p, rxPos')
                 /\ \A k \in 0..rxPos' - 1 : rxPayload'[k] = p[k + 1]
      <4>0. l = h /\ Frame(l)' = f /\ \A k : Wire(Frame(l), k)' = Wire(f, k)
        BY <1>17, <3>1
      <4>1. HeaderRead(l, 5)'
        <5>1. \A k \in 0..5 - 1 : header'[k] = Wire(f, k)
          BY <1>10, <2>2
        <5> QED BY <5>1, <4>0, Zenon DEF HeaderRead
      <4>2. Len(f.payload) \in Nat /\ Len(f.payload) >= 1
        BY <1>6, FrameIs, Constants
      <4>3. rxPos' = 0 /\ nextZero' = Code(f.payload, 0)
        BY <1>11, <2>2
      <4>4. Shifted(start)[l] = -4 - rxPos'
        BY <4>0, <4>3, <1>16, <2>2
      <4>5. \A k \in 0..rxPos' - 1 : FALSE
        BY <4>3
      <4> QED BY <4>0, <4>1, <4>2, <4>3, <4>4, <4>5
    <3>2. state' = "READ_PAYLOAD"
      BY <1>11, <2>2
    <3> QED BY <2>1, <3>1, <3>2, <1>15 DEF Decoding
  <2>3. CASE headerPos # 4
    <3>1. ASSUME NEW l \in Open', l = (Handled + 1)'
          PROVE  HeaderRead(l, headerPos)' /\ Shifted(start)[l] = 1 - headerPos'
      <4>1. headerPos' = headerPos + 1 /\ headerPos' \in Nat
        BY <1>12, <1>7, <2>3
      <4>2. l = h /\ \A k : Wire(Frame(l), k)' = Wire(f, k)
        BY <1>17, <3>1
      <4>3. \A k \in 0..headerPos' - 1 : header'[k] = Wire(Frame(l), k)'
        BY <4>1, <4>2, <1>10, <1>7
      <4> QED BY <4>1, <4>2, <4>3, <1>16, <1>7 DEF HeaderRead
    <3>2. state' = "READ_HEADER"
      BY <1>12, <2>3
    <3> QED BY <2>1, <3>1, <3>2, <1>15 DEF Decoding
  <2> QED BY <2>2, <2>3
<1> QED BY <1>1, <1>13, <1>14, <1>15, <1>18, Zenon DEF IInv

(* A byte of the payload, while the frames are laid out: it is the next    *)
(* one of the frame in turn, which was sent.                               *)
LEMMA PayloadByte ==
  ASSUME IInv, ReadPayload, NEW start \in [Nat -> Int], LaidOut(start), Decoding(start),
         NEW h, h = Handled + 1
  PROVE  LET p == sent[h].payload IN
         /\ h \in Open /\ h \in 1..Len(sent) /\ Frame(h) = sent[h] /\ Size(h) = 5 + Len(p)
         /\ sent[h] \in Frames /\ start[h] = -4 - rxPos
         /\ header[1] = sent[h].service /\ header[2] = Len(p)
         /\ rxPos \in 0..Len(p) - 1
         /\ HeaderRead(h, 5)
         /\ nextZero = Code(p, rxPos)
         /\ \A k \in 0..rxPos - 1 : rxPayload[k] = p[k + 1]
         /\ data[i] # 0
         /\ data[i] = IF p[rxPos + 1] = 0 THEN Code(p, rxPos + 1) ELSE p[rxPos + 1]
<1>1. Types /\ InTurn
  BY DEF IInv
<1>2. i < length /\ state = "READ_PAYLOAD"
  BY DEF ReadPayload
<1>n. Handled \in Nat /\ Begun \in Nat /\ Len(sent) \in Nat /\ Left \in Nat
  BY <1>1, Numbers
<1>3. h \in Open /\ h \in Nat /\ h \in 1..Begun
  BY <1>2, <1>n DEF Decoding, Open
<1> DEFINE f == Frame(h)
           p == f.payload
<1>4. /\ HeaderRead(h, 5) /\ start[h] = -4 - rxPos /\ rxPos < Len(p)
      /\ nextZero = Code(p, rxPos) /\ \A k \in 0..rxPos - 1 : rxPayload[k] = p[k + 1]
  BY <1>2, <1>3 DEF Decoding
<1>5. f \in Frames
  BY <1>1, <1>3, OpenFrames
<1>6. rxPos \in Nat /\ Len(p) \in Nat /\ rxPos \in 0..Len(p) - 1
  <2>1. rxPos \in Nat
    BY <1>1, Constants DEF Types, TypeOK
  <2>2. Len(p) \in Nat
    BY <1>5, FrameIs
  <2> QED BY <2>1, <2>2, <1>4
<1>7. Left >= 1 /\ At(1) = data[i]
  <2>1. i \in Nat /\ length \in Nat /\ Len(line) \in Nat
    BY <1>1, Numbers
  <2>2. 1 <= length - i /\ i + 1 - 1 = i
    BY <2>1, <1>2
  <2> QED BY <2>1, <2>2 DEF At, Left
<1>8. h <= Len(sent)
  <2>1. SUFFICES ASSUME h > Len(sent) PROVE FALSE
    BY <1>3, <1>n
  <2>2. HalfWritten /\ h = Begun
    BY <2>1, <1>1, <1>3, OpenFrames
  <2>3. start[h] + 5 = Left + 1
    BY <2>2 DEF LaidOut
  <2> QED BY <2>3, <1>4, <1>6, <1>7, <1>n
<1>9. f = sent[h] /\ Size(h) = 5 + Len(p)
  BY <1>1, <1>3, <1>8, OpenFrames
<1>10. data[i] = Wire(f, 4 + (rxPos + 1))
  <2>1. 4 + (rxPos + 1) \in 0..Size(h) - 1 /\ start[h] + (4 + (rxPos + 1)) = 1
    BY <1>4, <1>6, <1>9
  <2>2. At(start[h] + (4 + (rxPos + 1))) = Wire(f, 4 + (rxPos + 1))
    BY <2>1, <1>3 DEF LaidOut
  <2> QED BY <2>1, <2>2, <1>7
<1>11. /\ data[i] # 0
       /\ data[i] = IF p[rxPos + 1] = 0 THEN Code(p, rxPos + 1) ELSE p[rxPos + 1]
  <2>1. rxPos + 1 \in 1..Len(p)
    BY <1>6
  <2> QED BY <2>1, <1>5, <1>10, WireIs
<1>12. header[1] = f.service /\ header[2] = Len(p)
  <2>1. header[1] = Wire(f, 1) /\ header[2] = Wire(f, 2)
    BY <1>4 DEF HeaderRead
  <2> QED BY <2>1, <1>5, WireIs
<1>13. h \in 1..Len(sent)
  BY <1>3, <1>8, <1>n
<1> QED BY <1>3, <1>4, <1>5, <1>6, <1>9, <1>11, <1>12, <1>13, Zenon

(* What becomes of the next byte of a frame: the buffer is full and the    *)
(* frame reported, or it is stored, a zero where nextZero says so, and the *)
(* last one delivers the frame.                                            *)
LEMMA PayloadStep ==
  ASSUME Types, ReadPayload, ~Shared, NEW f \in Frames,
         header[1] = f.service, header[2] = Len(f.payload),
         rxPos \in 0..Len(f.payload) - 1, nextZero = Code(f.payload, rxPos),
         \A k \in 0..rxPos - 1 : rxPayload[k] = f.payload[k + 1],
         data[i] # 0,
         data[i] = IF f.payload[rxPos + 1] = 0 THEN Code(f.payload, rxPos + 1)
                   ELSE f.payload[rxPos + 1]
  PROVE  LET p == f.payload IN
         /\ ByteTaken /\ UNCHANGED <<sender, capacity, header>>
         /\ rxPos \in 0..capacity
         /\ rxPos = capacity =>
              /\ errors' = errors + 1 /\ delivered' = delivered /\ state' = "HUNT_SYNC"
         /\ rxPos < capacity => errors' = errors
         /\ rxPos < capacity /\ rxPos + 1 < Len(p) =>
              /\ delivered' = delivered /\ state' = "READ_PAYLOAD" /\ rxPos' = rxPos + 1
              /\ nextZero' = Code(p, rxPos + 1)
              /\ \A k \in 0..rxPos : rxPayload'[k] = p[k + 1]
         /\ rxPos < capacity /\ rxPos + 1 = Len(p) =>
              /\ delivered' = Append(delivered, f) /\ state' = "HUNT_SYNC"
<1> DEFINE p == f.payload
           n == Len(p)
           b == data[i]
<1>1. /\ f \in Frames /\ header[1] = f.service /\ header[2] = n
      /\ rxPos \in 0..n - 1 /\ nextZero = Code(p, rxPos)
      /\ \A k \in 0..rxPos - 1 : rxPayload[k] = p[k + 1]
      /\ b # 0
      /\ b = IF p[rxPos + 1] = 0 THEN Code(p, rxPos + 1) ELSE p[rxPos + 1]
  OBVIOUS
<1>2. p \in Seq(Byte) /\ n \in Nat /\ n >= 1 /\ n < ByteMod
  <2>1. p \in Seq(Byte) /\ n \in 1..ByteMod - 1
    BY <1>1, FrameIs, Zenon
  <2>2. ByteMod \in Nat
    BY Constants
  <2> QED BY <2>1, <2>2
<1>3. /\ capacity \in Nat /\ capacity > 0 /\ rxPos \in 0..capacity
      /\ rxPayload \in [0 .. capacity - 1 -> Byte] /\ rxPos \in Nat /\ errors \in Nat
  BY Constants DEF Types, TypeOK
<1> DEFINE full == rxPos >= capacity
           to   == IF full THEN 0 ELSE rxPos + 1
           v    == IF nextZero = 1 THEN 0 ELSE b
           frame == [service |-> header[1],
                     payload |-> [k \in 1 .. header[2] |-> rxPayload'[k - 1]]]
<1> HIDE DEF p, n
<1>4. rxPos < header[2] /\ ~(rxPos < header[2] /\ b = 0)
  <2>1. rxPos \in 0..n - 1 /\ n \in Nat
    BY <1>1, <1>2, Zenon
  <2>2. rxPos < n
    BY <2>1
  <2> QED BY <1>1, <2>2, Zenon
<1>5. /\ IF ~full
         THEN /\ Store(rxPos, v)
              /\ nextZero' = IF nextZero = 1 THEN b ELSE (nextZero - 1) % ByteMod
         ELSE UNCHANGED <<rxPayload, data, nextZero>>
      /\ errors' = errors + 0 + (IF full THEN 1 ELSE 0)
      /\ IF full \/ to = n
         THEN state' = "HUNT_SYNC" /\ headerPos' = 0
         ELSE UNCHANGED <<state, headerPos>>
      /\ rxPos' = IF to = n THEN 0 ELSE to
      /\ delivered' = IF to = n THEN Append(delivered, frame) ELSE delivered
      /\ state = "READ_PAYLOAD"
  BY <1>1, <1>4, Zenon DEF ReadPayload, Resets, Reported
<1>6. i < length /\ i' = i + 1 /\ UNCHANGED <<sender, line, length, capacity, header>>
  BY Zenon DEF ReadPayload
<1> HIDE DEF full, to, v, frame
<1>7. data' = data
  BY <1>5, Zenon DEF Store
<1>8. ByteTaken /\ UNCHANGED <<sender, capacity, header>>
  BY <1>6, <1>7 DEF ByteTaken
<1>9. CASE rxPos = capacity
  <2>1. full /\ to = 0 /\ to # n
    BY <1>9, <1>2, <1>3 DEF full, to
  <2>2. errors' = errors + 1 /\ delivered' = delivered /\ state' = "HUNT_SYNC"
    BY <2>1, <1>3, <1>5
  <2>3. ~(rxPos < capacity)
    BY <1>9, <1>3
  <2> QED BY <1>3, <1>8, <2>2, <2>3 DEF p, n
<1>10. CASE rxPos < capacity
  <2>1. ~full /\ to = rxPos + 1
    BY <1>10, <1>3 DEF full, to
  <2>2. errors' = errors /\ rxPos # capacity
    BY <2>1, <1>3, <1>5, <1>10
  <2>3. p[rxPos + 1] \in Byte /\ rxPos \in 0..Len(p) - 1
    BY <1>1, <1>2 DEF n
  <2>4. /\ Code(p, rxPos) = 1 <=> p[rxPos + 1] = 0
        /\ p[rxPos + 1] # 0 => (Code(p, rxPos) - 1) % ByteMod = Code(p, rxPos + 1)
    BY <2>3, <1>2, CodeStep DEF n
  <2>5. v = p[rxPos + 1] /\ nextZero' = Code(p, rxPos + 1)
    <3>1. nextZero' = IF nextZero = 1 THEN b ELSE (nextZero - 1) % ByteMod
      BY <2>1, <1>5, Zenon
    <3>2. CASE p[rxPos + 1] = 0
      BY <3>1, <3>2, <2>4, <1>1, Zenon DEF v
    <3>3. CASE p[rxPos + 1] # 0
      BY <3>1, <3>3, <2>4, <1>1, Zenon DEF v
    <3> QED BY <3>2, <3>3
  <2>6. rxPayload' = [rxPayload EXCEPT ![rxPos] = v]
    BY <2>1, <1>5, Zenon DEF Store
  <2>7. \A k \in 0..rxPos : rxPayload'[k] = p[k + 1]
    <3>1. ASSUME NEW k \in 0..rxPos PROVE rxPayload'[k] = p[k + 1]
      <4>1. CASE k = rxPos
        BY <4>1, <2>5, <2>6, <1>3, <1>10
      <4>2. CASE k # rxPos
        <5>1. k \in 0..rxPos - 1 /\ k \in 0..capacity - 1
          BY <4>2, <1>3, <1>10
        <5> QED BY <5>1, <4>2, <2>6, <1>1, <1>3
      <4> QED BY <4>1, <4>2
    <3> QED BY <3>1
  <2>8. CASE rxPos + 1 < n
    <3>1. to # n /\ rxPos + 1 # n
      BY <2>8, <2>1, <1>3, <1>2
    <3>2. delivered' = delivered /\ state' = "READ_PAYLOAD" /\ rxPos' = rxPos + 1
      BY <3>1, <2>1, <1>5, Zenon
    <3> QED BY <3>1, <3>2, <2>2, <2>5, <2>7, <1>3, <1>8, Zenon DEF p, n
  <2>9. CASE rxPos + 1 = n
    <3>1. to = n /\ ~(rxPos + 1 < n)
      BY <2>9, <2>1, <1>2
    <3>2. delivered' = Append(delivered, frame) /\ state' = "HUNT_SYNC"
      BY <3>1, <1>5, Zenon
    <3>3. frame = f
      <4>1. \A k \in 1..n : rxPayload'[k - 1] = p[k]
        <5>1. ASSUME NEW k \in 1..n PROVE rxPayload'[k - 1] = p[k]
          <6>1. k - 1 \in 0..rxPos /\ (k - 1) + 1 = k
            BY <2>9, <1>2, <1>3
          <6> QED BY <6>1, <2>7
        <5> QED BY <5>1
      <4>2. [k \in 1..n |-> rxPayload'[k - 1]] = p
        <5>1. p = [k \in 1..n |-> p[k]]
          BY <1>2 DEF n
        <5> QED BY <5>1, <4>1, Zenon
      <4>3. frame = [service |-> f.service, payload |-> p]
        BY <4>2, <1>1, Zenon DEF frame
      <4> QED BY <4>3, <1>1 DEF Frames, p
    <3> QED BY <3>1, <3>2, <3>3, <2>2, <1>3, <1>8, Zenon DEF p, n
  <2>10. rxPos + 1 < n \/ rxPos + 1 = n
    BY <1>1, <1>2
  <2> QED BY <2>8, <2>9, <2>10
<1> QED BY <1>3, <1>9, <1>10

(* The next frame of sent, if it fits, is the next of due. *)
LEMMA NextDue ==
  ASSUME Types, InTurn, DueListed, Handled < Len(sent), Fits(sent[Handled + 1])
  PROVE  Len(delivered) < Len(due) /\ due[Len(delivered) + 1] = Handled + 1
<1> DEFINE d == Len(delivered)
           h == Handled + 1
<1>1. /\ d \in Nat /\ Handled \in Nat /\ Len(sent) \in Nat /\ h \in 1..Len(sent)
      /\ Len(due) \in Nat
  <2>1. Len(due) \in Nat
    BY DEF Types, TypeOK
  <2> QED BY <2>1, Numbers
<1>2. PICK k \in 1..Len(due) : due[k] = h
  BY <1>1 DEF DueListed
<1>3. \A l \in 1..Len(due) : due[l] \in 1..Len(sent)
  BY ElementOfSeq, Zenon DEF Types, TypeOK
<1>4. k > d
  BY <1>1, <1>2 DEF InTurn
<1>5. k = d + 1
  <2>1. SUFFICES ASSUME k # d + 1 PROVE FALSE
    OBVIOUS
  <2>2. d + 1 \in 1..Len(due) /\ d + 1 < k /\ ~(d + 1 <= d)
    BY <2>1, <1>1, <1>2, <1>4
  <2>3. k - (d + 1) <= due[k] - due[d + 1]
    BY <2>2, <1>2 DEF DueListed
  <2>4. ~(due[d + 1] <= Handled)
    BY <2>2 DEF InTurn
  <2>5. due[d + 1] \in 1..Len(sent)
    BY <2>2, <1>3
  <2> HIDE DEF d
  <2> QED BY <2>2, <2>3, <2>4, <2>5, <1>1, <1>2
<1> QED BY <1>1, <1>2, <1>4, <1>5

(* The frame in turn is delivered: those delivered are still the first due. *)
LEMMA TurnDelivers ==
  ASSUME Types, InTurn, DueListed, Handled < Len(sent), Fits(sent[Handled + 1]),
         UNCHANGED sender, errors' = errors,
         delivered' = Append(delivered, sent[Handled + 1])
  PROVE  InTurn' /\ Handled' = Handled + 1
<1> DEFINE d == Len(delivered)
           h == Handled + 1
<1>1. /\ d \in Nat /\ Handled \in Nat /\ Len(sent) \in Nat /\ h \in 1..Len(sent)
      /\ errors \in Nat /\ Handled = d + errors
  <2>1. d \in Nat /\ Handled \in Nat /\ Len(sent) \in Nat /\ errors \in Nat
        /\ Handled = d + errors
    BY Numbers, Zenon
  <2> QED BY <2>1
<1>2. d < Len(due) /\ due[d + 1] = h /\ Len(due) \in Nat
  BY NextDue DEF Types, TypeOK
<1>3. sent[h] \in Frames /\ delivered \in Seq(Frames)
  BY <1>1, ElementOfSeq DEF Types, TypeOK, InTurn
<1>4. /\ delivered' \in Seq(Frames) /\ Len(delivered') = d + 1
      /\ \A k \in 1..d : delivered'[k] = delivered[k]
      /\ delivered'[d + 1] = sent[h]
  BY <1>1, <1>3
<1>5. Handled' = Handled + 1
  BY <1>1, <1>4 DEF Handled
<1>6. sent' = sent /\ due' = due
  BY DEF sender
<1>7. DeliveredInOrder'
  <2>1. ASSUME NEW k \in 1..Len(delivered') PROVE delivered'[k] = sent[due[k]]
    <3>1. CASE k = d + 1
      BY <3>1, <1>2, <1>4
    <3>2. CASE k # d + 1
      <4>1. k \in 1..d
        BY <3>2, <1>1, <1>4
      <4>2. delivered[k] = sent[due[k]]
        BY <4>1 DEF InTurn, DeliveredInOrder
      <4> QED BY <4>1, <4>2, <1>4
    <3> QED BY <3>1, <3>2
  <2>2. Len(delivered') <= Len(due)
    BY <1>1, <1>2, <1>4
  <2> QED BY <2>1, <2>2, <1>6 DEF DeliveredInOrder
<1>8. ASSUME NEW k \in 1..Len(due) PROVE k <= d + 1 <=> due[k] <= Handled + 1
  <2>1. due[k] \in 1..Len(sent)
    BY ElementOfSeq, Zenon DEF Types, TypeOK
  <2>2. k <= d <=> due[k] <= Handled
    BY DEF InTurn
  <2>3. k = d + 1 => due[k] = Handled + 1
    BY <1>2
  <2>4. d + 1 < k => k - (d + 1) <= due[k] - due[d + 1]
    <3>1. d + 1 \in 1..Len(due)
      BY <1>1, <1>2
    <3> QED BY <3>1 DEF DueListed
  <2> HIDE DEF d
  <2> QED BY <2>1, <2>2, <2>3, <2>4, <1>1, <1>2
<1>9. Handled' <= Len(sent')
  BY <1>1, <1>5, <1>6
<1> QED BY <1>4, <1>5, <1>6, <1>7, <1>8, <1>9 DEF InTurn

(* The frame in turn is too long and reported: none of due is skipped. *)
LEMMA TurnReports ==
  ASSUME Types, InTurn, DueListed, Handled < Len(sent), ~Fits(sent[Handled + 1]),
         UNCHANGED sender, errors' = errors + 1, delivered' = delivered
  PROVE  InTurn' /\ Handled' = Handled + 1
<1>1. /\ Handled \in Nat /\ Len(sent) \in Nat /\ Len(delivered) \in Nat
      /\ errors \in Nat /\ Handled = Len(delivered) + errors
  BY Numbers
<1>2. Handled' = Handled + 1
  BY <1>1 DEF Handled
<1>3. sent' = sent /\ due' = due
  BY DEF sender
<1>4. ASSUME NEW k \in 1..Len(due) PROVE k <= Len(delivered) <=> due[k] <= Handled + 1
  <2>1. due[k] \in 1..Len(sent)
    BY ElementOfSeq, Zenon DEF Types, TypeOK
  <2>2. k <= Len(delivered) <=> due[k] <= Handled
    BY DEF InTurn
  <2>3. due[k] # Handled + 1
    BY DEF DueListed
  <2> QED BY <2>1, <2>2, <2>3, <1>1
<1>5. DeliveredInOrder'
  BY <1>3 DEF DeliveredInOrder, InTurn
<1>6. Handled' <= Len(sent')
  BY <1>1, <1>2, <1>3
<1>7. delivered' \in Seq(Frames)
  BY DEF InTurn
<1> QED BY <1>2, <1>3, <1>4, <1>5, <1>6, <1>7 DEF InTurn

LEMMA StepReadPayload ==
  ASSUME IInv, ReadPayload, ~Shared
  PROVE  IInv'
<1>1. Types /\ InTurn /\ DueListed /\ Types'
  BY TypesReadPayload DEF IInv
<1>2. PICK start \in [Nat -> Int] : LaidOut(start) /\ Decoding(start)
  BY DEF IInv
<1> DEFINE h == Handled + 1
           p == sent[h].payload
           n == Len(p)
<1>m. Handled \in Nat /\ Begun \in Nat /\ Len(sent) \in Nat /\ Left \in Nat
  BY <1>1, Numbers
<1>n. Handled \in Nat /\ Begun \in Nat /\ Len(sent) \in Nat /\ Left \in Nat /\ h \in Nat
  BY <1>m
<1>3. /\ h \in Open /\ h \in 1..Len(sent) /\ Frame(h) = sent[h] /\ Size(h) = 5 + n
      /\ sent[h] \in Frames /\ start[h] = -4 - rxPos
      /\ rxPos \in 0..n - 1
      /\ HeaderRead(h, 5)
  BY <1>2, PayloadByte, Zenon
<1>4. /\ ByteTaken /\ UNCHANGED <<sender, capacity, header>>
      /\ rxPos \in 0..capacity
      /\ rxPos = capacity =>
           /\ errors' = errors + 1 /\ delivered' = delivered /\ state' = "HUNT_SYNC"
      /\ rxPos < capacity => errors' = errors
      /\ rxPos < capacity /\ rxPos + 1 < n =>
           /\ delivered' = delivered /\ state' = "READ_PAYLOAD" /\ rxPos' = rxPos + 1
           /\ nextZero' = Code(p, rxPos + 1)
           /\ \A k \in 0..rxPos : rxPayload'[k] = p[k + 1]
      /\ rxPos < capacity /\ rxPos + 1 = n =>
           /\ delivered' = Append(delivered, sent[h]) /\ state' = "HUNT_SYNC"
  <2>1. /\ header[1] = sent[h].service /\ header[2] = n /\ nextZero = Code(p, rxPos)
        /\ \A k \in 0..rxPos - 1 : rxPayload[k] = p[k + 1]
        /\ data[i] # 0
        /\ data[i] = IF p[rxPos + 1] = 0 THEN Code(p, rxPos + 1) ELSE p[rxPos + 1]
    BY <1>2, PayloadByte, Zenon
  <2> QED BY <1>1, <1>3, <2>1, PayloadStep, Zenon
<1>5. n \in Nat /\ n >= 1 /\ rxPos \in Nat /\ capacity \in Nat
  <2>1. n \in 1..ByteMod - 1
    BY <1>3, FrameIs, Zenon
  <2>2. ByteMod \in Nat /\ capacity \in Nat
    BY <1>1, Constants DEF Types, TypeOK
  <2> QED BY <2>1, <2>2, <1>3
<1>6. DueListed'
  BY <1>1, <1>4, DueKept
<1>7. Handled < Len(sent) /\ (Fits(sent[h]) <=> n <= capacity)
  BY <1>3, <1>n DEF Fits
<1>8. Shifted(start) \in [Nat -> Int] /\ Shifted(start)' = Shifted(start)
  BY DEF Shifted
<1> HIDE DEF p, n
(* Behind the frame in turn, every frame begins after its last byte. *)
<1>9. \A l \in Open : l # h => start[l] >= 1 + n - rxPos
  <2>1. ASSUME NEW l \in Open, l # h PROVE start[l] >= 1 + n - rxPos
    <3>1. h < l /\ start[l] \in Int
      BY <2>1, <1>n DEF Open
    <3>2. start[h] + Size(h) <= start[l]
      BY <3>1, <1>2, <1>3 DEF LaidOut
    <3> QED BY <3>1, <3>2, <1>3, <1>5
  <2> QED BY <2>1
(* A frame that ends, delivered or reported, leaves no zero behind. *)
<1>10. ASSUME Handled' = Handled + 1, InTurn', state' = "HUNT_SYNC"
       PROVE  IInv'
  <2>1. ASSUME NEW x \in 2..Left, start[h] <= x, x < start[h] + Size(h)
        PROVE  At(x) # 0
    <3> DEFINE k == x - start[h]
    <3>0. x \in Nat /\ x >= 2
      BY <2>1, <1>n
    <3>1. k \in 0..Size(h) - 1 /\ start[h] + k = x /\ x >= 1 /\ k - 4 \in 1..n
      <4>1. /\ start[h] = -4 - rxPos /\ Size(h) = 5 + n
            /\ rxPos \in 0..n - 1 /\ n \in Nat /\ x < start[h] + Size(h)
        BY <2>1, <1>3, <1>5, Zenon
      <4> QED BY <4>1, <3>0
    <3>2. At(x) = Wire(sent[h], k)
      BY <3>1, <1>2, <1>3 DEF LaidOut
    <3>3. Wire(sent[h], 4 + (k - 4)) # 0
      BY <3>1, <1>3, WireIs, Zenon DEF n, p
    <3>4. 4 + (k - 4) = k
      BY <3>1
    <3> HIDE DEF k
    <3> QED BY <3>2, <3>3, <3>4
  <2>2. /\ LaidOut(Shifted(start))' /\ Open' \subseteq Open
    BY <1>1, <1>2, <1>4, <1>10, <2>1, LayoutShifts
  <2>3. \A l \in Open' : Shifted(start)[l] >= 1
    <3>1. ASSUME NEW l \in Open' PROVE Shifted(start)[l] >= 1
      <4>1. l \in Open /\ l # h /\ l \in Nat
        BY <2>2, <1>10, <1>n DEF Open
      <4>2. start[l] >= 1 + n - rxPos /\ n - rxPos >= 1
        BY <4>1, <1>9, <1>3, <1>5
      <4> QED BY <4>1, <4>2, <1>5 DEF Shifted
    <3> QED BY <3>1
  <2>4. Decoding(Shifted(start))'
    BY <2>3, <1>8, <1>10 DEF Decoding
  <2> QED BY <1>1, <1>6, <1>8, <1>10, <2>2, <2>4, Zenon DEF IInv
<1>11. CASE rxPos = capacity
  <2>1. ~Fits(sent[h])
    BY <1>11, <1>3, <1>5, <1>7
  <2>2. InTurn' /\ Handled' = Handled + 1
    BY <1>1, <1>4, <1>7, <1>11, <2>1, TurnReports
  <2> QED BY <2>2, <1>4, <1>10, <1>11
<1>12. CASE rxPos < capacity /\ rxPos + 1 = n
  <2>1. Fits(sent[h])
    BY <1>12, <1>5, <1>7
  <2>2. InTurn' /\ Handled' = Handled + 1
    BY <1>1, <1>4, <1>7, <1>12, <2>1, TurnDelivers
  <2> QED BY <2>2, <1>4, <1>10, <1>12
<1>13. CASE rxPos < capacity /\ rxPos + 1 < n
  <2>1. InTurn' /\ Handled' = Handled
    BY <1>1, <1>4, <1>13, TurnKept
  <2>2. /\ LaidOut(Shifted(start))' /\ Open' \subseteq Open /\ Begun' = Begun
        /\ \A j \in Nat : Frame(j)' = Frame(j)
    BY <1>1, <1>2, <1>4, <2>1, LayoutShifts
  <2>3. ASSUME NEW l \in Open', l = (Handled + 1)'
        PROVE  LET q == Frame(l)'.payload IN
               /\ HeaderRead(l, 5)' /\ Shifted(start)[l] = -4 - rxPos'
               /\ rxPos' < Len(q) /\ nextZero' = Code(q, rxPos')
               /\ \A k \in 0..rxPos' - 1 : rxPayload'[k] = q[k + 1]
    <3>1. l = h /\ Frame(l)' = sent[h]
      BY <2>1, <2>2, <2>3, <1>3, <1>n
    <3>2. HeaderRead(l, 5)'
      <4>1. Frame(l)' = Frame(l) /\ header' = header
        BY <3>1, <1>3, <1>4
      <4>2. \A k : Wire(Frame(l), k)' = Wire(Frame(l), k)
        BY <4>1, Zenon DEF Wire
      <4> QED BY <4>1, <4>2, <3>1, <1>3, Zenon DEF HeaderRead
    <3>3. rxPos' = rxPos + 1 /\ nextZero' = Code(p, rxPos + 1)
          /\ \A k \in 0..rxPos : rxPayload'[k] = p[k + 1]
      BY <1>4, <1>13
    <3>4. Shifted(start)[l] = -4 - rxPos'
      BY <3>1, <3>3, <1>3, <1>5, <1>n DEF Shifted
    <3>5. rxPos' < n /\ rxPos' - 1 = rxPos
      BY <3>3, <1>13, <1>5
    <3>6. Frame(l)'.payload = p
      BY <3>1 DEF p
    <3> QED BY <3>2, <3>3, <3>4, <3>5, <3>6, Zenon DEF n
  <2>4. Handled' < Begun'
    BY <2>1, <2>2, <1>3, <1>n DEF Open
  <2>5. Decoding(Shifted(start))'
    <3>1. state' = "READ_PAYLOAD"
      BY <1>4, <1>13
    <3> QED BY <3>1, <2>3, <2>4, <1>8 DEF Decoding
  <2> QED BY <1>1, <1>6, <1>8, <2>1, <2>2, <2>5, Zenon DEF IInv
<1>14. rxPos = capacity \/ (rxPos < capacity /\ (rxPos + 1 = n \/ rxPos + 1 < n))
  BY <1>3, <1>4, <1>5
<1> QED BY <1>11, <1>12, <1>13, <1>14

(* A read moves bytes and changes none. *)
LEMMA ReadMoves ==
  ASSUME Types, ~Shared, NEW n \in 1..ReadMax, Read(n)
  PROVE  /\ Left \in Nat /\ Left' = Left
         /\ \A x \in 1..Left : At(x)' = At(x)
         /\ UNCHANGED <<sender, capacity, state, header, headerPos, rxPos, nextZero,
                        delivered, errors, rxPayload>>
<1>2. /\ UNCHANGED <<sender, capacity, state, header, headerPos, rxPos, nextZero,
                      delivered, errors, rxPayload>>
      /\ i = length /\ n <= Len(line) /\ length' = n /\ i' = 0
      /\ line' = SubSeq(line, n + 1, Len(line))
      /\ data' = [k \in 0 .. ReadMax - 1 |-> IF k < n THEN line[k + 1] ELSE 0]
  BY Zenon DEF Read
<1>n. /\ Len(line) \in Nat /\ length \in Nat /\ i \in Nat /\ Left \in Nat
      /\ line \in Seq(Byte) /\ ReadMax \in Nat
  <2>1. Len(line) \in Nat /\ length \in Nat /\ i \in Nat /\ i <= length
    BY Constants DEF Types, TypeOK
  <2> QED BY <2>1, Constants DEF Types, TypeOK, Left
<1>4. Left' = Left
  BY <1>2, <1>n DEF Left
<1>5. ASSUME NEW x \in 1..Left PROVE At(x)' = At(x)
  <2>1. At(x) = line[x] /\ x \in 1..Len(line)
    BY <1>2, <1>n DEF At, Left
  <2>2. At(x)' = IF x <= n THEN data'[x - 1] ELSE line'[x - n]
    <3>1. At(x)' = IF x <= n - 0 THEN data'[0 + x - 1] ELSE line'[x - (n - 0)]
      <4>1. length' = n /\ i' = 0
        BY <1>2
      <4> QED BY <4>1, Zenon DEF At
    <3>2. n - 0 = n /\ 0 + x - 1 = x - 1
      BY <1>n
    <3> QED BY <3>1, <3>2
  <2>3. CASE x <= n
    <3>1. x - 1 \in 0 .. ReadMax - 1 /\ x - 1 < n /\ (x - 1) + 1 = x
      BY <2>3, <1>n
    <3>2. data'[x - 1] = line[x]
      BY <3>1, <1>2
    <3> QED BY <2>1, <2>2, <2>3, <3>2
  <2>4. CASE x > n
    <3>1. x - n \in 1..Len(line) - n /\ n + 1 + (x - n) - 1 = x
      BY <2>1, <2>4, <1>n
    <3>2. line'[x - n] = line[x]
      BY <3>1, <1>2, <1>n
    <3> QED BY <2>1, <2>2, <2>4, <3>2, <1>n
  <2> QED BY <2>3, <2>4, <1>n
<1> QED BY <1>2, <1>n, <1>4, <1>5

LEMMA StepRead ==
  ASSUME IInv, ~Shared, NEW n \in 1..ReadMax, Read(n)
  PROVE  IInv'
<1>1. Types /\ InTurn /\ DueListed /\ Types'
  BY TypesRead DEF IInv
<1>2. UNCHANGED <<sender, capacity, state, header, headerPos, rxPos, nextZero,
                  delivered, errors, rxPayload>>
  BY <1>1, ReadMoves
<1>3. DueListed' /\ InTurn' /\ Handled' = Handled
  BY <1>1, <1>2, DueKept, TurnKept
<1>4. Left \in Nat /\ Left' = Left
  BY <1>1, ReadMoves
<1>5. \A x \in 1..Left : At(x)' = At(x)
  BY <1>1, ReadMoves
<1>6. /\ Open' = Open /\ Begun' = Begun /\ (HalfWritten' <=> HalfWritten)
      /\ \A j : Frame(j)' = Frame(j) /\ Size(j)' = Size(j)
      /\ \A j, k : Wire(Frame(j), k)' = Wire(Frame(j), k)
  <2>1. /\ Begun' = Begun /\ (HalfWritten' <=> HalfWritten)
        /\ \A j : Frame(j)' = Frame(j) /\ Size(j)' = Size(j)
    BY <1>2 DEF sender, Frame, Size, Begun, HalfWritten
  <2>2. Open' = Open
    BY <1>3, <2>1 DEF Open
  <2>3. \A j, k : Wire(Frame(j), k)' = Wire(Frame(j), k)
    BY <2>1, Zenon DEF Wire
  <2> QED BY <2>1, <2>2, <2>3
<1>7. PICK start \in [Nat -> Int] : LaidOut(start) /\ Decoding(start)
  BY DEF IInv
<1>8. LaidOut(start)'
  <2>n. \A j \in Open : start[j] \in Int /\ Size(j) \in Nat
    <3>1. \A j \in Open : j \in Nat /\ j \in 1..Begun
      <4>1. Handled \in Nat /\ Begun \in Nat
        BY <1>1, Numbers
      <4> QED BY <4>1 DEF Open
    <3> QED BY <3>1, <1>1, OpenFrames
  <2>1. ASSUME NEW j \in Open, NEW k \in 0..Size(j) - 1, start[j] + k >= 1
        PROVE  At(start[j] + k)' = Wire(Frame(j), k)'
    <3>1. start[j] + k \in 1..Left
      <4>1. start[j] + Size(j) <= Left + 1
        BY <1>7 DEF LaidOut
      <4>2. start[j] \in Int /\ Size(j) \in Nat
        BY <2>n
      <4>3. Left \in Nat /\ k \in 0..Size(j) - 1 /\ start[j] + k >= 1
        BY <2>1, <1>4
      <4> QED BY <4>1, <4>2, <4>3
    <3>2. At(start[j] + k) = Wire(Frame(j), k)
      BY <1>7, <2>1 DEF LaidOut
    <3> QED BY <3>1, <3>2, <1>5, <1>6
  <2>2. ASSUME NEW x \in 1..Left, At(x)' = 0
        PROVE  \E j \in Open : start[j] <= x /\ x < start[j] + Size(j)
    <3>1. At(x) = 0
      BY <1>5, <2>2
    <3> QED BY <3>1, <1>7 DEF LaidOut
  <2>3. /\ \A j \in Open : start[j] + Size(j) <= Left + 1
        /\ HalfWritten => start[Begun] + 5 = Left + 1
        /\ \A j, l \in Open : j < l => start[j] + Size(j) <= start[l]
    BY <1>7 DEF LaidOut
  <2> QED BY <2>1, <2>2, <2>3, <1>4, <1>6 DEF LaidOut
<1>9. Decoding(start)'
  <2>1. \A j, k : HeaderRead(j, k)' <=> HeaderRead(j, k)
    BY <1>2, <1>6 DEF HeaderRead
  <2>2. Handled' < Begun' <=> Handled < Begun
    BY <1>3, <1>6
  <2>3. \A j \in Open' : j \in Open /\ (j = (Handled + 1)' <=> j = Handled + 1)
    BY <1>3, <1>6
  <2> QED BY <1>2, <1>6, <1>7, <2>1, <2>2, <2>3 DEF Decoding
<1> QED BY <1>1, <1>3, <1>8, <1>9, Zenon DEF IInv

-----------------------------------------------------------------------------
(* The sender's steps. *)

LEMMA LineGrows ==
  ASSUME Types, UNCHANGED <<data, length, i>>, NEW e \in Seq(Byte), line' = line \o e
  PROVE  /\ Left \in Nat /\ Left' = Left + Len(e)
         /\ \A x \in 1..Left : At(x)' = At(x)
         /\ \A x \in Left + 1 .. Left + Len(e) : At(x)' = e[x - Left]
<1>1. /\ i \in Nat /\ length \in Nat /\ i <= length /\ Len(line) \in Nat /\ line \in Seq(Byte)
      /\ Len(e) \in Nat
  BY Constants DEF Types, TypeOK
<1>2. /\ Len(line') = Len(line) + Len(e)
      /\ \A x \in 1..Len(line) : line'[x] = line[x]
      /\ \A x \in Len(line) + 1 .. Len(line) + Len(e) : line'[x] = e[x - Len(line)]
  BY <1>1
<1>3. Left \in Nat /\ Left' = Left + Len(e)
  BY <1>1, <1>2 DEF Left
<1>4. \A x : At(x)' = IF x <= length - i THEN data[i + x - 1] ELSE line'[x - (length - i)]
  BY DEF At
<1>5. ASSUME NEW x \in 1..Left PROVE At(x)' = At(x)
  <2>1. CASE x <= length - i
    BY <2>1, <1>4 DEF At
  <2>2. CASE ~(x <= length - i)
    <3>1. x - (length - i) \in 1..Len(line)
      BY <2>2, <1>1 DEF Left
    <3> QED BY <2>2, <3>1, <1>2, <1>4 DEF At
  <2> QED BY <2>1, <2>2
<1>6. ASSUME NEW x \in Left + 1 .. Left + Len(e) PROVE At(x)' = e[x - Left]
  <2>1. /\ ~(x <= length - i)
        /\ x - (length - i) \in Len(line) + 1 .. Len(line) + Len(e)
        /\ x - (length - i) - Len(line) = x - Left
    BY <1>1 DEF Left
  <2> QED BY <2>1, <1>2, <1>4
<1> QED BY <1>3, <1>5, <1>6

(* What the decoder has made of a frame that stays the same. *)
LEMMA DecodingKept ==
  ASSUME Types, InTurn, UNCHANGED receiver, Handled' = Handled, Begun' \in Nat,
         NEW start \in [Nat -> Int], Decoding(start),
         NEW s \in [Nat -> Int],
         Begun <= Begun',
         \A j \in Open : Frame(j)' = Frame(j) /\ s[j] = start[j],
         \A j \in Open' : j \in Open \/ s[j] >= 1
  PROVE  Decoding(s)'
<1>n. Handled \in Nat /\ Begun \in Nat
  BY Numbers
<1>1. /\ UNCHANGED <<state, header, headerPos, rxPos, nextZero, rxPayload>>
  BY DEF receiver
<1>2. CASE state = "HUNT_SYNC"
  <2>1. \A j \in Open' : s[j] >= 1
    BY <1>2 DEF Decoding
  <2> QED BY <1>1, <1>2, <2>1 DEF Decoding
<1>3. CASE state # "HUNT_SYNC"
  <2>1. Handled < Begun /\ Handled' < Begun'
    BY <1>3, <1>n DEF Decoding
  <2>2. ASSUME NEW j \in Open', j = (Handled + 1)'
        PROVE  /\ j \in Open /\ j = Handled + 1 /\ Frame(j)' = Frame(j) /\ s[j] = start[j]
               /\ \A n : HeaderRead(j, n)' <=> HeaderRead(j, n)
    <3>1. j = Handled + 1
      BY <2>2
    <3>2. j \in Open
      BY <2>1, <3>1, <1>n DEF Open
    <3>3. Frame(j)' = Frame(j) /\ s[j] = start[j]
      BY <3>2
    <3>4. \A k : Wire(Frame(j), k)' = Wire(Frame(j), k)
      BY <3>3, Zenon DEF Wire
    <3>5. \A n : HeaderRead(j, n)' <=> HeaderRead(j, n)
      BY <3>4, <1>1, Zenon DEF HeaderRead
    <3> QED BY <3>1, <3>2, <3>3, <3>5
  <2>3. CASE state = "READ_HEADER"
    <3>1. ASSUME NEW j \in Open', j = (Handled + 1)'
          PROVE  HeaderRead(j, headerPos)' /\ s[j] = 1 - headerPos'
      <4>1. HeaderRead(j, headerPos) /\ start[j] = 1 - headerPos
        BY <2>2, <2>3, <3>1 DEF Decoding
      <4> QED BY <4>1, <2>2, <3>1, <1>1
    <3> QED BY <1>1, <2>1, <2>3, <3>1 DEF Decoding
  <2>4. CASE state = "READ_PAYLOAD"
    <3>1. ASSUME NEW j \in Open', j = (Handled + 1)'
          PROVE  LET p == Frame(j)'.payload IN
                 /\ HeaderRead(j, 5)' /\ s[j] = -4 - rxPos'
                 /\ rxPos' < Len(p) /\ nextZero' = Code(p, rxPos')
                 /\ \A k \in 0..rxPos' - 1 : rxPayload'[k] = p[k + 1]
      <4>1. LET p == Frame(j).payload IN
            /\ HeaderRead(j, 5) /\ start[j] = -4 - rxPos
            /\ rxPos < Len(p) /\ nextZero = Code(p, rxPos)
            /\ \A k \in 0..rxPos - 1 : rxPayload[k] = p[k + 1]
        BY <2>2, <2>4, <3>1 DEF Decoding
      <4> QED BY <4>1, <2>2, <3>1, <1>1, Zenon
    <3> QED BY <1>1, <2>1, <2>4, <3>1 DEF Decoding
  <2>5. state = "READ_HEADER" \/ state = "READ_PAYLOAD"
    BY <1>3 DEF Types, TypeOK
  <2> QED BY <2>3, <2>4, <2>5
<1> QED BY <1>2, <1>3

LEMMA StepWriteHeader ==
  ASSUME IInv, NEW f \in Frames, WriteHeader(f)
  PROVE  IInv'
<1>1. Types /\ InTurn /\ DueListed /\ Types'
  BY TypesWriteHeader DEF IInv
<1>2. UNCHANGED <<receiver, sent, due>> /\ half = NoFrame /\ half' = f /\ f # NoFrame
  BY FrameIs DEF WriteHeader
<1>n. /\ Handled \in Nat /\ Begun \in Nat /\ Len(sent) \in Nat /\ Left \in Nat
      /\ Handled <= Len(sent)
  BY <1>1, Numbers
<1>3. ~HalfWritten /\ Begun = Len(sent)
  BY <1>2, <1>n DEF HalfWritten, Begun
<1>4. DueListed' /\ InTurn' /\ Handled' = Handled
  BY <1>1, <1>2 DEF receiver, DueListed, Fits, InTurn, DeliveredInOrder, Handled
<1>5. PICK start \in [Nat -> Int] : LaidOut(start) /\ Decoding(start)
  BY DEF IInv
<1>6. /\ \A j \in 1..Len(sent) : Frame(j)' = Frame(j) /\ Size(j)' = Size(j)
      /\ \A j \in 1..Len(sent) : \A k : Wire(Frame(j), k)' = Wire(Frame(j), k)
  <2>1. \A j \in 1..Len(sent) : Frame(j)' = Frame(j) /\ Size(j)' = Size(j)
    BY <1>2 DEF Frame, Size
  <2> QED BY <2>1, Zenon DEF Wire
<1>7. \A j \in Open : j \in 1..Len(sent) /\ j \in Nat
  BY <1>3, <1>n DEF Open
<1>o. \A j \in Open : start[j] \in Int /\ Size(j) \in Nat /\ Size(j) >= 5
  BY <1>1, <1>3, <1>5, <1>7, OpenFrames
<1>8. CASE kept' = TRUE /\ line' = line \o EncodedHeader(f)
  <2>1. HalfWritten' /\ Begun' = Len(sent) + 1
    BY <1>2, <1>8 DEF HalfWritten, Begun
  <2> DEFINE e == EncodedHeader(f)
  <2>2. e \in Seq(Byte) /\ Len(e) = 5 /\ e[1] = 0
    BY EncodedHeaderIs
  <2>3. /\ Left' = Left + 5 /\ Left' \in Nat
        /\ \A x \in 1..Left : At(x)' = At(x)
        /\ \A x \in Left + 1 .. Left + 5 : At(x)' = e[x - Left]
    <3>1. UNCHANGED <<data, length, i>>
      BY <1>2 DEF receiver
    <3>2. /\ Left' = Left + 5
          /\ \A x \in 1..Left : At(x)' = At(x)
          /\ \A x \in Left + 1 .. Left + 5 : At(x)' = e[x - Left]
      BY <3>1, <1>1, <1>8, <2>2, LineGrows
    <3> QED BY <3>2, <1>n
  <2>l. Left' = Left + 5 /\ Left \in Nat
    BY <2>3, <1>n
  <2>4. PICK b \in Nat : b = Len(sent) + 1
    BY <1>n
  <2>5. PICK s \in [Nat -> Int] : s = [start EXCEPT ![b] = Left + 1]
    <3>1. [start EXCEPT ![b] = Left + 1] \in [Nat -> Int]
      BY <1>n, <2>4
    <3> QED BY <3>1, Zenon
  <2>6. Frame(b)' = f /\ Size(b)' = 5 /\ \A k : Wire(Frame(b), k)' = Wire(f, k)
    <3>1. Frame(b)' = f /\ Size(b)' = 5
      BY <1>2, <1>n, <2>4 DEF Frame, Size
    <3> QED BY <3>1, Zenon DEF Wire
  <2>7. /\ \A j \in Open' : j \in Open \/ j = b
        /\ \A j \in Open : j \in Open' /\ s[j] = start[j] /\ j < b
        /\ b \in Open' /\ s[b] = Left + 1
    <3>1. \A j \in Open' : j \in Open \/ j = b
      BY <1>3, <1>4, <1>n, <2>1, <2>4 DEF Open
    <3>2. \A j \in Open : j \in Open' /\ j < b
      BY <1>3, <1>4, <1>n, <2>1, <2>4 DEF Open
    <3>3. b \in Open'
      BY <1>4, <1>n, <2>1, <2>4 DEF Open
    <3>4. s[b] = Left + 1 /\ \A j \in Open : s[j] = start[j]
      BY <2>4, <2>5, <3>2, <1>7
    <3> QED BY <3>1, <3>2, <3>3, <3>4
  <2>8. \A j \in Open : start[j] + Size(j) <= Left + 1
    BY <1>5 DEF LaidOut
  <2>9. LaidOut(s)'
    <3>1. \A j \in Open' : s[j] + Size(j)' <= Left' + 1
      <4>1. ASSUME NEW j \in Open PROVE s[j] + Size(j)' <= Left' + 1
        <5>1. start[j] + Size(j) <= Left + 1 /\ start[j] \in Int /\ Size(j) \in Nat
          BY <2>8, <1>o
        <5>2. s[j] = start[j] /\ Size(j)' = Size(j)
          BY <2>7, <1>6, <1>7
        <5> QED BY <5>1, <5>2, <2>l
      <4>2. s[b] + Size(b)' <= Left' + 1
        BY <2>3, <2>6, <2>7, <1>n
      <4> QED BY <4>1, <4>2, <2>7
    <3>2. ASSUME NEW j \in Open', NEW k \in 0..Size(j)' - 1, s[j] + k >= 1
          PROVE  At(s[j] + k)' = Wire(Frame(j), k)'
      <4>1. CASE j \in Open
        <5>1. /\ s[j] = start[j] /\ Size(j)' = Size(j)
              /\ \A n : Wire(Frame(j), n)' = Wire(Frame(j), n)
          BY <4>1, <2>7, <1>6, <1>7
        <5>2. start[j] + Size(j) <= Left + 1 /\ start[j] \in Int /\ Size(j) \in Nat
          BY <4>1, <2>8, <1>o
        <5>3. start[j] + k \in 1..Left /\ k \in 0..Size(j) - 1 /\ start[j] + k >= 1
          <6>1. Size(j)' = Size(j) /\ s[j] = start[j]
            BY <5>1
          <6>2. k \in 0..Size(j) - 1 /\ start[j] + k >= 1
            BY <3>2, <6>1
          <6> QED BY <6>2, <5>2, <2>l
        <5>4. At(start[j] + k) = Wire(Frame(j), k)
          BY <4>1, <5>3, <1>5 DEF LaidOut
        <5> QED BY <5>1, <5>3, <5>4, <2>3
      <4>2. CASE j = b
        <5>1. k \in 0..4 /\ s[j] + k \in Left + 1 .. Left + 5 /\ (s[j] + k) - Left = k + 1
          <6>1. Size(b)' = 5 /\ s[b] = Left + 1
            BY <2>6, <2>7
          <6>2. k \in 0..5 - 1
            BY <3>2, <4>2, <6>1
          <6> QED BY <4>2, <6>1, <6>2, <2>l
        <5>2. At(s[j] + k)' = e[k + 1]
          BY <5>1, <2>3
        <5>3. Wire(f, k) = e[k + 1]
          BY <5>1 DEF Wire
        <5> QED BY <5>2, <5>3, <4>2, <2>6
      <4> QED BY <4>1, <4>2, <2>7
    <3>3. s[Begun'] + 5 = Left' + 1
      BY <2>1, <2>3, <2>4, <2>7, <1>n
    <3>4. \A j, l \in Open' : j < l => s[j] + Size(j)' <= s[l]
      <4>1. ASSUME NEW j \in Open', NEW l \in Open', j < l PROVE s[j] + Size(j)' <= s[l]
        <5>1. j \in Open
          <6>1. j # b
            <7>1. l = b \/ l < b
              BY <2>7
            <7>2. j \in Nat /\ l \in Nat
              BY <2>7, <2>4, <1>7
            <7> QED BY <7>1, <7>2, <4>1, <2>4
          <6> QED BY <6>1, <2>7
        <5>2. s[j] = start[j] /\ Size(j)' = Size(j)
          BY <5>1, <2>7, <1>6, <1>7
        <5>3. CASE l \in Open
          BY <4>1, <5>1, <5>2, <5>3, <2>7, <1>5 DEF LaidOut
        <5>4. CASE l = b
          BY <5>1, <5>2, <5>4, <2>7, <2>8
        <5> QED BY <5>3, <5>4, <2>7
      <4> QED BY <4>1
    <3>5. ASSUME NEW x \in 1..Left', At(x)' = 0
          PROVE  \E j \in Open' : s[j] <= x /\ x < s[j] + Size(j)'
      <4>1. CASE x \in 1..Left
        <5>1. At(x) = 0
          BY <3>5, <4>1, <2>3
        <5>2. PICK j \in Open : start[j] <= x /\ x < start[j] + Size(j)
          BY <5>1, <4>1, <1>5 DEF LaidOut
        <5> QED BY <5>2, <2>7, <1>6, <1>7
      <4>2. CASE x \notin 1..Left
        <5>1. s[b] <= x /\ x < s[b] + Size(b)'
          BY <4>2, <2>3, <2>6, <2>7, <1>n
        <5> QED BY <5>1, <2>7
      <4> QED BY <4>1, <4>2
    <3> QED BY <3>1, <3>2, <3>3, <3>4, <3>5 DEF LaidOut
  <2>10. Decoding(s)'
    <3>1. Begun' \in Nat /\ Begun <= Begun'
      BY <1>3, <1>n, <2>1
    <3>2. \A j \in Open : Frame(j)' = Frame(j) /\ s[j] = start[j]
      BY <1>6, <1>7, <2>7
    <3>3. \A j \in Open' : j \in Open \/ s[j] >= 1
      BY <2>7, <1>n
    <3> QED BY <3>1, <3>2, <3>3, <1>1, <1>2, <1>4, <1>5, DecodingKept
  <2> QED BY <1>1, <1>4, <2>9, <2>10, Zenon DEF IInv
<1>9. CASE kept' = FALSE /\ UNCHANGED line
  <2>1. ~HalfWritten' /\ Begun' = Begun /\ Open' = Open
    <3>1. ~HalfWritten'
      BY <1>9 DEF HalfWritten
    <3>2. Begun' = Begun
      BY <3>1, <1>2, <1>3, <1>n DEF Begun
    <3> QED BY <3>1, <3>2, <1>4 DEF Open
  <2>2. Left' = Left /\ \A x : At(x)' = At(x)
    BY <1>2, <1>9 DEF receiver, Left, At
  <2>3. LaidOut(start)'
    <3>1. \A j \in Open : Size(j)' = Size(j) /\ \A k : Wire(Frame(j), k)' = Wire(Frame(j), k)
      BY <1>6, <1>7
    <3> QED BY <1>5, <2>1, <2>2, <3>1, Zenon DEF LaidOut
  <2>4. Decoding(start)'
    <3>1. Begun' \in Nat /\ Begun <= Begun'
      BY <1>n, <2>1
    <3>2. \A j \in Open : Frame(j)' = Frame(j)
      BY <1>6, <1>7
    <3>3. \A j \in Open' : j \in Open
      BY <2>1
    <3> QED BY <3>1, <3>2, <3>3, <1>1, <1>2, <1>4, <1>5, DecodingKept
  <2> QED BY <1>1, <1>4, <1>5, <2>3, <2>4, Zenon DEF IInv
<1> QED BY <1>8, <1>9, Zenon DEF WriteHeader

(* A frame that is now complete joins sent, and due if it fits. *)
FrameJoins ==
  /\ sent' = Append(sent, half)
  /\ due' = IF Len(half.payload) <= capacity THEN Append(due, Len(sent')) ELSE due
  /\ UNCHANGED receiver

LEMMA GapsAdd ==
  ASSUME NEW j \in Int, NEW k \in Int, NEW x \in Int, NEW y \in Int, NEW z \in Int,
         k - j <= y - x, y + 1 <= z
  PROVE  (k + 1) - j <= z - x
OBVIOUS

LEMMA FrameSent ==
  ASSUME Types, InTurn, DueListed, half \in Frames, FrameJoins
  PROVE  DueListed' /\ InTurn' /\ Handled' = Handled
<1> DEFINE b == Len(sent) + 1
           d == Len(due)
<1>n. /\ Len(sent) \in Nat /\ Handled \in Nat /\ Len(delivered) \in Nat /\ Handled <= Len(sent)
      /\ d \in Nat /\ errors \in Nat
  <2>1. Len(due) \in Nat
    BY DEF Types, TypeOK
  <2> QED BY <2>1, Numbers
<1>1. /\ Len(sent') = b /\ sent'[b] = half /\ \A j \in 1..Len(sent) : sent'[j] = sent[j]
  BY DEF Types, TypeOK, FrameJoins
<1>2. \A k \in 1..d : due[k] \in 1..Len(sent)
  BY ElementOfSeq, Zenon DEF Types, TypeOK
<1>3. UNCHANGED <<capacity, delivered, errors>> /\ Handled' = Handled
  BY DEF receiver, Handled, FrameJoins
<1>4. CASE Fits(half)
  <2>1. /\ Len(due') = d + 1 /\ due'[d + 1] = b
        /\ \A k \in 1..d : due'[k] = due[k]
    <3>1. due' = Append(due, b)
      BY <1>1, <1>4, Zenon DEF Fits, FrameJoins
    <3>2. due \in Seq(1..Len(sent))
      BY DEF Types, TypeOK
    <3>3. due \in Seq(Nat) /\ b \in Nat
      <4>1. 1..Len(sent) \subseteq Nat
        BY <1>n
      <4> QED BY <3>2, <4>1, <1>n, SeqMonotonic
    <3> HIDE DEF b
    <3> QED BY <3>1, <3>3
  <2> HIDE DEF d, b
  <2>b. b = Len(sent) + 1
    BY DEF b
  <2>2. \A k \in 1..d + 1 : k \in 1..d \/ k = d + 1
    BY <1>n
  <2>3. ASSUME NEW k \in 1..d + 1 PROVE Len(sent'[due'[k]].payload) <= capacity
    <3>1. CASE k \in 1..d
      <4>1. sent'[due'[k]] = sent[due[k]]
        BY <3>1, <2>1, <1>1, <1>2
      <4>2. Fits(sent[due[k]])
        BY <3>1 DEF DueListed, d
      <4> QED BY <4>1, <4>2 DEF Fits
    <3>2. CASE k = d + 1
      BY <3>2, <2>1, <1>1, <1>4 DEF Fits
    <3> QED BY <3>1, <3>2, <2>2
  <2>4. ASSUME NEW k \in 1..d + 1, NEW l \in 1..d + 1, k < l
        PROVE  l - k <= due'[l] - due'[k]
    <3>1. k \in 1..d
      BY <2>4, <1>n
    <3>2. CASE l \in 1..d
      <4>1. l - k <= due[l] - due[k]
        BY <3>1, <3>2, <2>4 DEF DueListed, d
      <4> QED BY <4>1, <3>1, <3>2, <2>1
    <3>3. CASE l = d + 1
      <4>1. CASE k = d
        <5>1. due[d] \in 1..Len(sent) /\ due'[k] = due[d] /\ due'[l] = Len(sent) + 1
          BY <4>1, <3>1, <3>3, <1>2, <2>1, <2>b
        <5>2. l - k = 1
          BY <4>1, <3>3, <1>n
        <5>3. due'[l] - due'[k] >= 1
          BY <5>1, <1>n
        <5> QED BY <5>2, <5>3
      <4>2. CASE k # d
        <5>1. d \in 1..d /\ k < d
          BY <4>2, <3>1, <1>n
        <5>2. d - k <= due[d] - due[k]
          BY <5>1, <3>1 DEF DueListed, d
        <5>3. due[d] \in 1..Len(sent) /\ due[k] \in 1..Len(sent)
          BY <5>1, <3>1, <1>2
        <5>4. due'[k] = due[k] /\ due'[l] = Len(sent) + 1
          BY <3>1, <3>3, <2>1, <2>b
        <5>5. due[d] + 1 <= Len(sent) + 1 /\ due[d] \in Int /\ due[k] \in Int
          BY <5>3, <1>n
        <5>6. l = d + 1 /\ k \in Int /\ Len(sent) + 1 \in Int
          BY <3>1, <3>3, <1>n
        <5>7. (d + 1) - k <= (Len(sent) + 1) - due[k]
          BY <5>2, <5>5, <5>6, <1>n, GapsAdd
        <5> QED BY <5>4, <5>6, <5>7, Zenon
      <4> QED BY <4>1, <4>2
    <3> QED BY <3>2, <3>3, <2>2
  <2>5. ASSUME NEW j \in 1..b, Len(sent'[j].payload) <= capacity
        PROVE  \E k \in 1..d + 1 : due'[k] = j
    <3>1. CASE j \in 1..Len(sent)
      <4>1. Fits(sent[j])
        BY <3>1, <2>5, <1>1 DEF Fits
      <4>2. PICK k \in 1..d : due[k] = j
        BY <4>1, <3>1 DEF DueListed, d
      <4>3. k \in 1..d + 1 /\ due'[k] = j
        BY <4>2, <2>1, <1>n
      <4> QED BY <4>3
    <3>2. CASE j = b
      <4>1. d + 1 \in 1..d + 1
        BY <1>n
      <4> QED BY <3>2, <4>1, <2>1
    <3>3. j \in 1..Len(sent) \/ j = b
      BY <2>b, <1>n
    <3> QED BY <3>1, <3>2, <3>3
  <2>6. DueListed'
    BY <2>1, <2>3, <2>4, <2>5, <1>1, <1>3 DEF DueListed, Fits
  <2>7. ASSUME NEW k \in 1..d + 1
        PROVE  k <= Len(delivered) <=> due'[k] <= Handled
    <3>1. CASE k \in 1..d
      <4>1. k <= Len(delivered) <=> due[k] <= Handled
        BY <3>1 DEF InTurn, d
      <4> QED BY <4>1, <3>1, <2>1
    <3>2. CASE k = d + 1
      <4>1. Len(delivered) <= d
        BY DEF InTurn, DeliveredInOrder, d
      <4> QED BY <4>1, <3>2, <2>1, <2>b, <1>n
    <3> QED BY <3>1, <3>2, <2>2
  <2>8. Len(delivered) <= Len(due') /\ \A k \in 1..Len(delivered) : delivered[k] = sent'[due'[k]]
    <3>1. Len(delivered) <= d /\ \A k \in 1..Len(delivered) : delivered[k] = sent[due[k]]
      BY DEF InTurn, DeliveredInOrder, d
    <3>2. \A k \in 1..Len(delivered) : k \in 1..d
      BY <3>1, <1>n
    <3>3. \A k \in 1..Len(delivered) : sent'[due'[k]] = sent[due[k]]
      BY <3>2, <2>1, <1>1, <1>2
    <3>4. Len(delivered) <= Len(due')
      <4>1. Len(due') = d + 1 /\ Len(delivered) <= d
        BY <2>1, <3>1
      <4> QED BY <4>1, <1>n
    <3> QED BY <3>1, <3>3, <3>4
  <2>9. InTurn'
    <3>1. Handled <= Len(sent')
      BY <1>1, <1>n, <2>b
    <3>2. DeliveredInOrder'
      BY <2>8, <1>3 DEF DeliveredInOrder
    <3>3. delivered' \in Seq(Frames)
      BY <1>3 DEF InTurn
    <3> QED BY <3>1, <3>2, <3>3, <2>1, <2>7, <1>3 DEF InTurn
  <2> QED BY <2>6, <2>9, <1>3
<1>5. CASE ~Fits(half)
  <2>1. due' = due
    BY <1>5, Zenon DEF Fits, FrameJoins
  <2>2. \A k \in 1..d : sent'[due[k]] = sent[due[k]]
    BY <1>1, <1>2
  <2>3. ~(Len(sent'[b].payload) <= capacity)
    BY <1>1, <1>5 DEF Fits
  <2> HIDE DEF d
  <2>4. DueListed'
    <3>1. ASSUME NEW j \in 1..b, Len(sent'[j].payload) <= capacity
          PROVE  \E k \in 1..d : due[k] = j
      <4>1. j \in 1..Len(sent)
        BY <3>1, <2>3, <1>n
      <4>2. Fits(sent[j])
        BY <3>1, <4>1, <1>1 DEF Fits
      <4> QED BY <4>1, <4>2 DEF DueListed, d
    <3>2. \A k \in 1..d : Len(sent'[due[k]].payload) <= capacity
      <4>1. ASSUME NEW k \in 1..d PROVE Len(sent'[due[k]].payload) <= capacity
        <5>1. Fits(sent[due[k]])
          BY DEF DueListed, d
        <5> QED BY <5>1, <2>2 DEF Fits
      <4> QED BY <4>1
    <3>3. \A k, l \in 1..d : k < l => l - k <= due[l] - due[k]
      BY DEF DueListed, d
    <3> QED BY <3>1, <3>2, <3>3, <2>1, <1>1, <1>3, Zenon DEF DueListed, Fits, d
  <2>5. InTurn'
    <3>1. Handled <= Len(sent')
      BY <1>1, <1>n
    <3>2. DeliveredInOrder'
      <4>1. Len(delivered) <= d /\ \A k \in 1..Len(delivered) : delivered[k] = sent[due[k]]
        BY DEF InTurn, DeliveredInOrder, d
      <4>2. \A k \in 1..Len(delivered) : k \in 1..d
        BY <4>1, <1>n
      <4> QED BY <4>1, <4>2, <2>1, <2>2, <1>3, Zenon DEF DeliveredInOrder, d
    <3>3. delivered' \in Seq(Frames)
      BY <1>3 DEF InTurn
    <3>4. \A k \in 1..d : k <= Len(delivered) <=> due[k] <= Handled
      BY DEF InTurn, d
    <3> QED BY <3>1, <3>2, <3>3, <3>4, <2>1, <1>3, Zenon DEF InTurn, d
  <2> QED BY <2>4, <2>5, <1>3
<1> QED BY <1>4, <1>5

(* The payload of a frame whose header is in the transport lies right      *)
(* behind it; that of a refused header is bytes without a zero.            *)
PayloadWritten ==
  /\ half # NoFrame /\ half' = NoFrame
  /\ line' = line \o EncodedPayload(half.payload)
  /\ IF kept THEN FrameJoins ELSE UNCHANGED <<receiver, sent, due>>

LEMMA StepWritePayload ==
  ASSUME IInv, WritePayload, "payload" \notin Drops
  PROVE  IInv'
<1>1. Types /\ InTurn /\ DueListed /\ Types'
  BY TypesWritePayload DEF IInv
<1>2. PayloadWritten
  BY Zenon DEF WritePayload, PayloadWritten, FrameJoins
<1>3. half \in Frames /\ half' = NoFrame /\ half # NoFrame /\ kept \in BOOLEAN
  BY <1>1, <1>2, Zenon DEF PayloadWritten, Types, TypeOK
<1>4. UNCHANGED receiver
  BY <1>2, Zenon DEF PayloadWritten, FrameJoins
<1>5. DueListed' /\ InTurn' /\ Handled' = Handled
  <2>1. CASE kept
    BY <2>1, <1>1, <1>2, <1>3, FrameSent DEF PayloadWritten
  <2>2. CASE ~kept
    <3>1. UNCHANGED <<receiver, sent, due>>
      BY <2>2, <1>2, Zenon DEF PayloadWritten
    <3> QED BY <3>1, <1>1 DEF receiver, DueListed, Fits, InTurn, DeliveredInOrder, Handled
  <2> QED BY <2>1, <2>2
<1>n. /\ Handled \in Nat /\ Begun \in Nat /\ Len(sent) \in Nat /\ Left \in Nat
      /\ Handled <= Len(sent)
  BY <1>1, Numbers
<1>6. PICK start \in [Nat -> Int] : LaidOut(start) /\ Decoding(start)
  BY DEF IInv
<1> DEFINE e == EncodedPayload(half.payload)
           n == Len(half.payload)
<1>7. /\ e \in Seq(Byte) /\ Len(e) = n /\ n \in Nat
      /\ \A k \in 1..n : e[k] # 0
  <2>1. half.payload \in Seq(Byte) /\ n \in 1..ByteMod - 1
    BY <1>3, FrameIs, Zenon
  <2>2. n < ByteMod /\ n \in Nat
    BY <2>1, Constants
  <2> QED BY <2>1, <2>2, EncodedPayloadIs
<1>8. /\ Left' = Left + n
      /\ \A x \in 1..Left : At(x)' = At(x)
      /\ \A x \in Left + 1 .. Left + n : At(x)' = e[x - Left]
  <2>1. UNCHANGED <<data, length, i>>
    BY <1>4 DEF receiver
  <2>2. line' = line \o e
    BY <1>2, Zenon DEF PayloadWritten
  <2> QED BY <2>1, <2>2, <1>1, <1>7, LineGrows, Zenon
<1> HIDE DEF e, n
<1>9. ~HalfWritten' /\ Begun' = Begun /\ Open' = Open /\ (HalfWritten <=> kept)
  <2>1. ~HalfWritten' /\ (HalfWritten <=> kept)
    BY <1>3, Zenon DEF HalfWritten
  <2>2. Len(sent') = IF kept THEN Len(sent) + 1 ELSE Len(sent)
    <3>1. CASE kept
      <4>1. sent' = Append(sent, half)
        BY <3>1, <1>2, Zenon DEF PayloadWritten, FrameJoins
      <4> QED BY <4>1, <3>1, <1>1 DEF Types, TypeOK
    <3>2. CASE ~kept
      BY <3>2, <1>2, Zenon DEF PayloadWritten
    <3> QED BY <3>1, <3>2
  <2>3. Begun' = Begun
    BY <2>1, <2>2, <1>n DEF Begun
  <2> QED BY <2>1, <2>3, <1>5 DEF Open
<1>10. \A j \in 1..Begun :
         /\ Frame(j)' = Frame(j) /\ \A k : Wire(Frame(j), k)' = Wire(Frame(j), k)
         /\ j <= Len(sent) => Size(j)' = Size(j)
         /\ j > Len(sent) => Size(j) = 5 /\ Size(j)' = 5 + n /\ Frame(j) = half /\ kept
  <2>1. ASSUME NEW j \in 1..Begun, j <= Len(sent)
        PROVE  Frame(j)' = Frame(j) /\ Size(j)' = Size(j)
    <3>1. j \in 1..Len(sent)
      BY <2>1, <1>n
    <3>2. sent'[j] = sent[j] /\ j <= Len(sent')
      <4>1. CASE kept
        <5>1. sent' = Append(sent, half)
          BY <4>1, <1>2, Zenon DEF PayloadWritten, FrameJoins
        <5> QED BY <5>1, <3>1, <1>1 DEF Types, TypeOK
      <4>2. CASE ~kept
        BY <4>2, <3>1, <2>1, <1>2 DEF PayloadWritten
      <4> QED BY <4>1, <4>2
    <3> QED BY <2>1, <3>2 DEF Frame, Size
  <2>2. ASSUME NEW j \in 1..Begun, j > Len(sent)
        PROVE  /\ Frame(j)' = Frame(j) /\ Frame(j) = half /\ kept
               /\ Size(j) = 5 /\ Size(j)' = 5 + n
    <3>1. HalfWritten /\ j = Len(sent) + 1 /\ kept
      BY <2>2, <1>n, <1>9 DEF Begun
    <3>2. sent' = Append(sent, half)
      BY <3>1, <1>2, Zenon DEF PayloadWritten, FrameJoins
    <3>3. sent'[j] = half /\ j <= Len(sent')
      BY <3>1, <3>2, <1>1 DEF Types, TypeOK
    <3>4. ~(j <= Len(sent))
      BY <3>1, <1>n
    <3> QED BY <3>1, <3>3, <3>4, Zenon DEF Frame, Size, n
  <2>3. ASSUME NEW j \in 1..Begun
        PROVE  /\ Frame(j)' = Frame(j) /\ \A k : Wire(Frame(j), k)' = Wire(Frame(j), k)
               /\ j <= Len(sent) => Size(j)' = Size(j)
               /\ j > Len(sent) => Size(j) = 5 /\ Size(j)' = 5 + n /\ Frame(j) = half /\ kept
    <3>1. j <= Len(sent) \/ j > Len(sent)
      BY <1>n
    <3>2. Frame(j)' = Frame(j)
      BY <2>1, <2>2, <3>1
    <3>3. \A k : Wire(Frame(j), k)' = Wire(Frame(j), k)
      BY <3>2, Zenon DEF Wire
    <3> QED BY <2>1, <2>2, <3>2, <3>3
  <2> QED BY <2>3
<1>11. \A j \in Open : j \in 1..Begun /\ j \in Nat
  BY <1>n DEF Open
<1>12. \A j \in Open : start[j] \in Int /\ Size(j) \in Nat /\ Size(j) >= 5
  BY <1>1, <1>6, <1>11, OpenFrames
<1>13. ASSUME NEW j \in Open, j > Len(sent)
       PROVE  start[j] + 5 = Left + 1 /\ j = Begun
  <2>1. HalfWritten /\ j = Begun
    BY <1>1, <1>11, <1>13, OpenFrames
  <2> QED BY <2>1, <1>6 DEF LaidOut
<1>14. ASSUME NEW j \in Open, j <= Len(sent)
       PROVE  start[j] + Size(j) <= Left + 1 /\ Size(j)' = Size(j)
  BY <1>6, <1>10, <1>11, <1>14 DEF LaidOut
<1>15. \A j \in Open : j <= Len(sent) \/ j > Len(sent)
  BY <1>11, <1>n
<1>16. LaidOut(start)'
  <2>1. ASSUME NEW j \in Open PROVE start[j] + Size(j)' <= Left' + 1
    <3>1. CASE j <= Len(sent)
      <4>1. start[j] + Size(j) <= Left + 1 /\ Size(j)' = Size(j) /\ start[j] \in Int /\ Size(j) \in Nat
        BY <3>1, <1>12, <1>14
      <4>2. Left' = Left + n /\ Left \in Nat /\ n \in Nat
        BY <1>7, <1>8, <1>n
      <4> QED BY <4>1, <4>2
    <3>2. CASE j > Len(sent)
      <4>1. start[j] + 5 = Left + 1 /\ Size(j)' = 5 + n /\ start[j] \in Int
        BY <3>2, <1>10, <1>11, <1>12, <1>13
      <4>2. Left' = Left + n /\ Left \in Nat /\ n \in Nat
        BY <1>7, <1>8, <1>n
      <4> QED BY <4>1, <4>2
    <3> QED BY <3>1, <3>2, <1>15
  <2>2. ASSUME NEW j \in Open, NEW k \in 0..Size(j)' - 1, start[j] + k >= 1
        PROVE  At(start[j] + k)' = Wire(Frame(j), k)'
    <3>1. CASE k \in 0..Size(j) - 1
      <4>1. start[j] + Size(j) <= Left + 1
        BY <1>6 DEF LaidOut
      <4>2. start[j] \in Int /\ Size(j) \in Nat /\ Left \in Nat
        BY <1>12, <1>n
      <4>3. start[j] + k \in 1..Left
        BY <2>2, <3>1, <4>1, <4>2
      <4>4. At(start[j] + k) = Wire(Frame(j), k)
        BY <2>2, <3>1, <1>6 DEF LaidOut
      <4> QED BY <4>3, <4>4, <1>8, <1>10, <1>11
    <3>2. CASE k \notin 0..Size(j) - 1
      <4>1. j > Len(sent)
        BY <2>2, <3>2, <1>14, <1>15
      <4>2. /\ Size(j) = 5 /\ Size(j)' = 5 + n /\ Frame(j) = half
            /\ start[j] + 5 = Left + 1 /\ start[j] \in Int
        BY <4>1, <1>10, <1>11, <1>12, <1>13
      <4>3. k \in 0..(5 + n) - 1 /\ ~(k \in 0..5 - 1)
        BY <2>2, <3>2, <4>2
      <4>4. k - 4 \in 1..n /\ ~(k < 5)
        BY <4>3, <1>7
      <4>5. start[j] + k \in Left + 1 .. Left + n /\ (start[j] + k) - Left = k - 4
        <5>1. start[j] + 5 = Left + 1 /\ start[j] \in Int /\ Left \in Nat /\ n \in Nat
          BY <4>2, <1>7, <1>n
        <5> QED BY <5>1, <4>4
      <4>6. At(start[j] + k)' = e[k - 4]
        BY <4>5, <1>8
      <4>7. Wire(half, k) = e[k - 4]
        BY <4>4, Zenon DEF Wire, e
      <4> QED BY <4>2, <4>6, <4>7, <1>10, <1>11
    <3> QED BY <3>1, <3>2
  <2>3. ASSUME NEW j \in Open, NEW l \in Open, j < l PROVE start[j] + Size(j)' <= start[l]
    <3>1. j <= Len(sent)
      <4>1. j \in 1..Begun /\ l \in 1..Begun
        BY <1>11
      <4> QED BY <4>1, <2>3, <1>13, <1>15, <1>n
    <3>2. Size(j)' = Size(j)
      BY <3>1, <1>14
    <3> QED BY <2>3, <3>2, <1>6 DEF LaidOut
  <2>4. ASSUME NEW x \in 1..Left', At(x)' = 0
        PROVE  \E j \in Open : start[j] <= x /\ x < start[j] + Size(j)'
    <3>1. x \in 1..Left
      <4>1. SUFFICES ASSUME x \notin 1..Left PROVE FALSE
        OBVIOUS
      <4>2. x \in Left + 1 .. Left + n /\ x - Left \in 1..n
        <5>1. Left' = Left + n /\ Left \in Nat /\ n \in Nat
          BY <1>7, <1>8, <1>n
        <5> QED BY <5>1, <4>1, <2>4
      <4> QED BY <4>2, <2>4, <1>7, <1>8
    <3>2. At(x) = 0
      BY <3>1, <2>4, <1>8
    <3>3. PICK j \in Open : start[j] <= x /\ x < start[j] + Size(j)
      BY <3>1, <3>2, <1>6 DEF LaidOut
    <3>4. Size(j)' = Size(j) \/ (Size(j) = 5 /\ Size(j)' = 5 + n)
      BY <1>10, <1>11, <1>15
    <3>5. start[j] \in Int /\ n \in Nat /\ x \in Int
      BY <1>7, <1>12, <3>1
    <3>6. x < start[j] + Size(j)'
      BY <3>3, <3>4, <3>5
    <3> QED BY <3>3, <3>6
  <2> QED BY <2>1, <2>2, <2>3, <2>4, <1>9 DEF LaidOut
<1>17. Decoding(start)'
  <2>1. Begun' \in Nat /\ Begun <= Begun'
    BY <1>9, <1>n
  <2>2. \A j \in Open : Frame(j)' = Frame(j)
    BY <1>10, <1>11
  <2>3. \A j \in Open' : j \in Open
    BY <1>9
  <2> QED BY <2>1, <2>2, <2>3, <1>1, <1>4, <1>5, <1>6, DecodingKept
<1> QED BY <1>1, <1>5, <1>6, <1>16, <1>17, Zenon DEF IInv

-----------------------------------------------------------------------------
(* The theorems. *)

LEMMA InvInit == Init => IInv
<1> SUFFICES ASSUME Init PROVE IInv
  OBVIOUS
<1>1. Types
  BY TypesInit
<1>2. /\ Len(sent) = 0 /\ Len(due) = 0 /\ Len(delivered) = 0 /\ errors = 0
      /\ Len(line) = 0 /\ length = 0 /\ i = 0 /\ half = NoFrame /\ state = "HUNT_SYNC"
      /\ delivered \in Seq(Frames)
  BY DEF Init
<1>3. DueListed /\ InTurn
  BY <1>2 DEF DueListed, InTurn, DeliveredInOrder, Handled
<1>4. ~HalfWritten /\ Open = {} /\ Left = 0
  BY <1>2 DEF HalfWritten, Open, Begun, Handled, Left
<1>5. PICK start \in [Nat -> Int] : start = [j \in Nat |-> 0]
  <2>1. [j \in Nat |-> 0] \in [Nat -> Int]
    OBVIOUS
  <2> QED BY <2>1, Zenon
<1>6. LaidOut(start) /\ Decoding(start)
  BY <1>2, <1>4 DEF LaidOut, Decoding
<1> QED BY <1>1, <1>3, <1>6, Zenon DEF IInv

LEMMA InvStep ==
  ASSUME Whole, IInv, [Next]_vars
  PROVE  IInv'
<1> USE DEF Whole
<1>0. IInv
  OBVIOUS
<1>1. CASE UNCHANGED vars
  <2>1. /\ UNCHANGED <<half, kept, line, encoded, sent, due, orphan, sure>>
        /\ UNCHANGED <<data, length, i, capacity, state, header, headerPos>>
        /\ UNCHANGED <<rxPayload, rxPos, nextZero, delivered, errors>>
    BY <1>1, Zenon DEF vars, sender, receiver
  <2>2. Types' /\ DueListed' /\ InTurn' /\ Handled' = Handled
    BY <2>1, Zenon DEF IInv, Types, TypeOK, DueListed, Fits, InTurn, Handled, DeliveredInOrder
  <2>3. /\ Left' = Left /\ \A x : At(x)' = At(x)
        /\ HalfWritten' = HalfWritten /\ Begun' = Begun
        /\ \A j : Frame(j)' = Frame(j) /\ Size(j)' = Size(j)
    BY <2>1, Zenon DEF Left, At, HalfWritten, Begun, Frame, Size
  <2>4. Open' = Open /\ \A j, k : Wire(Frame(j), k)' = Wire(Frame(j), k)
    BY <2>2, <2>3, Zenon DEF Open, Wire
  <2>5. PICK start \in [Nat -> Int] : LaidOut(start) /\ Decoding(start)
    BY <1>0 DEF IInv
  <2>6. LaidOut(start)'
    BY <2>3, <2>4, <2>5, Zenon DEF LaidOut
  <2>7. Decoding(start)'
    <3>1. UNCHANGED receiver /\ Begun' \in Nat /\ Begun <= Begun'
      <4>1. Begun \in Nat
        BY <1>0, Numbers DEF IInv
      <4> QED BY <2>1, <2>3, <4>1 DEF receiver
    <3> QED BY <1>0, <2>2, <2>3, <2>4, <2>5, <3>1, DecodingKept DEF IInv
  <2> QED BY <2>2, <2>6, <2>7, Zenon DEF IInv
<1>2. ASSUME NEW f \in Frames, WriteHeader(f) PROVE IInv'
  BY <1>2, StepWriteHeader
<1>3. CASE WritePayload
  BY <1>3, StepWritePayload
<1>4. ASSUME NEW n \in 1..ReadMax, Read(n) PROVE IInv'
  BY <1>4, StepRead
<1>5. CASE HuntSync
  BY <1>5, StepHuntSync
<1>6. CASE ReadHeader
  BY <1>6, StepReadHeader
<1>7. CASE ReadPayload
  BY <1>7, StepReadPayload
<1> QED BY <1>1, <1>2, <1>3, <1>4, <1>5, <1>6, <1>7, Zenon DEF Next

(* Every frame that was begun and is not yet handled lies whole in the     *)
(* bytes that are left, what the decoder holds is a part of the first of   *)
(* them, and no other byte is a zero (Stream::process).                    *)
THEOREM Inductive == Whole /\ Spec => []IInv
<1> SUFFICES ASSUME Whole PROVE Spec => []IInv
  OBVIOUS
<1>1. IInv /\ [Next]_vars => IInv'
  BY InvStep
<1> QED BY InvInit, <1>1, PTL DEF Spec

(* The frames delivered are the first of those sent that fit the receive   *)
(* buffer, unchanged, in order, each once: for every set of payloads of up *)
(* to ByteMod - 1 bytes, every checksum, every cut of the bytes into reads *)
(* and whatever headers the transport refuses.                             *)
THEOREM FramesAreInOrder == Whole /\ Spec => []DeliveredInOrder
<1> SUFFICES ASSUME Whole PROVE Spec => []DeliveredInOrder
  OBVIOUS
<1>1. IInv => DeliveredInOrder
  BY DEF IInv, InTurn
<1> QED BY Inductive, <1>1, PTL

(* No more errors are reported than there are frames too long for the      *)
(* receive buffer, and one for each of them when all bytes are processed   *)
(* (onError).                                                              *)
LEMMA NoMoreErrors ==
  ASSUME IInv
  PROVE  errors <= Len(sent) - Len(due)
<1> DEFINE d == Len(delivered)
           m == Len(due)
<1>1. Types /\ InTurn /\ DueListed
  BY DEF IInv
<1>2. /\ d \in Nat /\ m \in Nat /\ errors \in Nat /\ Len(sent) \in Nat
      /\ Handled = d + errors /\ Handled <= Len(sent)
  <2>1. Len(due) \in Nat
    BY <1>1 DEF Types, TypeOK
  <2> QED BY <1>1, <2>1, Numbers
<1>3. d <= m
  BY <1>1 DEF InTurn, DeliveredInOrder
<1>4. CASE d = m
  BY <1>2, <1>4
<1>5. CASE d < m
  <2>1. d + 1 \in 1..m /\ m \in 1..m /\ ~(d + 1 <= d)
    BY <1>2, <1>5
  <2>2. due[m] \in 1..Len(sent) /\ due[d + 1] \in 1..Len(sent)
    BY <1>1, <2>1, ElementOfSeq, Zenon DEF Types, TypeOK
  <2>3. ~(due[d + 1] <= Handled)
    BY <1>1, <2>1 DEF InTurn
  <2>4. m - (d + 1) <= due[m] - due[d + 1]
    <3>1. d + 1 < m => m - (d + 1) <= due[m] - due[d + 1]
      BY <1>1, <2>1 DEF DueListed
    <3>2. d + 1 < m \/ d + 1 = m
      BY <1>2, <1>5
    <3> QED BY <3>1, <3>2, <2>2, <1>2
  <2> HIDE DEF d, m
  <2>5. errors <= Len(sent) - m
    BY <1>2, <2>2, <2>3, <2>4
  <2> QED BY <2>5 DEF m
<1> QED BY <1>2, <1>3, <1>4, <1>5

(* With no byte left, no frame is open: all that was sent is handled, and  *)
(* all that fits is delivered.                                             *)
LEMMA NoFewerErrors ==
  ASSUME IInv, half = NoFrame, line = << >>, i = length
  PROVE  errors = Len(sent) - Len(due)
<1> DEFINE d == Len(delivered)
           m == Len(due)
<1>1. Types /\ InTurn /\ DueListed
  BY DEF IInv
<1>2. /\ d \in Nat /\ m \in Nat /\ errors \in Nat /\ Len(sent) \in Nat
      /\ Handled \in Nat /\ Handled = d + errors /\ Handled <= Len(sent)
  <2>1. Len(due) \in Nat
    BY <1>1 DEF Types, TypeOK
  <2> QED BY <1>1, <2>1, Numbers
<1>3. ~HalfWritten /\ Begun = Len(sent) /\ Left = 0
  <2>1. ~HalfWritten
    BY DEF HalfWritten
  <2>2. i \in Nat /\ length \in Nat /\ Len(line) = 0
    BY <1>1, Numbers
  <2> QED BY <1>2, <2>1, <2>2 DEF Begun, Left
<1>4. Handled = Len(sent)
  <2> SUFFICES ASSUME Handled < Len(sent) PROVE FALSE
    BY <1>2
  <2> DEFINE h == Handled + 1
  <2>1. h \in Open /\ h \in Nat
    BY <1>2, <1>3 DEF Open
  <2>2. PICK start \in [Nat -> Int] : LaidOut(start) /\ Decoding(start)
    BY DEF IInv
  <2>3. start[h] \in Int /\ start[h] + Size(h) <= 1
    <3>1. start[h] + Size(h) <= Left + 1
      BY <2>1, <2>2, Zenon DEF LaidOut
    <3>2. start[h] \in Int
      BY <2>1
    <3> QED BY <1>3, <3>1, <3>2
  <2>4. h \in 1..Begun /\ h <= Len(sent)
    BY <1>2, <1>3
  <2>5. /\ Frame(h) \in Frames /\ Len(Frame(h).payload) \in Nat
        /\ Size(h) = 5 + Len(Frame(h).payload)
    <3>1. sent \in Seq(Frames) /\ h \in 1..Len(sent)
      BY <1>1, <1>2, <2>4 DEF Types, TypeOK
    <3>2. sent[h] \in Frames
      BY <3>1, ElementOfSeq, Zenon
    <3>3. Len(sent[h].payload) \in Nat
      BY <3>2, FrameIs
    <3>4. Frame(h) = sent[h] /\ Size(h) = 5 + Len(sent[h].payload)
      BY <2>4 DEF Frame, Size
    <3> QED BY <3>2, <3>3, <3>4
  <2>6. CASE state = "HUNT_SYNC"
    <3>1. start[h] >= 1
      BY <2>1, <2>2, <2>6, Zenon DEF Decoding
    <3> QED BY <2>3, <2>5, <3>1
  <2>7. CASE state = "READ_HEADER"
    <3>1. headerPos \in 1..4 /\ start[h] = 1 - headerPos
      BY <1>1, <2>1, <2>2, <2>7, Zenon DEF Decoding, Types
    <3> QED BY <2>3, <2>5, <3>1
  <2>8. CASE state = "READ_PAYLOAD"
    <3>1. start[h] = -4 - rxPos /\ rxPos < Len(Frame(h).payload)
      BY <2>1, <2>2, <2>8, Zenon DEF Decoding
    <3>2. rxPos \in Nat
      BY <1>1, Constants DEF Types, TypeOK
    <3> QED BY <2>3, <2>5, <3>1, <3>2
  <2> QED BY <1>1, <2>6, <2>7, <2>8 DEF Types, TypeOK
<1>5. d <= m
  BY <1>1 DEF InTurn, DeliveredInOrder
<1>6. ~(d < m)
  <2> SUFFICES ASSUME d < m PROVE FALSE
    OBVIOUS
  <2>1. m \in 1..m /\ ~(m <= d)
    BY <1>2
  <2>2. due[m] \in 1..Len(sent)
    BY <1>1, <2>1, ElementOfSeq, Zenon DEF Types, TypeOK
  <2>3. ~(due[m] <= Handled)
    BY <1>1, <2>1 DEF InTurn
  <2> QED BY <1>2, <1>4, <2>2, <2>3
<1> QED BY <1>2, <1>4, <1>5, <1>6

THEOREM ErrorsAreReal == Whole /\ Spec => []TooLongAreReported
<1> SUFFICES ASSUME Whole PROVE Spec => []TooLongAreReported
  OBVIOUS
<1>1. IInv => TooLongAreReported
  BY NoMoreErrors, NoFewerErrors, Zenon DEF TooLongAreReported
<1> QED BY Inductive, <1>1, PTL

-----------------------------------------------------------------------------
(* Headers left without their payload.  As long as no code wraps to 0, the *)
(* first byte of a header is the only zero of a frame.                     *)
Clear == ~Shared /\ \A p \in Payloads : Code(p, 0) # 0

(* A header the transport took: the place of its first byte among all the  *)
(* bytes, its frame, and which of sent that is, 0 if it is none.           *)
Item == [at : Nat, frame : Frames, rank : Nat]
FullSize(it) == 5 + Len(it.frame.payload)
Extent(it) == IF it.rank > 0 THEN FullSize(it) ELSE 5

(* Its payload has been or may still be written. *)
InHand(t, m) == t[m].rank > 0 \/ (HalfWritten /\ m = Len(t))

(* What comes before it is no header without its payload. *)
AfterWhole(t, m) == m = 1 \/ t[m - 1].rank > 0

TrailIs(t) ==
  /\ \A m \in 1..Len(t) : t[m].rank > 0 =>
       t[m].rank <= Len(sent) /\ sent[t[m].rank] = t[m].frame
  /\ \A k \in 1..Len(sent) : \E m \in 1..Len(t) : t[m].rank = k
  /\ \A m, l \in 1..Len(t) :
       m < l /\ t[m].rank > 0 /\ t[l].rank > 0 => t[m].rank < t[l].rank
  /\ HalfWritten => Len(t) > 0 /\ t[Len(t)].rank = 0 /\ t[Len(t)].frame = half
  /\ sure \subseteq 1..Len(sent)
  /\ \A m \in 1..Len(t) : t[m].rank \in sure => AfterWhole(t, m)
  /\ ~orphan => AfterWhole(t, IF HalfWritten THEN Len(t) ELSE Len(t) + 1)

(* The bytes from a place on are left: those of the headers and payloads   *)
(* and, outside of them, no zero.                                          *)
Lies(t, base) ==
  /\ \A m \in 1..Len(t) : t[m].at + Extent(t[m]) <= base + Left
  /\ HalfWritten => t[Len(t)].at + 5 = base + Left
  /\ \A m, l \in 1..Len(t) : m < l => t[m].at + Extent(t[m]) <= t[l].at
  /\ \A m \in 1..Len(t) : \A k \in 0..Extent(t[m]) - 1 :
       t[m].at + k >= base => At(t[m].at + k - base + 1) = Wire(t[m].frame, k)
  /\ \A x \in 1..Left : At(x) = 0 => \E m \in 1..Len(t) : t[m].at = base + x - 1

(* The decoder is in the header or the payload it read last, or lost       *)
(* behind one without its payload, and never hunts inside a frame that     *)
(* follows a whole one and fits.                                           *)
HeaderOf(f, n) == \A k \in 0..n - 1 : header[k] = Wire(f, k)

Follows(it, base) ==
  LET p == it.frame.payload IN
  /\ HeaderOf(it.frame, 5) /\ base = it.at + 5 + rxPos /\ rxPos < Len(p)
  /\ nextZero = Code(p, rxPos)
  /\ \A k \in 0..rxPos - 1 : rxPayload[k] = p[k + 1]

LostBehind(t, m, base) ==
  /\ ~InHand(t, m) /\ rxPos < header[2]
  /\ t[m].at < base /\ \A l \in 1..Len(t) : l > m => t[l].at >= base

Tracks(t, base) ==
  /\ state = "READ_HEADER" => \E m \in 1..Len(t) :
       base = t[m].at + headerPos /\ HeaderOf(t[m].frame, headerPos)
  /\ state = "READ_PAYLOAD" => \E m \in 1..Len(t) :
       (InHand(t, m) /\ Follows(t[m], base)) \/ LostBehind(t, m, base)
  /\ state = "HUNT_SYNC" => \A m \in 1..Len(t) :
       InHand(t, m) /\ AfterWhole(t, m) /\ Fits(t[m].frame) =>
         t[m].at >= base \/ t[m].at + FullSize(t[m]) <= base

(* Places of the elements of a set of numbers among what was delivered, in *)
(* order, and one more of them behind the others.                          *)
Placed(ones, place, d, frame) ==
  /\ \A m \in ones : place[m] \in 1..Len(d) /\ d[place[m]] = frame[m]
  /\ \A m, l \in ones : m < l => place[m] < place[l]

(* Each frame behind a whole one that fits and is over was delivered, at a *)
(* place behind those of the ones before.                                  *)
Owed(t, m, base) ==
  /\ t[m].rank > 0 /\ AfterWhole(t, m) /\ Fits(t[m].frame)
  /\ t[m].at + FullSize(t[m]) <= base

OwedOnes(t, base) == {m \in 1..Len(t) : Owed(t, m, base)}
FramesOf(t) == [m \in 1..Len(t) |-> t[m].frame]
Handed(t, base, place) == Placed(OwedOnes(t, base), place, delivered, FramesOf(t))

Traced(t, base) ==
  /\ TrailIs(t) /\ Lies(t, base) /\ Tracks(t, base)
  /\ \E place \in [Nat -> Nat] : Handed(t, base, place)

LossInv ==
  /\ Types
  /\ \E kinds : delivered \in Seq(kinds)
  /\ \E t \in Seq(Item), base \in Nat : Traced(t, base)

LEMMA ItemIs ==
  ASSUME NEW t \in Seq(Item), NEW m \in 1..Len(t)
  PROVE  /\ t[m].at \in Nat /\ t[m].rank \in Nat /\ t[m].frame \in Frames /\ m \in Nat
         /\ Len(t[m].frame.payload) \in Nat /\ Len(t[m].frame.payload) >= 1
         /\ FullSize(t[m]) = 5 + Len(t[m].frame.payload)
         /\ Extent(t[m]) \in Nat /\ Extent(t[m]) >= 5
         /\ t[m].rank > 0 => Extent(t[m]) = FullSize(t[m])
         /\ t[m].rank = 0 => Extent(t[m]) = 5
<1>1. t[m] \in Item
  BY ElementOfSeq, Zenon
<1>2. t[m].at \in Nat /\ t[m].rank \in Nat /\ t[m].frame \in Frames
  BY <1>1 DEF Item
<1>3. Len(t[m].frame.payload) \in Nat /\ Len(t[m].frame.payload) >= 1
  BY <1>2, FrameIs, Constants
<1> QED BY <1>2, <1>3 DEF FullSize, Extent

IsItem(it) ==
  /\ it.at \in Nat /\ it.rank \in Nat /\ it.frame \in Frames
  /\ FullSize(it) \in Nat /\ FullSize(it) > 5
  /\ Extent(it) \in Nat /\ Extent(it) >= 5
  /\ it.rank > 0 => Extent(it) = FullSize(it)

LEMMA ItemsAre ==
  ASSUME NEW t \in Seq(Item)
  PROVE  Len(t) \in Nat /\ \A m \in 1..Len(t) : IsItem(t[m]) /\ m \in Nat
<1>1. ASSUME NEW m \in 1..Len(t) PROVE IsItem(t[m]) /\ m \in Nat
  BY ItemIs DEF IsItem
<1> QED BY <1>1

(* A place is in one header or frame at most. *)
LEMMA OneAt ==
  ASSUME NEW t \in Seq(Item), NEW base \in Nat, Lies(t, base),
         NEW m \in 1..Len(t), NEW l \in 1..Len(t), NEW y \in Int,
         t[m].at <= y, y < t[m].at + Extent(t[m]), t[l].at <= y, y < t[l].at + Extent(t[l])
  PROVE  m = l
<1>1. ~(m < l) /\ ~(l < m)
  <2>1. /\ m < l => t[m].at + Extent(t[m]) <= t[l].at
        /\ l < m => t[l].at + Extent(t[l]) <= t[m].at
    BY DEF Lies
  <2>2. /\ t[m].at \in Nat /\ Extent(t[m]) \in Nat
        /\ t[l].at \in Nat /\ Extent(t[l]) \in Nat
    BY ItemIs
  <2> QED BY <2>1, <2>2
<1> QED BY <1>1

LEMMA TrailStays ==
  ASSUME UNCHANGED sender, NEW t
  PROVE  /\ TrailIs(t) => TrailIs(t)'
         /\ \A m : InHand(t, m)' <=> InHand(t, m)
         /\ HalfWritten' <=> HalfWritten
BY DEF sender, TrailIs, InHand, HalfWritten, AfterWhole

(* One byte on: it is the first of a header exactly if it is a zero. *)
LEMMA ByteBehind ==
  ASSUME Types, ByteTaken, UNCHANGED sender,
         NEW t \in Seq(Item), NEW base \in Nat, TrailIs(t), Lies(t, base)
  PROVE  /\ TrailIs(t)' /\ Lies(t, base + 1)'
         /\ Left \in Nat /\ Left >= 1
         /\ \A m \in 1..Len(t) : t[m].at = base => data[i] = 0
         /\ data[i] = 0 => \E m \in 1..Len(t) : t[m].at = base
         /\ \A m \in 1..Len(t) : \A k \in 0..Extent(t[m]) - 1 :
              t[m].at + k = base => data[i] = Wire(t[m].frame, k)
         /\ \A m \in 1..Len(t) : HalfWritten /\ m = Len(t) => base < t[m].at + 5
<1>1. /\ Left \in Nat /\ Left >= 1 /\ Left' = Left - 1 /\ At(1) = data[i]
      /\ \A x \in 2..Left : At(x - 1)' = At(x)
  BY OneByteOn
<1>2. TrailIs(t)' /\ (HalfWritten' <=> HalfWritten)
  BY TrailStays
<1>3. \A m \in 1..Len(t) : t[m].at \in Nat /\ Extent(t[m]) \in Nat /\ Extent(t[m]) >= 5
                           /\ t[m].frame \in Frames
  BY ItemIs
<1>4. ASSUME NEW m \in 1..Len(t), NEW k \in 0..Extent(t[m]) - 1, t[m].at + k = base
      PROVE  data[i] = Wire(t[m].frame, k)
  <2>1. t[m].at + k - base + 1 = 1 /\ t[m].at + k >= base
    BY <1>3, <1>4
  <2>2. At(t[m].at + k - base + 1) = Wire(t[m].frame, k)
    BY <2>1 DEF Lies
  <2> QED BY <2>1, <2>2, <1>1
<1>5. ASSUME NEW m \in 1..Len(t), t[m].at = base PROVE data[i] = 0
  <2>1. 0 \in 0..Extent(t[m]) - 1 /\ t[m].at + 0 = base
    BY <1>3, <1>5
  <2> QED BY <2>1, <1>3, <1>4, WireIs
<1>6. ASSUME data[i] = 0 PROVE \E m \in 1..Len(t) : t[m].at = base
  <2>1. 1 \in 1..Left /\ base + 1 - 1 = base
    BY <1>1
  <2> QED BY <2>1, <1>1, <1>6 DEF Lies
<1>7. \A m \in 1..Len(t) : t[m].at + Extent(t[m]) <= base + 1 + Left'
  BY <1>1, <1>3 DEF Lies
<1>8. HalfWritten => t[Len(t)].at + 5 = base + 1 + Left'
  BY <1>1 DEF Lies
<1>9. ASSUME NEW m \in 1..Len(t), NEW k \in 0..Extent(t[m]) - 1, t[m].at + k >= base + 1
      PROVE  At(t[m].at + k - (base + 1) + 1)' = Wire(t[m].frame, k)
  <2> DEFINE x == t[m].at + k - base + 1
  <2>1. t[m].at + Extent(t[m]) <= base + Left
    BY DEF Lies
  <2>2. x \in 2..Left /\ t[m].at + k - (base + 1) + 1 = x - 1 /\ t[m].at + k >= base
    <3>1. /\ t[m].at \in Nat /\ Extent(t[m]) \in Nat /\ Left \in Nat
          /\ k \in 0..Extent(t[m]) - 1 /\ t[m].at + k >= base + 1
      BY <1>1, <1>3, <1>9, Zenon
    <3> DEFINE a == t[m].at
               e == Extent(t[m])
               l == Left
    <3>2. a \in Nat /\ e \in Nat /\ l \in Nat /\ k \in 0..e - 1 /\ a + k >= base + 1 /\ a + e <= base + l
      BY <2>1, <3>1
    <3> HIDE DEF a, e, l
    <3>3. a + k - base + 1 \in 2..l /\ a + k - (base + 1) + 1 = (a + k - base + 1) - 1 /\ a + k >= base
      BY <3>2
    <3> QED BY <3>3, Zenon DEF a, l
  <2>3. At(x) = Wire(t[m].frame, k)
    BY <2>2 DEF Lies
  <2>4. At(x - 1)' = At(x)
    BY <2>2, <1>1
  <2> HIDE DEF x
  <2> QED BY <2>2, <2>3, <2>4
<1>10. ASSUME NEW y \in 1..Left', At(y)' = 0
       PROVE  \E m \in 1..Len(t) : t[m].at = base + 1 + y - 1
  <2> DEFINE x == y + 1
  <2>1. x \in 2..Left /\ x \in 1..Left /\ x - 1 = y /\ base + 1 + y - 1 = base + x - 1
    BY <1>1
  <2>2. At(x) = 0
    BY <2>1, <1>1, <1>10
  <2> HIDE DEF x
  <2> QED BY <2>1, <2>2 DEF Lies
<1>11. \A m, k : Wire(t[m].frame, k)' = Wire(t[m].frame, k)
  BY DEF Wire
<1>12. \A m \in 1..Len(t) : HalfWritten /\ m = Len(t) => base < t[m].at + 5
  BY <1>1, <1>3 DEF Lies
<1>13. Lies(t, base + 1)'
  BY <1>2, <1>7, <1>8, <1>9, <1>10, <1>11 DEF Lies
<1> QED BY <1>1, <1>2, <1>4, <1>5, <1>6, <1>12, <1>13

(* The frame that ends with this byte, if it is owed, is the one delivered. *)
Delivers(t, base) ==
  /\ delivered' = delivered \/ \E x : delivered' = Append(delivered, x)
  /\ \A m \in 1..Len(t) : Owed(t, m, base + 1) /\ t[m].at + FullSize(t[m]) = base + 1 =>
       delivered' = Append(delivered, t[m].frame)

LEMMA OneMore ==
  ASSUME NEW kinds, NEW d \in Seq(kinds), NEW x
  PROVE  /\ Len(Append(d, x)) = Len(d) + 1 /\ Append(d, x)[Len(d) + 1] = x
         /\ \A k \in 1..Len(d) : Append(d, x)[k] = d[k]
         /\ Append(d, x) \in Seq(kinds \union {x}) /\ Len(d) \in Nat
<1> DEFINE s == kinds \union {x}
<1>1. d \in Seq(s) /\ x \in s
  <2>1. kinds \subseteq s
    OBVIOUS
  <2> QED BY <2>1, SeqMonotonic
<1> HIDE DEF s
<1>2. Append(d, x) \in Seq(s)
  BY <1>1
<1> QED BY <1>1, <1>2 DEF s

LEMMA PlacedStays ==
  ASSUME NEW kinds, NEW d \in Seq(kinds), NEW e, NEW x, e = d \/ e = Append(d, x),
         NEW old, NEW now, now \subseteq old, NEW frame, NEW place, Placed(old, place, d, frame)
  PROVE  Placed(now, place, e, frame)
<1>1. Len(d) \in Nat /\ Len(e) \in Nat /\ Len(d) <= Len(e) /\ \A k \in 1..Len(d) : e[k] = d[k]
  BY OneMore
<1>2. ASSUME NEW m \in now PROVE place[m] \in 1..Len(e) /\ e[place[m]] = frame[m]
  <2>1. place[m] \in 1..Len(d) /\ d[place[m]] = frame[m]
    BY DEF Placed
  <2>2. e[place[m]] = frame[m]
    BY <2>1, <1>1, Zenon
  <2> QED BY <2>1, <2>2, <1>1
<1> QED BY <1>2 DEF Placed

LEMMA OneWider ==
  ASSUME NEW b \in Nat, NEW a \in 1..b, NEW c, c = b + 1 PROVE a \in 1..c
OBVIOUS

LEMMA PlacedOnce ==
  ASSUME NEW kinds, NEW d \in Seq(kinds), NEW frame, NEW z \in Nat,
         NEW old, NEW now, \A m \in now : m = z \/ (m \in old /\ m < z),
         now \in SUBSET Nat, NEW place \in [Nat -> Nat], Placed(old, place, d, frame)
  PROVE  \E q \in [Nat -> Nat] : Placed(now, q, Append(d, frame[z]), frame)
<1> DEFINE e == Append(d, frame[z])
           w == Len(d) + 1
           q == [m \in Nat |-> IF m = z THEN w ELSE place[m]]
<1>1. /\ Len(d) \in Nat /\ Len(e) = Len(d) + 1 /\ e[Len(d) + 1] = frame[z]
      /\ \A k \in 1..Len(d) : e[k] = d[k]
  BY OneMore
<1>2. q \in [Nat -> Nat] /\ q[z] = Len(d) + 1 /\ \A m \in Nat : m # z => q[m] = place[m]
  <2>1. w \in Nat
    BY <1>1
  <2> HIDE DEF w
  <2> QED BY <2>1 DEF w
<1> HIDE DEF q, e
<1>3. ASSUME NEW m \in now, m # z
      PROVE  q[m] = place[m] /\ m \in old /\ place[m] \in 1..Len(d) /\ e[place[m]] = frame[m]
  <2>1. m \in old /\ m \in Nat
    BY <1>3
  <2>2. place[m] \in 1..Len(d) /\ d[place[m]] = frame[m]
    BY <2>1 DEF Placed
  <2> QED BY <2>1, <2>2, <1>1, <1>2, <1>3, Zenon
<1>4. ASSUME NEW m \in now PROVE q[m] \in 1..Len(e) /\ e[q[m]] = frame[m]
  <2>1. CASE m = z
    BY <2>1, <1>1, <1>2
  <2>2. CASE m # z
    <3>1. q[m] = place[m] /\ place[m] \in 1..Len(d) /\ e[q[m]] = frame[m]
      BY <2>2, <1>3
    <3>2. Len(d) \in Nat /\ Len(e) = Len(d) + 1
      BY <1>1
    <3>3. q[m] \in 1..Len(d)
      BY <3>1, Zenon
    <3>4. q[m] \in 1..Len(e)
      BY <3>2, <3>3, OneWider, Zenon
    <3> QED BY <3>1, <3>4
  <2> QED BY <2>1, <2>2
<1>5. ASSUME NEW m \in now, NEW l \in now, m < l PROVE q[m] < q[l]
  <2>1. m # z
    BY <1>5
  <2>2. q[m] = place[m] /\ m \in old /\ place[m] \in 1..Len(d)
    BY <2>1, <1>3
  <2>3. CASE l = z
    BY <2>2, <2>3, <1>1, <1>2
  <2>4. CASE l # z
    <3>1. q[l] = place[l] /\ l \in old
      BY <2>4, <1>3
    <3>2. place[m] < place[l]
      BY <3>1, <2>2, <1>5 DEF Placed
    <3> QED BY <3>1, <3>2, <2>2
  <2> QED BY <2>3, <2>4
<1>6. Placed(now, q, e, frame)
  BY <1>4, <1>5 DEF Placed
<1> QED BY <1>2, <1>6 DEF e

LEMMA Before ==
  ASSUME NEW a \in Nat, NEW n \in Nat, NEW b \in Nat, NEW c \in Nat, NEW o \in Nat,
         a + n = b + 1, c + o <= b + 1, n > 0, o > 0
  PROVE  ~(a + n <= c) /\ (c + o <= a => c + o <= b)
OBVIOUS

LEMMA HandedOn ==
  ASSUME UNCHANGED <<sender, capacity>>, NEW t \in Seq(Item), NEW base \in Nat, Lies(t, base),
         NEW place \in [Nat -> Nat], Handed(t, base, place),
         NEW kinds, delivered \in Seq(kinds),
         Delivers(t, base)
  PROVE  /\ \E q \in [Nat -> Nat] : Handed(t, base + 1, q)'
         /\ (\E s : delivered \in Seq(s))'
<1> DEFINE now == OwedOnes(t, base + 1)
           old == OwedOnes(t, base)
           New(m) == Owed(t, m, base + 1) /\ t[m].at + FullSize(t[m]) = base + 1
<1>1. /\ OwedOnes(t, base + 1)' = now /\ FramesOf(t)' = FramesOf(t)
      /\ \A q : Handed(t, base + 1, q)' <=> Placed(now, q, delivered', FramesOf(t))
  <2>1. \A m : Owed(t, m, base + 1)' <=> Owed(t, m, base + 1)
    BY DEF Owed, AfterWhole, Fits
  <2>2. OwedOnes(t, base + 1)' = now
    BY <2>1 DEF OwedOnes
  <2>3. FramesOf(t)' = FramesOf(t)
    BY DEF FramesOf
  <2> HIDE DEF now
  <2>4. \A q : Handed(t, base + 1, q)' <=> Placed(OwedOnes(t, base + 1)', q, delivered', FramesOf(t)')
    BY DEF Handed, Placed
  <2>5. \A q : Handed(t, base + 1, q)' <=> Placed(now, q, delivered', FramesOf(t))
    BY <2>2, <2>3, <2>4
  <2> QED BY <2>2, <2>3, <2>5, Zenon
<1>2. (\E s : delivered \in Seq(s))'
  <2>1. ASSUME NEW x, delivered' = Append(delivered, x)
        PROVE  delivered' \in Seq(kinds \union {x})
    BY <2>1, OneMore, Zenon
  <2>2. \E s : delivered' \in Seq(s)
    BY <2>1, Zenon DEF Delivers
  <2> QED BY <2>2
<1>3. ASSUME NEW m \in 1..Len(t)
      PROVE  /\ t[m].at \in Nat /\ FullSize(t[m]) \in Nat /\ FullSize(t[m]) > 0
             /\ Owed(t, m, base + 1) => Owed(t, m, base) \/ New(m)
             /\ Owed(t, m, base + 1) => Extent(t[m]) = FullSize(t[m])
  <2>1. t[m].at \in Nat /\ FullSize(t[m]) \in Nat /\ FullSize(t[m]) > 5
    BY ItemsAre, Zenon DEF IsItem
  <2> DEFINE a == t[m].at
             n == FullSize(t[m])
  <2>2. a + n <= base + 1 => a + n <= base \/ a + n = base + 1
    <3>1. a \in Nat /\ n \in Nat
      BY <2>1, Zenon
    <3> HIDE DEF a, n
    <3> QED BY <3>1
  <2>3. n > 0
    BY <2>1, SMT
  <2> QED BY <2>1, <2>2, <2>3, Zenon DEF Owed, Extent
<1>4. ASSUME NEW m \in 1..Len(t), New(m)
      PROVE  \E q \in [Nat -> Nat] : Handed(t, base + 1, q)'
  <2>1. delivered' = Append(delivered, FramesOf(t)[m])
    BY <1>4 DEF Delivers, FramesOf
  <2>2. ASSUME NEW l \in now PROVE l = m \/ (l \in old /\ l < m)
    <3>1. l \in 1..Len(t) /\ Owed(t, l, base + 1)
      BY Zenon DEF OwedOnes
    <3>2. /\ m < l => t[m].at + FullSize(t[m]) <= t[l].at
          /\ l < m => t[l].at + FullSize(t[l]) <= t[m].at
      BY <1>3, <1>4, <3>1, Zenon DEF Lies
    <3>3. t[l].at + FullSize(t[l]) <= base + 1
      BY <3>1, Zenon DEF Owed
    <3>4. /\ ~(t[m].at + FullSize(t[m]) <= t[l].at)
          /\ t[l].at + FullSize(t[l]) <= t[m].at => t[l].at + FullSize(t[l]) <= base
      <4> DEFINE a == t[m].at
                 n == FullSize(t[m])
                 b == t[l].at
                 o == FullSize(t[l])
      <4>1. /\ a \in Nat /\ n \in Nat /\ n > 0 /\ b \in Nat /\ o \in Nat /\ o > 0
            /\ a + n = base + 1 /\ b + o <= base + 1
        BY <3>1, <3>3, <1>3, <1>4, Zenon
      <4> HIDE DEF a, n, b, o
      <4>2. ~(a + n <= b) /\ (b + o <= a => b + o <= base)
        BY <4>1, Before, Zenon
      <4> QED BY <4>2, Zenon DEF a, n, b, o
    <3>5. l < m => Owed(t, l, base)
      BY <3>1, <3>2, <3>4, Zenon DEF Owed
    <3>6. l < m \/ l = m \/ m < l
      BY <3>1
    <3> QED BY <3>1, <3>2, <3>4, <3>5, <3>6, Zenon DEF OwedOnes
  <2>3. now \in SUBSET Nat /\ m \in Nat
    BY DEF OwedOnes
  <2> HIDE DEF now, old
  <2>4. \E q \in [Nat -> Nat] : Placed(now, q, Append(delivered, FramesOf(t)[m]), FramesOf(t))
    BY <2>2, <2>3, PlacedOnce, Zenon DEF Handed, old
  <2> QED BY <1>1, <2>1, <2>4, Zenon
<1>5. ASSUME \A m \in 1..Len(t) : ~New(m)
      PROVE  \E q \in [Nat -> Nat] : Handed(t, base + 1, q)'
  <2>1. now \subseteq old
    BY <1>3, <1>5, Zenon DEF OwedOnes
  <2> HIDE DEF now
  <2>2. Placed(now, place, delivered', FramesOf(t))
    BY <2>1, PlacedStays, Zenon DEF Delivers, Handed
  <2> QED BY <1>1, <2>2, Zenon
<1> QED BY <1>2, <1>4, <1>5, Zenon

(* One byte is done with once it is told what the decoder holds, and that  *)
(* the frame that ends with it is delivered if it is owed.                 *)
LEMMA LossByte ==
  ASSUME Types, Types', ByteTaken, UNCHANGED <<sender, capacity>>,
         NEW kinds, delivered \in Seq(kinds),
         NEW t \in Seq(Item), NEW base \in Nat, Traced(t, base),
         Tracks(t, base + 1)', Delivers(t, base)
  PROVE  LossInv'
<1>1. TrailIs(t)' /\ Lies(t, base + 1)'
  BY ByteBehind DEF Traced
<1>2. PICK place \in [Nat -> Nat] : Handed(t, base, place)
  BY DEF Traced
<1>3. /\ \E q \in [Nat -> Nat] : Handed(t, base + 1, q)'
      /\ (\E s : delivered \in Seq(s))'
  <2>1. Lies(t, base)
    BY DEF Traced
  <2> QED BY <2>1, <1>2, HandedOn
<1>4. Traced(t, base + 1)' /\ base + 1 \in Nat
  <2>1. base + 1 \in Nat
    OBVIOUS
  <2> QED BY <2>1, <1>1, <1>3, Zenon DEF Traced
<1> QED BY <1>3, <1>4, Zenon DEF LossInv

(* The frame that ends with a byte is the one in which the byte lies. *)
LEMMA EndsHere ==
  ASSUME NEW t \in Seq(Item), NEW base \in Nat, Lies(t, base),
         NEW m \in 1..Len(t), t[m].at <= base, base < t[m].at + Extent(t[m]),
         NEW l \in 1..Len(t), Owed(t, l, base + 1), t[l].at + FullSize(t[l]) = base + 1
  PROVE  l = m
<1>1. t[l].at \in Nat /\ FullSize(t[l]) \in Nat /\ FullSize(t[l]) > 5
  BY ItemsAre, Zenon DEF IsItem
<1>2. Extent(t[l]) = FullSize(t[l])
  BY DEF Owed, Extent
<1>3. t[l].at <= base /\ base < t[l].at + Extent(t[l])
  BY <1>1, <1>2
<1> QED BY <1>3, OneAt

(* Between frames. *)
LEMMA LossHunt ==
  ASSUME LossInv, HuntSync
  PROVE  LossInv'
<1>1. Types /\ Types' /\ ByteTaken /\ UNCHANGED <<sender, capacity, delivered>>
  BY TypesHuntSync DEF LossInv, HuntSync, ByteTaken
<1>2. PICK kinds : delivered \in Seq(kinds)
  BY DEF LossInv
<1>3. PICK t \in Seq(Item), base \in Nat : Traced(t, base)
  BY DEF LossInv
<1>4. TrailIs(t) /\ Lies(t, base) /\ Tracks(t, base) /\ state = "HUNT_SYNC"
  BY <1>3 DEF Traced, HuntSync
<1>5. /\ \A m \in 1..Len(t) : t[m].at = base => data[i] = 0
      /\ data[i] = 0 => \E m \in 1..Len(t) : t[m].at = base
  BY <1>1, <1>4, ByteBehind
<1>6. \A m : InHand(t, m)' <=> InHand(t, m)
  BY <1>1, TrailStays
<1>7. ASSUME NEW m \in 1..Len(t), InHand(t, m), AfterWhole(t, m), Fits(t[m].frame)
      PROVE  t[m].at >= base \/ t[m].at + FullSize(t[m]) <= base
  BY <1>4, <1>7, Zenon DEF Tracks
<1>8. ASSUME NEW m \in 1..Len(t)
      PROVE  t[m].at \in Nat /\ FullSize(t[m]) \in Nat /\ FullSize(t[m]) > 5
  BY ItemsAre, Zenon DEF IsItem
<1>9. Delivers(t, base)
  <2>1. ASSUME NEW m \in 1..Len(t), Owed(t, m, base + 1), t[m].at + FullSize(t[m]) = base + 1
        PROVE  FALSE
    <3>1. t[m].at >= base \/ t[m].at + FullSize(t[m]) <= base
      BY <1>7, <2>1, Zenon DEF Owed, InHand
    <3> QED BY <3>1, <1>8, <2>1
  <2> QED BY <2>1, <1>1, Zenon DEF Delivers
<1>10. CASE data[i] = 0
  <2>1. PICK m \in 1..Len(t) : t[m].at = base
    BY <1>5, <1>10
  <2>2. state' = "READ_HEADER" /\ header' = [header EXCEPT ![0] = 0] /\ headerPos' = 1
    BY <1>10 DEF HuntSync
  <2>3. base + 1 = t[m].at + headerPos'
    BY <2>1, <2>2
  <2>4. HeaderOf(t[m].frame, headerPos)'
    <3>1. header'[0] = 0
      BY <1>1, <2>2 DEF Types, TypeOK
    <3>2. Wire(t[m].frame, 0) = 0
      BY ItemsAre, WireIs DEF IsItem
    <3>3. \A k \in 0..headerPos' - 1 : k = 0
      BY <2>2
    <3>4. \A k \in 0..headerPos' - 1 : header'[k] = Wire(t[m].frame, k)
      BY <3>1, <3>2, <3>3
    <3>5. \A k : Wire(t[m].frame, k)' = Wire(t[m].frame, k)
      BY Zenon DEF Wire
    <3> QED BY <3>4, <3>5, Zenon DEF HeaderOf
  <2>5. Tracks(t, base + 1)'
    BY <2>2, <2>3, <2>4 DEF Tracks
  <2> QED BY <2>5, <1>1, <1>2, <1>3, <1>9, LossByte
<1>11. CASE data[i] # 0
  <2>1. ASSUME NEW m \in 1..Len(t), InHand(t, m), AfterWhole(t, m), Fits(t[m].frame)
        PROVE  t[m].at >= base + 1 \/ t[m].at + FullSize(t[m]) <= base + 1
    <3>1. t[m].at # base
      BY <1>5, <1>11
    <3>2. t[m].at >= base \/ t[m].at + FullSize(t[m]) <= base
      BY <1>7, <2>1, Zenon
    <3>3. t[m].at \in Nat /\ FullSize(t[m]) \in Nat
      BY <1>8, Zenon
    <3> QED BY <3>1, <3>2, <3>3
  <2>2. state' = "HUNT_SYNC"
    BY <1>4, <1>11 DEF HuntSync
  <2>3. \A m : AfterWhole(t, m)' <=> AfterWhole(t, m)
    BY DEF AfterWhole
  <2>4. \A f : Fits(f)' <=> Fits(f)
    BY <1>1 DEF Fits
  <2>5. Tracks(t, base + 1)'
    BY <2>1, <2>2, <2>3, <2>4, <1>6 DEF Tracks
  <2> QED BY <2>5, <1>1, <1>2, <1>3, <1>9, LossByte
<1> QED BY <1>10, <1>11

(* In a header. *)
LEMMA LossHeader ==
  ASSUME LossInv, ReadHeader
  PROVE  LossInv'
<1>1. Types /\ Types' /\ ByteTaken /\ UNCHANGED <<sender, capacity, delivered>>
  BY TypesReadHeader DEF LossInv, ReadHeader, ByteTaken
<1>2. PICK kinds : delivered \in Seq(kinds)
  BY DEF LossInv
<1>3. PICK t \in Seq(Item), base \in Nat : Traced(t, base)
  BY DEF LossInv
<1>4. TrailIs(t) /\ Lies(t, base) /\ Tracks(t, base) /\ state = "READ_HEADER"
  BY <1>3 DEF Traced, ReadHeader
<1>5. PICK m \in 1..Len(t) : base = t[m].at + headerPos /\ HeaderOf(t[m].frame, headerPos)
  BY <1>4 DEF Tracks
<1> DEFINE f == t[m].frame
           n == Len(f.payload)
<1>6. headerPos \in 1..4 /\ header \in [0..4 -> Byte]
  BY <1>1, <1>4 DEF Types, TypeOK
<1>7. /\ t[m].at \in Nat /\ f \in Frames /\ n \in Nat /\ n >= 1
      /\ FullSize(t[m]) = 5 + n /\ Extent(t[m]) \in Nat /\ Extent(t[m]) >= 5
  BY ItemIs, Zenon
<1>n. /\ t[m].at \in Nat /\ base = t[m].at + headerPos /\ headerPos \in 1..4
      /\ Extent(t[m]) \in Nat /\ Extent(t[m]) >= 5
      /\ FullSize(t[m]) \in Nat /\ FullSize(t[m]) > 5
  <2>1. FullSize(t[m]) \in Nat /\ FullSize(t[m]) > 5
    BY ItemsAre, Zenon DEF IsItem
  <2> QED BY <2>1, <1>5, <1>6, <1>7, Zenon
<1>8. data[i] = Wire(f, headerPos)
  <2>1. headerPos \in 0..Extent(t[m]) - 1 /\ t[m].at + headerPos = base
    BY <1>5, <1>6, <1>7
  <2> QED BY <2>1, <1>1, <1>4, ByteBehind
<1>9. header' = [header EXCEPT ![headerPos] = data[i]]
  BY DEF ReadHeader
<1>10. ASSUME NEW k \in 0..headerPos PROVE header'[k] = Wire(f, k)
  <2>1. CASE k = headerPos
    BY <2>1, <1>6, <1>8, <1>9
  <2>2. CASE k # headerPos
    <3>1. k \in 0..headerPos - 1 /\ k \in 0..4
      BY <2>2, <1>6
    <3>2. header[k] = Wire(f, k)
      BY <3>1, <1>5 DEF HeaderOf
    <3> QED BY <2>2, <3>1, <3>2, <1>6, <1>9
  <2> QED BY <2>1, <2>2
<1>11. \A k : Wire(f, k)' = Wire(f, k)
  BY Zenon DEF Wire
<1>12. Delivers(t, base)
  <2>1. ASSUME NEW l \in 1..Len(t), Owed(t, l, base + 1), t[l].at + FullSize(t[l]) = base + 1
        PROVE  FALSE
    <3>1. t[m].at <= base /\ base < t[m].at + Extent(t[m])
      BY <1>n
    <3>2. l = m
      BY <3>1, <2>1, <1>4, EndsHere
    <3>3. t[m].at + FullSize(t[m]) = base + 1
      BY <3>2, <2>1, Zenon
    <3> QED BY <3>3, <1>n
  <2> QED BY <2>1, <1>1, Zenon DEF Delivers
<1>13. CASE headerPos # 4
  <2>1. headerPos' = headerPos + 1 /\ state' = "READ_HEADER"
    BY <1>4, <1>13, Zenon DEF ReadHeader
  <2>2. base + 1 = t[m].at + headerPos'
    <3>1. base + 1 = t[m].at + (headerPos + 1)
      BY <1>n
    <3> QED BY <3>1, <2>1, Zenon
  <2>3. \A k \in 0..headerPos' - 1 : header'[k] = Wire(f, k)
    <3>1. \A k \in 0..headerPos' - 1 : k \in 0..headerPos
      BY <2>1, <1>6
    <3> QED BY <3>1, <1>10
  <2>4. HeaderOf(f, headerPos)'
    BY <2>3, <1>11, Zenon DEF HeaderOf
  <2> HIDE DEF f
  <2>5. Tracks(t, base + 1)'
    BY <2>1, <2>2, <2>4, Zenon DEF Tracks, f
  <2> QED BY <2>5, <1>1, <1>2, <1>3, <1>12, LossByte
<1>14. CASE headerPos = 4
  <2>1. nextZero' = header[3] /\ state' = "READ_PAYLOAD" /\ rxPos' = 0
    BY <1>14 DEF ReadHeader
  <2>2. header[3] = header'[3] /\ header'[3] = Wire(f, 3) /\ header'[2] = Wire(f, 2)
    BY <1>6, <1>9, <1>10, <1>14
  <2>3. Wire(f, 3) = Code(f.payload, 0) /\ Wire(f, 2) = n
    BY <1>7, WireIs
  <2>4. HeaderOf(f, 5)'
    <3>1. \A k \in 0..5 - 1 : header'[k] = Wire(f, k)
      BY <1>10, <1>14
    <3> QED BY <3>1, <1>11, Zenon DEF HeaderOf
  <2>5. base + 1 = t[m].at + 5 + rxPos'
    BY <2>1, <1>5, <1>7, <1>14
  <2>6. InHand(t, m)' <=> InHand(t, m)
    BY <1>1, TrailStays
  <2>7. CASE InHand(t, m)
    <3>1. /\ rxPos' < n /\ nextZero' = Code(f.payload, rxPos')
          /\ \A k \in 0..rxPos' - 1 : FALSE
      BY <2>1, <2>2, <2>3, <1>7
    <3>2. Follows(t[m], base + 1)'
      BY <3>1, <2>4, <2>5, Zenon DEF Follows
    <3>3. Tracks(t, base + 1)'
      BY <3>2, <2>1, <2>6, <2>7, Zenon DEF Tracks
    <3> QED BY <3>3, <1>1, <1>2, <1>3, <1>12, LossByte, Zenon
  <2>8. CASE ~InHand(t, m)
    <3>1. rxPos' < header'[2] /\ t[m].at < base + 1
      BY <2>1, <2>2, <2>3, <1>5, <1>7, <1>14
    <3>2. ASSUME NEW l \in 1..Len(t), l > m PROVE t[l].at >= base + 1
      <4>1. t[m].at + Extent(t[m]) <= t[l].at
        BY <3>2, <1>4 DEF Lies
      <4>2. t[l].at \in Nat
        BY ItemIs
      <4> QED BY <4>1, <4>2, <1>n, <1>14
    <3>3. LostBehind(t, m, base + 1)'
      BY <3>1, <3>2, <2>6, <2>8, Zenon DEF LostBehind
    <3>4. Tracks(t, base + 1)'
      BY <3>3, <2>1, Zenon DEF Tracks
    <3> QED BY <3>4, <1>1, <1>2, <1>3, <1>12, LossByte, Zenon
  <2> QED BY <2>7, <2>8
<1> QED BY <1>13, <1>14

LEMMA PayloadTakes ==
  ASSUME ReadPayload, ~Shared
  PROVE  ByteTaken /\ UNCHANGED <<sender, capacity, header>>
<1>1. data' = data
  BY DEF ReadPayload, Store
<1>2. i < length /\ i' = i + 1 /\ UNCHANGED <<sender, line, length, capacity, header>>
  BY Zenon DEF ReadPayload
<1> QED BY <1>1, <1>2 DEF ByteTaken

(* In the payload of the frame whose header was read. *)
LEMMA LossFollows ==
  ASSUME Types, Types', ReadPayload, ~Shared, NEW kinds, delivered \in Seq(kinds),
         NEW t \in Seq(Item), NEW base \in Nat, NEW m \in 1..Len(t)
  PROVE  Traced(t, base) /\ InHand(t, m) /\ Follows(t[m], base) => LossInv'
<1>0. SUFFICES ASSUME Traced(t, base), InHand(t, m), Follows(t[m], base) PROVE LossInv'
  OBVIOUS
<1>1. TrailIs(t) /\ Lies(t, base)
  BY <1>0 DEF Traced
<1>2. ByteTaken /\ UNCHANGED <<sender, capacity, header>>
  BY PayloadTakes
<1> DEFINE f == t[m].frame
           p == f.payload
           n == Len(p)
           a == t[m].at
<1>3. f \in Frames /\ n \in Nat /\ FullSize(t[m]) = 5 + n /\ t[m].at \in Nat
  BY ItemIs, Zenon
<1>4. /\ HeaderOf(f, 5) /\ base = t[m].at + 5 + rxPos /\ rxPos < n
      /\ nextZero = Code(p, rxPos) /\ \A k \in 0..rxPos - 1 : rxPayload[k] = p[k + 1]
  BY <1>0, Zenon DEF Follows
<1>5. rxPos \in Nat /\ capacity \in Nat /\ rxPos \in 0..capacity /\ rxPos \in 0..n - 1
  <2>1. rxPos \in Nat /\ capacity \in Nat /\ rxPos \in 0..capacity
    BY Constants DEF Types, TypeOK
  <2> QED BY <2>1, <1>3, <1>4
<1>6. t[m].rank > 0
  <2>1. ~(base < t[m].at + 5)
    BY <1>3, <1>4, <1>5
  <2>2. ~(HalfWritten /\ m = Len(t))
    BY <2>1, <1>1, <1>2, ByteBehind
  <2> QED BY <2>2, <1>0, Zenon DEF InHand
<1>7. Extent(t[m]) = 5 + n
  BY <1>3, <1>6 DEF Extent
<1>n. /\ a \in Nat /\ n \in Nat /\ rxPos \in Nat /\ rxPos < n /\ capacity \in Nat
      /\ rxPos \in 0..capacity
      /\ base = a + 5 + rxPos /\ FullSize(t[m]) = 5 + n /\ Extent(t[m]) = 5 + n
  BY <1>3, <1>4, <1>5, <1>7, Zenon
<1> HIDE DEF n, a
<1>8. data[i] = Wire(f, 4 + (rxPos + 1))
  <2>1. 4 + (rxPos + 1) \in 0..Extent(t[m]) - 1 /\ a + (4 + (rxPos + 1)) = base
    BY <1>n
  <2> QED BY <2>1, <1>1, <1>2, ByteBehind DEF a
<1>9. /\ data[i] # 0
      /\ data[i] = IF p[rxPos + 1] = 0 THEN Code(p, rxPos + 1) ELSE p[rxPos + 1]
  <2>1. rxPos + 1 \in 1..n
    BY <1>n
  <2> QED BY <2>1, <1>3, <1>8, WireIs DEF n
<1>10. header[1] = f.service /\ header[2] = n
  <2>1. header[1] = Wire(f, 1) /\ header[2] = Wire(f, 2)
    BY <1>4 DEF HeaderOf
  <2> QED BY <2>1, <1>3, WireIs DEF n
<1>11. /\ rxPos = capacity => delivered' = delivered /\ state' = "HUNT_SYNC"
       /\ rxPos < capacity /\ rxPos + 1 < n =>
            /\ delivered' = delivered /\ state' = "READ_PAYLOAD" /\ rxPos' = rxPos + 1
            /\ nextZero' = Code(p, rxPos + 1)
            /\ \A k \in 0..rxPos : rxPayload'[k] = p[k + 1]
       /\ rxPos < capacity /\ rxPos + 1 = n =>
            /\ delivered' = Append(delivered, f) /\ state' = "HUNT_SYNC"
  <2> USE DEF n
  <2> HIDE DEF f
  <2> QED BY <1>3, <1>4, <1>5, <1>9, <1>10, PayloadStep, Zenon
<1>12. InHand(t, m)' <=> InHand(t, m)
  BY <1>2, TrailStays
<1> DEFINE Ends == a + FullSize(t[m]) = base + 1
<1>13. Ends <=> rxPos + 1 = n
  BY <1>n
<1>14. ASSUME NEW l \in 1..Len(t), Owed(t, l, base + 1), t[l].at + FullSize(t[l]) = base + 1
       PROVE  l = m /\ rxPos + 1 = n /\ rxPos < capacity
  <2>1. a <= base /\ base < a + Extent(t[m])
    BY <1>n
  <2>2. l = m
    BY <2>1, <1>14, <1>1, EndsHere DEF a
  <2>3. rxPos + 1 = n
    BY <2>2, <1>13, <1>14, Zenon DEF a
  <2>4. n <= capacity
    BY <2>2, <1>14, Zenon DEF Owed, Fits, n
  <2>5. rxPos < capacity
    BY <2>3, <2>4, <1>n
  <2> QED BY <2>2, <2>3, <2>5, Zenon
<1>15. Delivers(t, base)
  <2>1. delivered' = delivered \/ \E x : delivered' = Append(delivered, x)
    <3>1. rxPos = capacity \/ rxPos < capacity
      BY <1>n
    <3>2. rxPos + 1 < n \/ rxPos + 1 = n
      BY <1>n
    <3> QED BY <3>1, <3>2, <1>11, Zenon
  <2> QED BY <2>1, <1>11, <1>14, Zenon DEF Delivers
<1>16. CASE rxPos < capacity /\ rxPos + 1 < n
  <2>1. /\ state' = "READ_PAYLOAD" /\ rxPos' = rxPos + 1 /\ nextZero' = Code(p, rxPos + 1)
        /\ \A k \in 0..rxPos : rxPayload'[k] = p[k + 1]
    BY <1>11, <1>16, Zenon
  <2>2. base + 1 = a + 5 + (rxPos + 1) /\ (rxPos + 1) - 1 = rxPos
    BY <1>n
  <2>3. HeaderOf(f, 5)'
    <3>1. \A k : Wire(f, k)' = Wire(f, k)
      BY Zenon DEF Wire
    <3> QED BY <3>1, <1>2, <1>4 DEF HeaderOf
  <2>4. Follows(t[m], base + 1)'
    BY <2>1, <2>2, <2>3, <1>16, Zenon DEF Follows, a, n
  <2>5. Tracks(t, base + 1)'
    BY <2>1, <2>4, <1>0, <1>12, Zenon DEF Tracks
  <2> QED BY <2>5, <1>0, <1>2, <1>15, LossByte
<1>17. CASE ~(rxPos < capacity /\ rxPos + 1 < n)
  <2>1. state' = "HUNT_SYNC" /\ (Fits(f) => Ends)
    <3>1. rxPos = capacity \/ rxPos < capacity
      BY <1>n
    <3>2. rxPos + 1 < n \/ rxPos + 1 = n
      BY <1>n
    <3>3. rxPos = capacity => ~(n <= capacity)
      BY <1>n
    <3> QED BY <3>1, <3>2, <3>3, <1>11, <1>13, <1>17, Zenon DEF Fits, n
  <2>2. ASSUME NEW l \in 1..Len(t), InHand(t, l), AfterWhole(t, l), Fits(t[l].frame)
        PROVE  t[l].at >= base + 1 \/ t[l].at + FullSize(t[l]) <= base + 1
    <3>1. t[l].at \in Nat /\ FullSize(t[l]) \in Nat
      BY ItemsAre, Zenon DEF IsItem
    <3> DEFINE b == t[l].at
               z == FullSize(t[l])
    <3>6. b \in Nat /\ z \in Nat
      BY <3>1, Zenon
    <3> HIDE DEF b, z
    <3>2. CASE l = m
      <4>1. t[l].at + FullSize(t[l]) = base + 1
        BY <3>2, <2>1, <2>2, Zenon DEF a
      <4> QED BY <4>1, <3>1
    <3>3. CASE l > m
      <4>1. a + Extent(t[m]) <= b
        BY <3>3, <1>1, Zenon DEF Lies, a, b
      <4>2. b >= base + 1
        BY <4>1, <3>6, <1>n
      <4> QED BY <4>2, Zenon DEF b
    <3>4. CASE l < m
      <4>1. t[l].at + Extent(t[l]) <= t[m].at
        BY <3>4, <1>1 DEF Lies
      <4>2. Extent(t[l]) = FullSize(t[l])
        <5>1. ~(HalfWritten /\ l = Len(t))
          BY <3>4
        <5> QED BY <5>1, <2>2 DEF InHand, Extent
      <4>3. b + z <= a
        BY <4>1, <4>2, Zenon DEF a, b, z
      <4>4. b + z <= base + 1
        BY <4>3, <3>6, <1>n
      <4> QED BY <4>4, Zenon DEF b, z
    <3>5. l = m \/ l > m \/ l < m
      OBVIOUS
    <3> QED BY <3>2, <3>3, <3>4, <3>5
  <2>3. \A l : /\ AfterWhole(t, l)' <=> AfterWhole(t, l)
               /\ InHand(t, l)' <=> InHand(t, l)
    BY <1>2, TrailStays DEF AfterWhole
  <2>4. \A x : Fits(x)' <=> Fits(x)
    BY <1>2 DEF Fits
  <2>5. Tracks(t, base + 1)'
    BY <2>1, <2>2, <2>3, <2>4 DEF Tracks
  <2> QED BY <2>5, <1>0, <1>2, <1>15, LossByte
<1> QED BY <1>16, <1>17

(* A byte read as one of a payload that never came. *)
LEMMA LostByte ==
  ASSUME Types, ReadPayload, rxPos < header[2]
  PROVE  /\ delivered' = delivered \/ \E x : delivered' = Append(delivered, x)
         /\ data[i] = 0 => state' = "HUNT_SYNC"
         /\ state' = "HUNT_SYNC" \/ (state' = "READ_PAYLOAD" /\ rxPos' < header'[2])
<1> DEFINE n == header[2]
           cut == data[i] = 0
           from == IF cut THEN 0 ELSE rxPos
           full == from >= capacity
           to == IF full THEN 0 ELSE from + 1
           frame == [service |-> header[1],
                     payload |-> [k \in 1 .. header[2] |-> rxPayload'[k - 1]]]
<1>1. rxPos \in Nat /\ n \in Nat /\ rxPos < n /\ header' = header /\ state = "READ_PAYLOAD"
  <2>1. rxPos \in Nat /\ header[2] \in Byte
    BY Constants DEF Types, TypeOK
  <2>2. header' = header /\ state = "READ_PAYLOAD"
    BY Zenon DEF ReadPayload
  <2> QED BY <2>1, <2>2, Constants
<1>2. /\ IF cut \/ full \/ to = n
         THEN state' = "HUNT_SYNC" /\ headerPos' = 0
         ELSE UNCHANGED <<state, headerPos>>
      /\ rxPos' = IF to = n THEN 0 ELSE to
      /\ delivered' = IF to = n THEN Append(delivered, frame) ELSE delivered
  BY <1>1, Zenon DEF ReadPayload, Resets
<1>3. ~cut /\ ~full => to \in Nat /\ to <= n
  BY <1>1
<1>4. to \in Nat /\ ~cut /\ ~full /\ to # n => to < n
  BY <1>1, <1>3
<1> HIDE DEF n, cut, full, to, frame
<1> QED BY <1>1, <1>2, <1>3, <1>4, Zenon DEF cut, n

LEMMA LossLost ==
  ASSUME Types, Types', ReadPayload, ~Shared, NEW kinds, delivered \in Seq(kinds),
         NEW t \in Seq(Item), NEW base \in Nat, NEW m \in 1..Len(t)
  PROVE  Traced(t, base) /\ LostBehind(t, m, base) => LossInv'
<1>0. SUFFICES ASSUME Traced(t, base), LostBehind(t, m, base) PROVE LossInv'
  OBVIOUS
<1>1. Lies(t, base) /\ TrailIs(t)
  BY <1>0 DEF Traced
<1>2. ByteTaken /\ UNCHANGED <<sender, capacity, header>>
  BY PayloadTakes
<1> DEFINE a(l) == t[l].at
           z(l) == FullSize(t[l])
<1>3. /\ t[m].rank = 0 /\ ~InHand(t, m) /\ a(m) < base /\ rxPos < header[2]
      /\ \A l \in 1..Len(t) : l > m => a(l) >= base
  <2>1. t[m].rank \in Nat
    BY ItemIs
  <2> QED BY <2>1, <1>0 DEF LostBehind, InHand
<1>4. ASSUME NEW l \in 1..Len(t)
      PROVE  a(l) \in Nat /\ z(l) \in Nat /\ z(l) > 5
  BY ItemsAre, Zenon DEF IsItem
<1>5. /\ \A l \in 1..Len(t) : a(l) = base => data[i] = 0
      /\ data[i] = 0 => \E l \in 1..Len(t) : a(l) = base
  BY <1>1, <1>2, ByteBehind
<1>6. ASSUME NEW l \in 1..Len(t), InHand(t, l), l < m
      PROVE  a(l) + z(l) < base
  <2>1. a(l) + Extent(t[l]) <= a(m)
    BY <1>1, <1>6 DEF Lies
  <2>2. Extent(t[l]) = z(l)
    <3>1. ~(HalfWritten /\ l = Len(t))
      BY <1>6
    <3> QED BY <3>1, <1>6 DEF InHand, Extent
  <2>3. a(l) + z(l) <= a(m) /\ a(m) < base /\ a(l) \in Nat /\ z(l) \in Nat /\ a(m) \in Nat
    BY <2>1, <2>2, <1>3, <1>4, Zenon
  <2> DEFINE x == a(l)
             y == z(l)
             w == a(m)
  <2>4. x + y <= w /\ w < base /\ x \in Nat /\ y \in Nat /\ w \in Nat
    BY <2>3, Zenon
  <2> HIDE DEF x, y, w
  <2>5. x + y < base
    BY <2>4
  <2> QED BY <2>5, Zenon DEF x, y
<1>7. \A l \in 1..Len(t) : l < m \/ l = m \/ l > m
  OBVIOUS
<1>8. Delivers(t, base)
  <2>1. ASSUME NEW l \in 1..Len(t), Owed(t, l, base + 1), t[l].at + FullSize(t[l]) = base + 1
        PROVE  FALSE
    <3>1. InHand(t, l)
      BY <2>1, Zenon DEF Owed, InHand
    <3> DEFINE x == a(l)
               y == z(l)
    <3>2. x + y = base + 1 /\ x \in Nat /\ y \in Nat /\ y > 5
      BY <2>1, <1>4, Zenon
    <3>3. l < m => x + y < base
      BY <3>1, <1>6, Zenon
    <3>4. l > m => x >= base
      BY <1>3, Zenon
    <3> HIDE DEF x, y
    <3>5. ~(x + y < base) /\ ~(x >= base)
      BY <3>2
    <3> QED BY <3>1, <3>3, <3>4, <3>5, <1>3, <1>7, Zenon
  <2> QED BY <2>1, <1>3, LostByte, Zenon DEF Delivers
<1>9. \A l : /\ AfterWhole(t, l)' <=> AfterWhole(t, l)
             /\ InHand(t, l)' <=> InHand(t, l)
  BY <1>2, TrailStays DEF AfterWhole
<1>10. ASSUME data[i] # 0, NEW l \in 1..Len(t), l > m PROVE a(l) >= base + 1
  <2> DEFINE x == a(l)
  <2>1. x # base /\ x >= base /\ x \in Nat
    BY <1>3, <1>4, <1>5, <1>10, Zenon
  <2> HIDE DEF x
  <2>2. x >= base + 1
    BY <2>1
  <2> QED BY <2>2, Zenon DEF x
<1>11. ASSUME state' = "HUNT_SYNC" PROVE Tracks(t, base + 1)'
  <2>1. ASSUME NEW l \in 1..Len(t), InHand(t, l), AfterWhole(t, l)
        PROVE  a(l) >= base + 1 \/ a(l) + z(l) <= base + 1
    <3> DEFINE x == a(l)
               y == z(l)
    <3>1. x \in Nat /\ y \in Nat
      BY <1>4, Zenon
    <3>2. l < m => x + y < base
      BY <2>1, <1>6, Zenon
    <3>3. x + y < base => x + y <= base + 1
      <4> HIDE DEF x, y
      <4> QED BY <3>1
    <3>4. ASSUME l > m, data[i] = 0 PROVE x >= base + 1
      <4>1. PICK h \in 1..Len(t) : a(h) = base
        BY <1>5, <3>4
      <4>2. l # m + 1
        <5>1. l = m + 1 => l - 1 = m /\ l # 1
          OBVIOUS
        <5> QED BY <5>1, <2>1, <1>3, SMT DEF AfterWhole
      <4>3. m + 1 \in 1..Len(t) /\ m + 1 > m /\ m + 1 < l
        BY <3>4, <4>2
      <4> DEFINE v == a(m + 1)
                 w == Extent(t[m + 1])
      <4>4. v >= base
        BY <4>3, <1>3, Zenon
      <4>5. v + w <= x
        BY <4>3, <1>1, Zenon DEF Lies
      <4>6. v \in Nat /\ w \in Nat /\ w >= 5
        BY <4>3, ItemIs
      <4> HIDE DEF v, w, x
      <4>7. x >= base + 1
        BY <3>1, <4>4, <4>5, <4>6
      <4> QED BY <4>7
    <3>5. l > m /\ data[i] # 0 => x >= base + 1
      BY <1>10, Zenon
    <3> QED BY <3>2, <3>3, <3>4, <3>5, <2>1, <1>3, <1>7, Zenon
  <2>2. \A x : Fits(x)' <=> Fits(x)
    BY <1>2 DEF Fits
  <2> QED BY <2>1, <2>2, <1>9, <1>11 DEF Tracks
<1>12. ASSUME state' = "READ_PAYLOAD", state' # "HUNT_SYNC" PROVE Tracks(t, base + 1)'
  <2>1. data[i] # 0 /\ rxPos' < header'[2]
    BY <1>3, <1>12, LostByte, Zenon
  <2>2. a(m) < base + 1
    BY <1>3, <1>4
  <2>3. LostBehind(t, m, base + 1)'
    BY <2>1, <2>2, <1>3, <1>9, <1>10, Zenon DEF LostBehind
  <2> QED BY <2>3, <1>12 DEF Tracks
<1>13. Tracks(t, base + 1)'
  BY <1>3, <1>11, <1>12, LostByte, Zenon
<1> QED BY <1>0, <1>2, <1>8, <1>13, LossByte

LEMMA LossPayload ==
  ASSUME LossInv, ReadPayload, ~Shared
  PROVE  LossInv'
<1>1. Types /\ Types' /\ state = "READ_PAYLOAD"
  BY TypesReadPayload DEF LossInv, ReadPayload
<1>2. PICK kinds : delivered \in Seq(kinds)
  BY DEF LossInv
<1>3. PICK t \in Seq(Item), base \in Nat : Traced(t, base)
  BY DEF LossInv
<1>4. PICK m \in 1..Len(t) : (InHand(t, m) /\ Follows(t[m], base)) \/ LostBehind(t, m, base)
  BY <1>1, <1>3, Zenon DEF Traced, Tracks
<1> QED BY <1>1, <1>2, <1>3, <1>4, LossFollows, LossLost, Zenon

(* Where no byte is processed, the decoder keeps what it holds. *)
LEMMA TracksKept ==
  ASSUME UNCHANGED <<capacity, state, header, headerPos, rxPos, nextZero, rxPayload>>,
         NEW t, NEW u, NEW base, Tracks(t, base), Len(t) \in Nat, Len(u) \in Nat,
         Len(t) <= Len(u),
         \A m \in 1..Len(t) :
           /\ u[m].at = t[m].at /\ u[m].frame = t[m].frame
           /\ AfterWhole(u, m) <=> AfterWhole(t, m)
           /\ InHand(u, m)' <=> InHand(t, m),
         \A m \in 1..Len(u) : m > Len(t) => u[m].at >= base
  PROVE  Tracks(u, base)'
<1>1. \A m \in 1..Len(t) : m \in 1..Len(u)
  OBVIOUS
<1>2. \A m \in 1..Len(u) : m \in 1..Len(t) \/ m > Len(t)
  OBVIOUS
<1>3. \A f, k : Wire(f, k)' = Wire(f, k)
  BY Zenon DEF Wire
<1>4. \A f, n : HeaderOf(f, n) => HeaderOf(f, n)'
  BY <1>3, Zenon DEF HeaderOf
<1>5. CASE state = "READ_HEADER"
  <2>1. PICK m \in 1..Len(t) : base = t[m].at + headerPos /\ HeaderOf(t[m].frame, headerPos)
    BY <1>5 DEF Tracks
  <2>2. base = u[m].at + headerPos' /\ HeaderOf(u[m].frame, headerPos)'
    BY <2>1, <1>3, Zenon DEF HeaderOf
  <2> QED BY <2>2, <1>1, <1>5 DEF Tracks
<1>6. CASE state = "READ_PAYLOAD"
  <2>1. PICK m \in 1..Len(t) : (InHand(t, m) /\ Follows(t[m], base)) \/ LostBehind(t, m, base)
    BY <1>6 DEF Tracks
  <2>2. Follows(t[m], base) => Follows(u[m], base)'
    BY <1>4, Zenon DEF Follows
  <2>3. LostBehind(t, m, base) => LostBehind(u, m, base)'
    BY <1>2, Zenon DEF LostBehind
  <2> QED BY <2>1, <2>2, <2>3, <1>1, <1>6 DEF Tracks
<1>7. CASE state = "HUNT_SYNC"
  <2>1. ASSUME NEW m \in 1..Len(u), InHand(u, m)', AfterWhole(u, m), Fits(u[m].frame)'
        PROVE  u[m].at >= base \/ u[m].at + FullSize(u[m]) <= base
    <3>1. CASE m \in 1..Len(t)
      <4>1. InHand(t, m) /\ AfterWhole(t, m) /\ Fits(t[m].frame)
        BY <2>1, <3>1 DEF Fits
      <4>2. t[m].at >= base \/ t[m].at + FullSize(t[m]) <= base
        BY <4>1, <3>1, <1>7, Zenon DEF Tracks
      <4> QED BY <4>2, <3>1, Zenon DEF FullSize
    <3> QED BY <3>1, <1>2
  <2>2. \A m : AfterWhole(u, m)' <=> AfterWhole(u, m)
    BY DEF AfterWhole
  <2> QED BY <2>1, <2>2, <1>7 DEF Tracks
<1>8. CASE state \notin {"READ_HEADER", "READ_PAYLOAD", "HUNT_SYNC"}
  BY <1>8, Zenon DEF Tracks
<1> QED BY <1>5, <1>6, <1>7, <1>8

LEMMA LossKept ==
  ASSUME Types', UNCHANGED <<capacity, delivered>>, NEW kinds, delivered \in Seq(kinds),
         NEW t, NEW u \in Seq(Item), NEW base \in Nat, Traced(t, base),
         TrailIs(u)', Lies(u, base)', Tracks(u, base)',
         \A m \in 1..Len(u) : Owed(u, m, base)' =>
           m \in 1..Len(t) /\ Owed(t, m, base) /\ u[m].frame = t[m].frame
  PROVE  LossInv'
<1>1. PICK place \in [Nat -> Nat] : Handed(t, base, place)
  BY DEF Traced
<1>2. Handed(u, base, place)'
  <2>1. ASSUME NEW m \in OwedOnes(u, base)'
        PROVE  m \in OwedOnes(t, base) /\ FramesOf(u)[m] = FramesOf(t)[m]
    <3>1. m \in 1..Len(u) /\ Owed(u, m, base)'
      BY <2>1, Zenon DEF OwedOnes
    <3> QED BY <3>1, Zenon DEF OwedOnes, FramesOf
  <2>2. FramesOf(u)' = FramesOf(u)
    BY DEF FramesOf
  <2> QED BY <1>1, <2>1, <2>2, Zenon DEF Handed, Placed
<1>3. Traced(u, base)'
  BY <1>2, Zenon DEF Traced
<1> QED BY <1>3, Zenon DEF LossInv

(* More bytes behind those that are left, none of them a zero, or none.    *)
LEMMA LiesOn ==
  ASSUME NEW t \in Seq(Item), NEW base \in Nat, Lies(t, base), HalfWritten' => HalfWritten,
         NEW n \in Nat, Left \in Nat, Left' = Left + n, HalfWritten' => n = 0,
         \A x \in 1..Left : At(x)' = At(x),
         \A x \in Left + 1 .. Left + n : At(x)' # 0
  PROVE  Lies(t, base)'
<1>1. ASSUME NEW m \in 1..Len(t)
      PROVE  /\ t[m].at \in Nat /\ Extent(t[m]) \in Nat
             /\ t[m].at + Extent(t[m]) <= base + Left
             /\ t[m].at + Extent(t[m]) <= base + Left'
  <2> DEFINE a == t[m].at + Extent(t[m])
  <2>1. t[m].at \in Nat /\ Extent(t[m]) \in Nat
    BY ItemIs
  <2>2. a \in Nat /\ a <= base + Left
    BY <2>1 DEF Lies
  <2> HIDE DEF a
  <2>3. a <= base + Left'
    BY <2>2
  <2> QED BY <2>1, <2>2, <2>3, Zenon DEF a
<1>2. HalfWritten' => t[Len(t)].at + 5 = base + Left'
  BY DEF Lies
<1>3. ASSUME NEW m \in 1..Len(t), NEW k \in 0..Extent(t[m]) - 1, t[m].at + k >= base
      PROVE  At(t[m].at + k - base + 1)' = Wire(t[m].frame, k)
  <2> DEFINE a == t[m].at
             e == Extent(t[m])
  <2>1. a \in Nat /\ e \in Nat /\ a + e <= base + Left /\ a + k >= base /\ k \in 0..e - 1
    BY <1>1, <1>3, Zenon
  <2> HIDE DEF a, e
  <2>2. a + k - base + 1 \in 1..Left
    BY <2>1
  <2>3. At(a + k - base + 1) = Wire(t[m].frame, k)
    BY <1>3, Zenon DEF Lies, a
  <2> QED BY <2>2, <2>3, Zenon DEF a
<1>4. ASSUME NEW x \in 1..Left', At(x)' = 0
      PROVE  \E m \in 1..Len(t) : t[m].at = base + x - 1
  <2>1. x \in 1..Left \/ x \in Left + 1 .. Left + n
    OBVIOUS
  <2>2. x \in 1..Left /\ At(x) = 0
    BY <2>1, <1>4, Zenon
  <2> QED BY <2>2, Zenon DEF Lies
<1>5. \A m, k : Wire(t[m].frame, k)' = Wire(t[m].frame, k)
  BY Zenon DEF Wire
<1>6. \A m, l \in 1..Len(t) : m < l => t[m].at + Extent(t[m]) <= t[l].at
  BY DEF Lies
<1>7. \A m \in 1..Len(t) : t[m].at + Extent(t[m]) <= base + Left'
  BY <1>1, Zenon
<1>8. \A m \in 1..Len(t) : \A k \in 0..Extent(t[m]) - 1 :
        t[m].at + k >= base => At(t[m].at + k - base + 1)' = Wire(t[m].frame, k)'
  BY <1>3, <1>5, Zenon
<1> QED BY <1>2, <1>4, <1>6, <1>7, <1>8, Zenon DEF Lies

(* Nothing that concerns the frames and the decoder. *)
LEMMA LossStill ==
  ASSUME Types', UNCHANGED <<capacity, state, header, headerPos, rxPos, nextZero, rxPayload,
                             delivered, sent, sure>>,
         HalfWritten' <=> HalfWritten, HalfWritten => half' = half, ~orphan' => ~orphan,
         NEW kinds, delivered \in Seq(kinds),
         NEW t \in Seq(Item), NEW base \in Nat, Traced(t, base), Lies(t, base)'
  PROVE  LossInv'
<1>1. Len(t) \in Nat /\ \A m : AfterWhole(t, m)' <=> AfterWhole(t, m)
  BY DEF AfterWhole
<1>2. \A m : InHand(t, m)' <=> InHand(t, m)
  BY DEF InHand
<1>3. TrailIs(t)'
  BY <1>1, Zenon DEF Traced, TrailIs
<1>4. Tracks(t, base)'
  <2>1. \A m \in 1..Len(t) : ~(m > Len(t))
    BY <1>1
  <2>2. Tracks(t, base) /\ Len(t) <= Len(t)
    BY <1>1 DEF Traced
  <2> QED BY <1>1, <1>2, <2>1, <2>2, TracksKept, Zenon
<1>5. \A m : Owed(t, m, base)' <=> Owed(t, m, base)
  BY DEF Owed, AfterWhole, Fits
<1> QED BY <1>3, <1>4, <1>5, LossKept, Zenon

LEMMA LossRead ==
  ASSUME LossInv, ~Shared, NEW n \in 1..ReadMax, Read(n)
  PROVE  LossInv'
<1>1. Types /\ Types'
  BY TypesRead DEF LossInv
<1>2. PICK kinds : delivered \in Seq(kinds)
  BY DEF LossInv
<1>3. PICK t \in Seq(Item), base \in Nat : Traced(t, base)
  BY DEF LossInv
<1>4. /\ Left \in Nat /\ Left' = Left /\ \A x \in 1..Left : At(x)' = At(x)
      /\ UNCHANGED <<half, kept, sent, orphan, sure, capacity, state, header, headerPos, rxPos,
                     nextZero, delivered, rxPayload>>
  BY <1>1, ReadMoves DEF sender
<1>5. HalfWritten' <=> HalfWritten
  BY <1>4 DEF HalfWritten
<1>6. Lies(t, base)'
  <2>1. Left' = Left + 0 /\ 0 \in Nat /\ \A x \in Left + 1 .. Left + 0 : FALSE
    BY <1>4
  <2>2. \A x \in Left + 1 .. Left + 0 : At(x)' # 0
    BY <2>1
  <2>3. Lies(t, base)
    BY <1>3 DEF Traced
  <2> QED BY <2>1, <2>2, <2>3, <1>4, <1>5, LiesOn, Zenon
<1> QED BY <1>1, <1>2, <1>3, <1>4, <1>5, <1>6, LossStill, Zenon

LEMMA LossStutter ==
  ASSUME LossInv, UNCHANGED vars
  PROVE  LossInv'
<1>1. Types /\ Types'
  BY DEF LossInv, Types, TypeOK, vars, sender, receiver
<1>2. PICK kinds : delivered \in Seq(kinds)
  BY DEF LossInv
<1>3. PICK t \in Seq(Item), base \in Nat : Traced(t, base)
  BY DEF LossInv
<1>4. /\ HalfWritten' <=> HalfWritten
      /\ UNCHANGED <<half, orphan, capacity, state, header, headerPos, rxPos, nextZero,
                     rxPayload, delivered, sent, sure>>
  BY DEF HalfWritten, vars, sender, receiver
<1>5. Lies(t, base)'
  <2>1. Left' = Left /\ \A x : At(x)' = At(x)
    BY DEF Left, At, vars, receiver
  <2>2. \A m, k : Wire(t[m].frame, k)' = Wire(t[m].frame, k)
    BY Zenon DEF Wire
  <2> QED BY <2>1, <2>2, <1>3, <1>4, Zenon DEF Traced, Lies
<1> QED BY <1>1, <1>2, <1>3, <1>4, <1>5, LossStill, Zenon

(* In a header, only the first byte is a zero. *)
LEMMA HeaderClear ==
  ASSUME Clear, NEW f \in Frames, NEW k \in 1..4
  PROVE  Wire(f, k) # 0
<1>1. /\ f.service # 0 /\ Len(f.payload) # 0 /\ Code(f.payload, 0) # 0
      /\ f.service \in Byte /\ Len(f.payload) \in Byte
  BY FrameIs, AbfAssumption DEF Clear
<1>2. Code(f.payload, 0) \in Byte
  BY FrameIs, EncodedHeaderIs, WireIs, SMT
<1>3. Crc8(f.service, Len(f.payload), Code(f.payload, 0)) # 0
  BY <1>1, <1>2, AbfAssumption, Zenon
<1>4. k = 1 \/ k = 2 \/ k = 3 \/ k = 4
  OBVIOUS
<1> QED BY <1>1, <1>3, <1>4, WireIs

(* A frame begun, where its header is taken. *)
LEMMA LossBegun ==
  ASSUME LossInv, Clear, NEW f \in Frames, WriteHeader(f), kept'
  PROVE  LossInv'
<1>1. Types /\ Types'
  BY TypesWriteHeader DEF LossInv
<1>2. PICK kinds : delivered \in Seq(kinds)
  BY DEF LossInv
<1>3. PICK t \in Seq(Item), base \in Nat : Traced(t, base)
  BY DEF LossInv
<1>4. /\ UNCHANGED receiver /\ UNCHANGED <<sent, orphan, sure>> /\ half = NoFrame /\ half' = f
      /\ line' = line \o EncodedHeader(f)
  BY DEF WriteHeader
<1>5. UNCHANGED <<capacity, state, header, headerPos, rxPos, nextZero, rxPayload, delivered,
                  data, length, i>>
  BY <1>4 DEF receiver
<1>6. ~HalfWritten /\ HalfWritten'
  BY <1>4, FrameIs DEF HalfWritten
<1> DEFINE e == EncodedHeader(f)
<1>7. e \in Seq(Byte) /\ Len(e) = 5
  BY EncodedHeaderIs
<1>8. /\ Left \in Nat /\ Left' = Left + 5
      /\ \A x \in 1..Left : At(x)' = At(x)
      /\ \A x \in Left + 1 .. Left + 5 : At(x)' = e[x - Left]
  <2> HIDE DEF e
  <2>1. line' = line \o e
    BY <1>4 DEF e
  <2>2. /\ Left \in Nat /\ Left' = Left + Len(e)
        /\ \A x \in 1..Left : At(x)' = At(x)
        /\ \A x \in Left + 1 .. Left + Len(e) : At(x)' = e[x - Left]
    BY <1>1, <1>5, <1>7, <2>1, LineGrows
  <2> QED BY <1>7, <2>2
<1> DEFINE n == Len(t)
<1>9. PICK z \in Nat : z = base + Left
  BY <1>8
<1>10. PICK u \in Seq(Item) : u = Append(t, [at |-> z, frame |-> f, rank |-> 0])
  <2> DEFINE x == [at |-> z, frame |-> f, rank |-> 0]
  <2>1. x \in Item
    BY DEF Item
  <2> HIDE DEF x
  <2>2. Append(t, x) \in Seq(Item)
    BY <2>1
  <2> QED BY <2>2, Zenon DEF x
<1>11. /\ n \in Nat /\ Len(u) = n + 1 /\ \A m \in 1..n : u[m] = t[m]
       /\ u[n + 1].at = z /\ u[n + 1].frame = f /\ u[n + 1].rank = 0
  <2> DEFINE x == [at |-> z, frame |-> f, rank |-> 0]
  <2>1. x.at = z /\ x.frame = f /\ x.rank = 0
    OBVIOUS
  <2> HIDE DEF x
  <2>2. u = Append(t, x)
    BY <1>10 DEF x
  <2> QED BY <2>1, <2>2, OneMore
<1>12. \A m \in 1..Len(u) : m \in 1..n \/ m = n + 1
  BY <1>11
<1> HIDE DEF n
<1>13. \A m \in 1..n + 1 : AfterWhole(u, m) <=> AfterWhole(t, m)
  <2>1. ASSUME NEW m \in 1..n + 1 PROVE m = 1 \/ u[m - 1] = t[m - 1]
    <3>1. m = 1 \/ m - 1 \in 1..n
      BY <1>11
    <3> QED BY <3>1, <1>11
  <2> QED BY <2>1, Zenon DEF AfterWhole
<1>14. TrailIs(t) /\ Lies(t, base) /\ Tracks(t, base)
  BY <1>3 DEF Traced
<1>15. /\ \A m \in 1..n : t[m].rank > 0 =>
            t[m].rank <= Len(sent) /\ sent[t[m].rank] = t[m].frame
       /\ \A k \in 1..Len(sent) : \E m \in 1..n : t[m].rank = k
       /\ \A m, l \in 1..n :
            m < l /\ t[m].rank > 0 /\ t[l].rank > 0 => t[m].rank < t[l].rank
       /\ sure \subseteq 1..Len(sent)
       /\ \A m \in 1..n : t[m].rank \in sure => AfterWhole(t, m)
       /\ ~orphan => AfterWhole(t, n + 1)
  BY <1>14, <1>6, Zenon DEF TrailIs, n
<1>16. ~(0 > 0) /\ 0 \notin sure /\ n + 1 \in 1..n + 1 /\ n + 1 \in 1..Len(u)
       /\ \A m \in 1..n : m \in 1..n + 1 /\ m \in 1..Len(u)
  <2>1. 0 \notin 1..Len(sent)
    OBVIOUS
  <2> QED BY <2>1, <1>11, <1>15
<1>17. TrailIs(u)'
  <2>1. \A m \in 1..Len(u) : u[m].rank > 0 => m \in 1..n
    BY <1>11, <1>12, <1>16, Zenon
  <2>2. \A m \in 1..Len(u) : u[m].rank > 0 =>
          u[m].rank <= Len(sent) /\ sent[u[m].rank] = u[m].frame
    BY <2>1, <1>11, <1>15, Zenon
  <2>3. \A k \in 1..Len(sent) : \E m \in 1..Len(u) : u[m].rank = k
    BY <1>11, <1>15, <1>16, Zenon
  <2>4. \A m, l \in 1..Len(u) :
          m < l /\ u[m].rank > 0 /\ u[l].rank > 0 => u[m].rank < u[l].rank
    BY <2>1, <1>11, <1>15, Zenon
  <2>5. Len(u) > 0 /\ u[Len(u)].rank = 0 /\ u[Len(u)].frame = half'
    BY <1>4, <1>11
  <2>6. \A m \in 1..Len(u) : u[m].rank \in sure => AfterWhole(u, m)
    BY <1>11, <1>12, <1>13, <1>15, <1>16, Zenon
  <2>7. ~orphan => AfterWhole(u, Len(u))
    BY <1>11, <1>13, <1>15, <1>16, Zenon
  <2>8. \A m : AfterWhole(u, m)' <=> AfterWhole(u, m)
    BY DEF AfterWhole
  <2>9. sent' = sent /\ sure' = sure /\ orphan' = orphan
    BY <1>4
  <2> QED BY <2>2, <2>3, <2>4, <2>5, <2>6, <2>7, <2>8, <2>9, <1>6, <1>15, Zenon DEF TrailIs
<1>18. Extent(u[n + 1]) = 5
  BY <1>11 DEF Extent
<1>19. ASSUME NEW m \in 1..n
       PROVE  /\ t[m].at \in Nat /\ Extent(t[m]) \in Nat
              /\ t[m].at + Extent(t[m]) <= z /\ t[m].at + Extent(t[m]) <= base + Left'
  <2> DEFINE a == t[m].at
             x == Extent(t[m])
  <2>1. m \in 1..Len(t)
    BY DEF n
  <2>2. a \in Nat /\ x \in Nat /\ a + x <= base + Left
    BY <2>1, <1>14, ItemIs, Zenon DEF Lies
  <2> HIDE DEF a, x
  <2>3. a + x <= z /\ a + x <= base + Left'
    BY <2>2, <1>8, <1>9
  <2> QED BY <2>2, <2>3, Zenon DEF a, x
<1>20. Lies(u, base)'
  <2>1. \A m \in 1..Len(u) : u[m].at + Extent(u[m]) <= base + Left'
    <3>1. z + 5 <= base + Left'
      BY <1>8, <1>9
    <3> QED BY <3>1, <1>11, <1>12, <1>18, <1>19, Zenon
  <2>2. u[Len(u)].at + 5 = base + Left'
    <3>1. z + 5 = base + Left'
      BY <1>8, <1>9
    <3> QED BY <3>1, <1>11, Zenon
  <2>3. \A m, l \in 1..Len(u) : m < l => u[m].at + Extent(u[m]) <= u[l].at
    <3>1. \A m, l \in 1..n : m < l => t[m].at + Extent(t[m]) <= t[l].at
      BY <1>14 DEF Lies, n
    <3>2. \A l \in 1..Len(u) : ~(n + 1 < l)
      BY <1>11
    <3> QED BY <3>1, <3>2, <1>11, <1>12, <1>19, Zenon
  <2>4. ASSUME NEW k \in 0..4 PROVE At(z + k - base + 1)' = Wire(f, k)
    <3>1. (z + k - base + 1) - Left = k + 1 /\ z + k - base + 1 \in Left + 1 .. Left + 5
      BY <1>8, <1>9
    <3>2. At(z + k - base + 1)' = e[k + 1]
      BY <3>1, <1>8, Zenon
    <3>3. k < 5
      OBVIOUS
    <3> QED BY <3>2, <3>3, Zenon DEF Wire
  <2>5. ASSUME NEW m \in 1..Len(u), NEW k \in 0..Extent(u[m]) - 1, u[m].at + k >= base
        PROVE  At(u[m].at + k - base + 1)' = Wire(u[m].frame, k)
    <3>1. CASE m \in 1..n
      <4> DEFINE a == t[m].at
                 x == Extent(t[m])
      <4>1. a \in Nat /\ x \in Nat /\ a + x <= z /\ k \in 0..x - 1 /\ a + k >= base
        BY <3>1, <2>5, <1>11, <1>19, Zenon
      <4> HIDE DEF a, x
      <4>2. a + k - base + 1 \in 1..Left
        BY <4>1, <1>8, <1>9
      <4>3. At(a + k - base + 1) = Wire(t[m].frame, k)
        BY <3>1, <4>1, <1>14, Zenon DEF Lies, a, x, n
      <4>4. u[m] = t[m]
        BY <3>1, <1>11, Zenon
      <4> QED BY <4>2, <4>3, <4>4, <1>8, Zenon DEF a
    <3>2. CASE m = n + 1
      <4>1. k \in 0..4
        BY <3>2, <1>18
      <4> QED BY <3>2, <4>1, <2>4, <1>11, Zenon
    <3> QED BY <3>1, <3>2, <1>12
  <2>6. ASSUME NEW x \in 1..Left', At(x)' = 0
        PROVE  \E m \in 1..Len(u) : u[m].at = base + x - 1
    <3>1. CASE x \in 1..Left
      <4>1. At(x) = 0
        BY <3>1, <2>6, <1>8, Zenon
      <4>2. PICK m \in 1..n : t[m].at = base + x - 1
        BY <3>1, <4>1, <1>14, Zenon DEF Lies, n
      <4> QED BY <4>2, <1>11, <1>16, Zenon
    <3>2. CASE x = Left + 1
      <4>1. z = base + x - 1
        BY <3>2, <1>8, <1>9
      <4> QED BY <4>1, <1>11, <1>16, Zenon
    <3>3. CASE x \in Left + 2 .. Left + 5
      <4> DEFINE k == x - Left - 1
      <4>1. k \in 1..4 /\ k \in 0..4 /\ z + k - base + 1 = x
        BY <3>3, <1>8, <1>9
      <4> HIDE DEF k
      <4>2. At(x)' = Wire(f, k)
        BY <4>1, <2>4, Zenon
      <4> QED BY <4>1, <4>2, <2>6, HeaderClear, Zenon
    <3> QED BY <3>1, <3>2, <3>3, <1>8
  <2>7. \A m, k : Wire(u[m].frame, k)' = Wire(u[m].frame, k)
    BY Zenon DEF Wire
  <2>8. \A m \in 1..Len(u) : \A k \in 0..Extent(u[m]) - 1 :
          u[m].at + k >= base => At(u[m].at + k - base + 1)' = Wire(u[m].frame, k)'
    BY <2>5, <2>7, Zenon
  <2> QED BY <2>1, <2>2, <2>3, <2>6, <2>8, Zenon DEF Lies
<1>21. Tracks(u, base)'
  <2>1. Len(t) \in Nat /\ Len(u) \in Nat /\ Len(t) <= Len(u) /\ z >= base
    BY <1>8, <1>9, <1>11 DEF n
  <2>2. \A m \in 1..Len(u) : m > Len(t) => u[m].at >= base
    <3>1. \A m \in 1..n : ~(m > n)
      BY <1>11
    <3> QED BY <3>1, <2>1, <1>11, <1>12, Zenon DEF n
  <2>3. \A m \in 1..n : InHand(u, m)' <=> InHand(t, m)
    <3>1. \A m \in 1..n : m # Len(u)
      BY <1>11
    <3> QED BY <3>1, <1>6, <1>11 DEF InHand
  <2> QED BY <2>1, <2>2, <2>3, <1>5, <1>11, <1>13, <1>14, <1>16, TracksKept, Zenon DEF n
<1>22. ASSUME NEW m \in 1..Len(u), Owed(u, m, base)'
       PROVE  m \in 1..Len(t) /\ Owed(t, m, base) /\ u[m].frame = t[m].frame
  <2>1. u[m].rank > 0
    BY <1>22 DEF Owed
  <2>2. m \in 1..n /\ u[m] = t[m]
    BY <2>1, <1>11, <1>12, <1>16, Zenon
  <2>3. AfterWhole(t, m)
    BY <2>2, <1>13, <1>16, <1>22, Zenon DEF Owed, AfterWhole
  <2> QED BY <2>2, <2>3, <1>5, <1>22 DEF Owed, Fits, n
<1> QED BY <1>1, <1>2, <1>3, <1>5, <1>17, <1>20, <1>21, <1>22, LossKept

(* A frame begun, where its header is refused. *)
LEMMA LossRefused ==
  ASSUME LossInv, NEW f \in Frames, WriteHeader(f), ~kept'
  PROVE  LossInv'
<1>1. Types /\ Types'
  BY TypesWriteHeader DEF LossInv
<1>2. PICK kinds : delivered \in Seq(kinds)
  BY DEF LossInv
<1>3. PICK t \in Seq(Item), base \in Nat : Traced(t, base)
  BY DEF LossInv
<1>4. /\ UNCHANGED <<receiver, line, sent, orphan, sure>> /\ half = NoFrame
  BY DEF WriteHeader
<1>5. UNCHANGED <<capacity, state, header, headerPos, rxPos, nextZero, rxPayload, delivered,
                  data, length, i>>
  BY <1>4 DEF receiver
<1>6. ~HalfWritten /\ ~HalfWritten'
  BY <1>4 DEF HalfWritten
<1>7. Lies(t, base)'
  <2>1. Left' = Left /\ \A x : At(x)' = At(x)
    BY <1>4, <1>5 DEF Left, At
  <2>2. \A m, k : Wire(t[m].frame, k)' = Wire(t[m].frame, k)
    BY Zenon DEF Wire
  <2> QED BY <2>1, <2>2, <1>3, <1>6, Zenon DEF Traced, Lies
<1> QED BY <1>1, <1>2, <1>3, <1>4, <1>5, <1>6, <1>7, LossStill, Zenon

(* A payload without its header, written or not. *)
LEMMA LossStray ==
  ASSUME LossInv, WritePayload, ~kept
  PROVE  LossInv'
<1>1. Types /\ Types'
  BY TypesWritePayload DEF LossInv
<1>2. PICK kinds : delivered \in Seq(kinds)
  BY DEF LossInv
<1>3. PICK t \in Seq(Item), base \in Nat : Traced(t, base)
  BY DEF LossInv
<1>4. /\ UNCHANGED receiver /\ UNCHANGED <<kept, sent, sure>> /\ (~orphan' => ~orphan)
      /\ line' = line \o EncodedPayload(half.payload) \/ line' = line
      /\ half \in Frames
  <2>1. half \in Frames /\ UNCHANGED receiver /\ kept' = kept
    BY <1>1, Zenon DEF WritePayload, Types, TypeOK
  <2>2. CASE line' = line \o EncodedPayload(half.payload) /\ UNCHANGED <<sent, due, sure, orphan>>
    BY <2>1, <2>2, Zenon
  <2>3. CASE orphan' = (kept \/ orphan) /\ UNCHANGED <<line, due, sent, sure>>
    BY <2>1, <2>3, Zenon
  <2> QED BY <2>2, <2>3, Zenon DEF WritePayload
<1>5. UNCHANGED <<capacity, state, header, headerPos, rxPos, nextZero, rxPayload, delivered,
                  data, length, i>>
  BY <1>4 DEF receiver
<1>6. ~HalfWritten /\ ~HalfWritten'
  BY <1>4 DEF HalfWritten
<1>7. PICK e \in Seq(Byte) : line' = line \o e /\ \A k \in 1..Len(e) : e[k] # 0
  <2>1. CASE line' = line
    <3>1. <<>> \in Seq(Byte) /\ line = line \o <<>> /\ Len(<<>>) = 0
      BY <1>1 DEF Types, TypeOK
    <3>2. \A k \in 1..Len(<<>>) : <<>>[k] # 0
      BY <3>1
    <3> QED BY <2>1, <3>1, <3>2, Zenon
  <2>2. CASE line' = line \o EncodedPayload(half.payload)
    <3> DEFINE p == half.payload
    <3>1. p \in Seq(Byte) /\ Len(p) < ByteMod
      BY <1>4, FrameIs, AbfAssumption
    <3> HIDE DEF p
    <3>2. /\ EncodedPayload(p) \in Seq(Byte) /\ Len(EncodedPayload(p)) = Len(p)
          /\ \A k \in 1..Len(p) : EncodedPayload(p)[k] # 0
      BY <3>1, EncodedPayloadIs
    <3> QED BY <2>2, <3>2, Zenon DEF p
  <2> QED BY <2>1, <2>2, <1>4
<1>8. Lies(t, base)'
  <2>1. /\ Left \in Nat /\ Left' = Left + Len(e) /\ Len(e) \in Nat
        /\ \A x \in 1..Left : At(x)' = At(x)
        /\ \A x \in Left + 1 .. Left + Len(e) : At(x)' = e[x - Left]
    BY <1>1, <1>5, <1>7, LineGrows
  <2>2. ASSUME NEW x \in Left + 1 .. Left + Len(e) PROVE At(x)' # 0
    <3>1. x - Left \in 1..Len(e)
      BY <2>1
    <3> QED BY <2>1, <3>1, <1>7, Zenon
  <2>3. Lies(t, base)
    BY <1>3 DEF Traced
  <2> QED BY <2>1, <2>2, <2>3, <1>6, LiesOn, Zenon
<1> QED BY <1>1, <1>2, <1>3, <1>4, <1>5, <1>6, <1>8, LossStill, Zenon

(* A payload refused behind its header: what reads it is lost. *)
LEMMA LossOrphan ==
  ASSUME LossInv, Types', HalfWritten, half' = NoFrame, orphan',
         UNCHANGED <<receiver, line, sent, sure>>
  PROVE  LossInv'
<1>2. PICK kinds : delivered \in Seq(kinds)
  BY DEF LossInv
<1>3. PICK t \in Seq(Item), base \in Nat : Traced(t, base)
  BY DEF LossInv
<1>4. Types /\ TrailIs(t) /\ Lies(t, base) /\ Tracks(t, base)
  BY <1>3 DEF Traced, LossInv
<1>5. UNCHANGED <<capacity, state, header, headerPos, rxPos, nextZero, rxPayload, delivered,
                  data, length, i>>
  BY DEF receiver
<1>6. ~HalfWritten'
  BY DEF HalfWritten
<1> DEFINE n == Len(t)
<1>7. n \in Nat /\ n > 0 /\ t[n].rank = 0 /\ t[n].at + 5 = base + Left
  BY <1>4 DEF TrailIs, Lies
<1>8. TrailIs(t)'
  <2>1. \A m : AfterWhole(t, m)' <=> AfterWhole(t, m)
    BY DEF AfterWhole
  <2> QED BY <2>1, <1>4, <1>6, Zenon DEF TrailIs
<1>9. Lies(t, base)'
  <2>1. Left' = Left /\ \A x : At(x)' = At(x)
    BY <1>5 DEF Left, At
  <2>2. \A m, k : Wire(t[m].frame, k)' = Wire(t[m].frame, k)
    BY Zenon DEF Wire
  <2> QED BY <2>1, <2>2, <1>4, <1>6, Zenon DEF Lies
<1>10. \A m : InHand(t, m)' <=> t[m].rank > 0
  BY <1>6, Zenon DEF InHand
<1>11. \A f, k : Wire(f, k)' = Wire(f, k)
  BY Zenon DEF Wire
<1>12. \A f, k : HeaderOf(f, k) => HeaderOf(f, k)'
  BY <1>5, <1>11, Zenon DEF HeaderOf
<1>13. ASSUME state = "READ_PAYLOAD", NEW m \in 1..n,
              (InHand(t, m) /\ Follows(t[m], base)) \/ LostBehind(t, m, base)
       PROVE  \/ InHand(t, m)' /\ Follows(t[m], base)'
              \/ LostBehind(t, m, base)'
  <2>1. CASE t[m].rank > 0
    <3>1. InHand(t, m) /\ Follows(t[m], base)
      BY <2>1, <1>13, Zenon DEF LostBehind, InHand
    <3> QED BY <3>1, <2>1, <1>5, <1>10, <1>12, Zenon DEF Follows
  <2>2. CASE ~(t[m].rank > 0)
    <3>1. CASE LostBehind(t, m, base)
      BY <3>1, <2>2, <1>5, <1>10, Zenon DEF LostBehind
    <3>2. CASE InHand(t, m) /\ Follows(t[m], base)
      <4>1. m = n
        BY <3>2, <2>2, Zenon DEF InHand
      <4>2. HeaderOf(t[n].frame, 5) /\ base = t[n].at + 5 + rxPos /\ rxPos < Len(t[n].frame.payload)
        BY <3>2, <4>1, Zenon DEF Follows
      <4>3. header[2] = Len(t[n].frame.payload)
        <5>1. 2 \in 0..5 - 1 /\ t[n].frame \in Frames
          BY <1>7, ItemIs
        <5> QED BY <5>1, <4>2, WireIs DEF HeaderOf
      <4>4. t[n].at < base
        <5>1. rxPos \in Nat
          BY <1>4, Constants DEF Types, TypeOK
        <5>2. n \in 1..n
          BY <1>7
        <5>3. t[n].at \in Nat
          BY <5>2, ItemIs
        <5> QED BY <4>2, <5>1, <5>3
      <4>5. \A l \in 1..n : ~(l > n)
        BY <1>7
      <4>6. rxPos < header[2]
        BY <4>2, <4>3, Zenon
      <4> QED BY <4>1, <4>4, <4>5, <4>6, <2>2, <1>5, <1>10, Zenon DEF LostBehind
    <3> QED BY <3>1, <3>2, <1>13
  <2> QED BY <2>1, <2>2
<1>14. Tracks(t, base)'
  <2>1. CASE state = "READ_HEADER"
    BY <2>1, <1>4, <1>5, <1>11, Zenon DEF Tracks, HeaderOf
  <2>2. CASE state = "READ_PAYLOAD"
    <3>1. PICK m \in 1..n : (InHand(t, m) /\ Follows(t[m], base)) \/ LostBehind(t, m, base)
      BY <2>2, <1>4, Zenon DEF Tracks
    <3>2. (InHand(t, m)' /\ Follows(t[m], base)') \/ LostBehind(t, m, base)'
      BY <3>1, <2>2, <1>13
    <3> QED BY <3>2, <2>2, <1>5 DEF Tracks
  <2>3. CASE state = "HUNT_SYNC"
    <3>1. \A m : AfterWhole(t, m)' <=> AfterWhole(t, m)
      BY DEF AfterWhole
    <3>2. \A f : Fits(f)' <=> Fits(f)
      BY <1>5 DEF Fits
    <3>3. \A m : InHand(t, m)' => InHand(t, m)
      BY <1>10, Zenon DEF InHand
    <3>4. \A m \in 1..Len(t) : InHand(t, m)' /\ AfterWhole(t, m)' /\ Fits(t[m].frame)' =>
            t[m].at >= base \/ t[m].at + FullSize(t[m]) <= base
      BY <2>3, <3>1, <3>2, <3>3, <1>4, Zenon DEF Tracks
    <3> QED BY <2>3, <3>4, <1>5 DEF Tracks
  <2>4. CASE state \notin {"READ_HEADER", "READ_PAYLOAD", "HUNT_SYNC"}
    BY <2>4, <1>5, Zenon DEF Tracks
  <2> QED BY <2>1, <2>2, <2>3, <2>4
<1>15. \A m : Owed(t, m, base)' <=> Owed(t, m, base)
  BY <1>5 DEF Owed, AfterWhole, Fits
<1> HIDE DEF n
<1> QED BY <1>2, <1>3, <1>5, <1>8, <1>9, <1>14, <1>15, LossKept, Zenon

(* A payload written behind its header: its frame is sent. *)
LEMMA LossSent ==
  ASSUME LossInv, Types', HalfWritten, half' = NoFrame, UNCHANGED receiver,
         line' = line \o EncodedPayload(half.payload), sent' = Append(sent, half),
         sure' = IF orphan THEN sure ELSE sure \union {Len(sent')}
  PROVE  LossInv'
<1>1. PICK kinds : delivered \in Seq(kinds)
  BY DEF LossInv
<1>2. PICK t \in Seq(Item), base \in Nat : Traced(t, base)
  BY DEF LossInv
<1>3. Types /\ TrailIs(t) /\ Lies(t, base) /\ Tracks(t, base)
  BY <1>2 DEF Traced, LossInv
<1>4. UNCHANGED <<capacity, state, header, headerPos, rxPos, nextZero, rxPayload, delivered,
                  data, length, i>>
  BY DEF receiver
<1>5. ~HalfWritten' /\ half \in Frames
  <2>1. half # NoFrame /\ half \in Frames \cup {NoFrame}
    BY <1>3 DEF HalfWritten, Types, TypeOK
  <2> QED BY <2>1 DEF HalfWritten
<1> DEFINE n == Len(t)
           s == Len(sent)
           y == Len(half.payload)
           e == EncodedPayload(half.payload)
<1>6. n \in Nat /\ n \in 1..n /\ t[n].rank = 0 /\ t[n].frame = half /\ t[n].at + 5 = base + Left
  BY <1>3 DEF TrailIs, Lies
<1>7. e \in Seq(Byte) /\ Len(e) = y /\ y \in Nat /\ y >= 1 /\ \A k \in 1..y : e[k] # 0
  <2>1. half.payload \in Seq(Byte) /\ y \in 1..ByteMod - 1 /\ y < ByteMod
    BY <1>5, FrameIs, AbfAssumption
  <2> QED BY <2>1, EncodedPayloadIs
<1>8. /\ Left \in Nat /\ Left' = Left + y
      /\ \A x \in 1..Left : At(x)' = At(x)
      /\ \A x \in Left + 1 .. Left + y : At(x)' = e[x - Left]
  <2> HIDE DEF e, y
  <2>1. line' = line \o e
    BY DEF e
  <2>2. /\ Left \in Nat /\ Left' = Left + Len(e)
        /\ \A x \in 1..Left : At(x)' = At(x)
        /\ \A x \in Left + 1 .. Left + Len(e) : At(x)' = e[x - Left]
    BY <1>3, <1>4, <1>7, <2>1, LineGrows
  <2> QED BY <1>7, <2>2
<1>9. /\ s \in Nat /\ Len(sent') = s + 1 /\ sent'[s + 1] = half
      /\ \A k \in 1..s : sent'[k] = sent[k]
  <2>1. sent \in Seq(Frames)
    BY <1>3 DEF Types, TypeOK
  <2>2. /\ Len(Append(sent, half)) = s + 1 /\ Append(sent, half)[s + 1] = half /\ s \in Nat
        /\ \A k \in 1..s : Append(sent, half)[k] = sent[k]
    BY <2>1, OneMore
  <2> HIDE DEF s
  <2> QED BY <2>2, Zenon
<1>10. PICK u \in Seq(Item) :
         /\ Len(u) = n /\ \A m \in 1..n : m # n => u[m] = t[m]
         /\ u[n].at = t[n].at /\ u[n].frame = half /\ u[n].rank = s + 1
  <2> DEFINE x == [at |-> t[n].at, frame |-> half, rank |-> s + 1]
             v == [t EXCEPT ![n] = x]
  <2>1. x \in Item
    <3>1. t[n].at \in Nat /\ s + 1 \in Nat
      BY <1>6, <1>9, ItemIs
    <3> HIDE DEF s, n
    <3> QED BY <3>1, <1>5 DEF Item
  <2>2. x.at = t[n].at /\ x.frame = half /\ x.rank = s + 1
    OBVIOUS
  <2> HIDE DEF x
  <2>3. v \in Seq(Item) /\ Len(v) = n /\ v[n] = x /\ \A m \in 1..n : m # n => v[m] = t[m]
    BY <2>1, <1>6
  <2> QED BY <2>2, <2>3, Zenon
<1>11. \A m \in 1..n : (m = n \/ (m # n /\ m < n /\ ~(n < m))) /\ ~(m < m)
  BY <1>6
<1> HIDE DEF n, s, y, e
<1>12. \A m \in 1..n : AfterWhole(u, m) <=> AfterWhole(t, m)
  <2>1. ASSUME NEW m \in 1..n PROVE m = 1 \/ u[m - 1] = t[m - 1]
    <3>1. m = 1 \/ (m - 1 \in 1..n /\ m - 1 # n)
      BY <1>6
    <3> QED BY <3>1, <1>10
  <2> QED BY <2>1, Zenon DEF AfterWhole
<1>13. /\ \A m \in 1..n : t[m].rank > 0 =>
            t[m].rank <= s /\ sent[t[m].rank] = t[m].frame
       /\ \A k \in 1..s : \E m \in 1..n : t[m].rank = k
       /\ \A m, l \in 1..n :
            m < l /\ t[m].rank > 0 /\ t[l].rank > 0 => t[m].rank < t[l].rank
       /\ sure \subseteq 1..s
       /\ \A m \in 1..n : t[m].rank \in sure => AfterWhole(t, m)
       /\ ~orphan => AfterWhole(t, n)
  BY <1>3, Zenon DEF TrailIs, n, s
<1>14. \A m \in 1..n : t[m].rank \in Nat
  BY ItemIs DEF n
<1>15. TrailIs(u)'
  <2>1. ASSUME NEW m \in 1..n, u[m].rank > 0
        PROVE  u[m].rank <= Len(sent') /\ sent'[u[m].rank] = u[m].frame
    <3>1. CASE m = n
      BY <3>1, <1>9, <1>10
    <3>2. CASE m # n
      <4> DEFINE r == t[m].rank
      <4>1. u[m] = t[m] /\ r \in Nat /\ r > 0 /\ r <= s /\ sent[r] = t[m].frame
        BY <3>2, <2>1, <1>10, <1>13, <1>14, Zenon
      <4> HIDE DEF r
      <4>2. r \in 1..s /\ r <= s + 1
        BY <4>1, <1>9
      <4> QED BY <4>1, <4>2, <1>9, Zenon DEF r
    <3> QED BY <3>1, <3>2
  <2>2. ASSUME NEW k \in 1..Len(sent') PROVE \E m \in 1..n : u[m].rank = k
    <3>1. CASE k = s + 1
      BY <3>1, <1>6, <1>10, Zenon
    <3>2. CASE k # s + 1
      <4>1. k \in 1..s /\ k # 0
        BY <3>2, <1>9
      <4>2. PICK m \in 1..n : t[m].rank = k
        BY <4>1, <1>13, Zenon
      <4>3. u[m] = t[m]
        BY <4>1, <4>2, <1>6, <1>10, Zenon
      <4> QED BY <4>2, <4>3, Zenon
    <3> QED BY <3>1, <3>2
  <2>3. ASSUME NEW m \in 1..n, NEW l \in 1..n, m < l, u[m].rank > 0, u[l].rank > 0
        PROVE  u[m].rank < u[l].rank
    <3>1. m # n /\ u[m] = t[m]
      BY <2>3, <1>6, <1>10
    <3>2. CASE l = n
      <4> DEFINE r == t[m].rank
      <4>1. r \in Nat /\ r <= s
        BY <3>1, <2>3, <1>13, <1>14, Zenon
      <4> HIDE DEF r
      <4>2. r < s + 1
        BY <4>1, <1>9
      <4> QED BY <3>1, <3>2, <4>2, <1>10, Zenon DEF r
    <3>3. CASE l # n
      BY <3>1, <3>3, <2>3, <1>10, <1>13, Zenon
    <3> QED BY <3>2, <3>3
  <2>4. sure' \subseteq 1..Len(sent')
    BY <1>9, <1>13
  <2>5. ASSUME NEW m \in 1..n, u[m].rank \in sure' PROVE AfterWhole(u, m)
    <3>1. CASE m = n
      <4>1. s + 1 \notin sure
        BY <1>9, <1>13
      <4>2. ~orphan
        BY <3>1, <4>1, <2>5, <1>10, Zenon
      <4> QED BY <3>1, <4>2, <1>6, <1>12, <1>13, Zenon
    <3>2. CASE m # n
      <4> DEFINE r == t[m].rank
      <4>1. u[m] = t[m] /\ r \in Nat /\ (r > 0 => r <= s)
        BY <3>2, <1>10, <1>13, <1>14, Zenon
      <4> HIDE DEF r
      <4>2. r # s + 1
        BY <4>1, <1>9
      <4>3. r \in sure
        BY <4>1, <4>2, <2>5, <1>9, Zenon DEF r
      <4> QED BY <4>3, <1>12, <1>13, Zenon DEF r
    <3> QED BY <3>1, <3>2
  <2>6. AfterWhole(u, n + 1)
    <3>1. n + 1 - 1 = n /\ s + 1 > 0
      BY <1>6, <1>9
    <3> QED BY <3>1, <1>10 DEF AfterWhole
  <2>7. \A m : AfterWhole(u, m)' <=> AfterWhole(u, m)
    BY DEF AfterWhole
  <2> QED BY <2>1, <2>2, <2>3, <2>4, <2>5, <2>6, <2>7, <1>5, <1>10, Zenon DEF TrailIs
<1> DEFINE z == t[n].at
<1>16. /\ z \in Nat /\ z + 5 = base + Left /\ Extent(t[n]) = 5 /\ Extent(u[n]) = 5 + y
       /\ \A m \in 1..n : t[m].at \in Nat /\ Extent(t[m]) \in Nat
       /\ \A m \in 1..n : m # n => Extent(u[m]) = Extent(t[m])
  <2>1. s + 1 > 0 /\ ~(0 > 0)
    BY <1>9
  <2>2. FullSize(u[n]) = 5 + y /\ Extent(u[n]) = FullSize(u[n])
    BY <2>1, <1>10, Zenon DEF FullSize, Extent, y
  <2>3. Extent(t[n]) = 5
    BY <1>6, <2>1 DEF Extent
  <2>4. \A m \in 1..n : t[m].at \in Nat /\ Extent(t[m]) \in Nat
    BY ItemIs DEF n
  <2> QED BY <2>2, <2>3, <2>4, <1>6, <1>10, Zenon
<1>17. \A m, l \in 1..n : m < l => t[m].at + Extent(t[m]) <= t[l].at
  BY <1>3 DEF Lies, n
<1>18. \A m \in 1..n : u[m].at = t[m].at /\ u[m].frame = t[m].frame
  BY <1>6, <1>10, Zenon
<1> HIDE DEF z
<1>19. Lies(u, base)'
  <2>1. ASSUME NEW m \in 1..n PROVE u[m].at + Extent(u[m]) <= base + Left'
    <3>1. CASE m = n
      <4>1. z + (5 + y) <= base + Left'
        BY <1>7, <1>8, <1>16
      <4> QED BY <3>1, <4>1, <1>10, <1>16, Zenon DEF z
    <3>2. CASE m # n
      <4> DEFINE a == t[m].at
                 x == Extent(t[m])
      <4>1. a \in Nat /\ x \in Nat /\ a + x <= base + Left
        BY <1>3, <1>16, Zenon DEF Lies, n
      <4> HIDE DEF a, x
      <4>2. a + x <= base + Left'
        BY <4>1, <1>7, <1>8
      <4> QED BY <3>2, <4>2, <1>10, <1>16, Zenon DEF a, x
    <3> QED BY <3>1, <3>2
  <2>2. \A m, l \in 1..n : m < l => u[m].at + Extent(u[m]) <= u[l].at
    <3>1. ASSUME NEW m \in 1..n, NEW l \in 1..n, m < l PROVE m # n
      BY <3>1, <1>6
    <3> QED BY <3>1, <1>16, <1>17, <1>18, Zenon
  <2>3. ASSUME NEW m \in 1..n, NEW k \in 0..Extent(t[m]) - 1, t[m].at + k >= base
        PROVE  At(t[m].at + k - base + 1)' = Wire(t[m].frame, k)
    <3> DEFINE a == t[m].at
               x == Extent(t[m])
    <3>1. a \in Nat /\ x \in Nat /\ a + x <= base + Left /\ k \in 0..x - 1 /\ a + k >= base
      BY <2>3, <1>3, <1>16, Zenon DEF Lies, n
    <3> HIDE DEF a, x
    <3>2. a + k - base + 1 \in 1..Left
      BY <3>1, <1>8
    <3>3. At(a + k - base + 1) = Wire(t[m].frame, k)
      BY <2>3, <1>3, Zenon DEF Lies, a, n
    <3> QED BY <3>2, <3>3, <1>8, Zenon DEF a
  <2>4. ASSUME NEW k \in 5..5 + y - 1 PROVE At(z + k - base + 1)' = Wire(half, k)
    <3>1. /\ z + k - base + 1 \in Left + 1 .. Left + y /\ (z + k - base + 1) - Left = k - 4
          /\ ~(k < 5)
      <4>1. z \in Nat /\ z + 5 = base + Left /\ Left \in Nat /\ y \in Nat
        BY <1>7, <1>8, <1>16
      <4> QED BY <4>1
    <3>2. At(z + k - base + 1)' = e[k - 4]
      BY <3>1, <1>8, Zenon
    <3> QED BY <3>1, <3>2, Zenon DEF Wire, e
  <2>5. ASSUME NEW m \in 1..n, NEW k \in 0..Extent(u[m]) - 1, u[m].at + k >= base
        PROVE  At(u[m].at + k - base + 1)' = Wire(u[m].frame, k)
    <3>1. CASE k \in 0..Extent(t[m]) - 1
      BY <3>1, <2>3, <2>5, <1>18, Zenon
    <3>2. CASE k \notin 0..Extent(t[m]) - 1
      <4>1. m = n
        BY <3>2, <2>5, <1>16, Zenon
      <4>3. k \in 5..5 + y - 1
        <5> DEFINE p == Extent(u[m])
                   q == Extent(t[m])
        <5>1. p = 5 + y /\ q = 5
          BY <4>1, <1>16, Zenon
        <5>2. k \in 0..p - 1 /\ k \notin 0..q - 1
          BY <2>5, <3>2
        <5> HIDE DEF p, q
        <5> QED BY <5>1, <5>2, <1>7
      <4> QED BY <4>1, <4>3, <2>4, <1>10, Zenon DEF z
    <3> QED BY <3>1, <3>2
  <2>6. ASSUME NEW x \in 1..Left', At(x)' = 0
        PROVE  \E m \in 1..n : u[m].at = base + x - 1
    <3>1. CASE x \in 1..Left
      <4>1. At(x) = 0
        BY <3>1, <2>6, <1>8, Zenon
      <4>2. PICK m \in 1..n : t[m].at = base + x - 1
        BY <3>1, <4>1, <1>3, Zenon DEF Lies, n
      <4> QED BY <4>2, <1>18, Zenon
    <3>2. CASE x \in Left + 1 .. Left + y
      <4>1. x - Left \in 1..y
        BY <3>2, <1>7, <1>8
      <4> QED BY <3>2, <4>1, <2>6, <1>7, <1>8, Zenon
    <3> QED BY <3>1, <3>2, <1>7, <1>8
  <2>7. \A m, k : Wire(u[m].frame, k)' = Wire(u[m].frame, k)
    BY Zenon DEF Wire
  <2>8. \A m \in 1..Len(u) : \A k \in 0..Extent(u[m]) - 1 :
          u[m].at + k >= base => At(u[m].at + k - base + 1)' = Wire(u[m].frame, k)'
    BY <2>5, <2>7, <1>10, Zenon
  <2> QED BY <2>1, <2>2, <2>6, <2>8, <1>5, <1>10, Zenon DEF Lies
<1>20. Tracks(u, base)'
  <2>1. Len(t) \in Nat /\ Len(u) \in Nat /\ Len(t) <= Len(u) /\ \A m \in 1..Len(u) : ~(m > Len(t))
    BY <1>6, <1>10 DEF n
  <2>2. ASSUME NEW m \in 1..n PROVE InHand(u, m)' <=> InHand(t, m)
    <3>1. CASE m = n
      <4>1. s + 1 > 0
        BY <1>9
      <4> QED BY <3>1, <4>1, <1>10, Zenon DEF InHand, n
    <3>2. CASE m # n
      BY <3>2, <1>5, <1>10, Zenon DEF InHand, n
    <3> QED BY <3>1, <3>2
  <2> QED BY <2>1, <2>2, <1>3, <1>4, <1>12, <1>18, TracksKept, Zenon DEF n
<1>21. ASSUME NEW m \in 1..Len(u), Owed(u, m, base)'
       PROVE  m \in 1..Len(t) /\ Owed(t, m, base) /\ u[m].frame = t[m].frame
  <2>1. m # n
    <3>1. ASSUME m = n PROVE FALSE
      <4>1. FullSize(u[n]) = 5 + y /\ u[n].at = z
        BY <1>10, Zenon DEF FullSize, y, z
      <4>2. u[n].at + FullSize(u[n]) <= base
        BY <3>1, <1>21, Zenon DEF Owed
      <4>3. z + (5 + y) <= base
        BY <4>1, <4>2, Zenon
      <4> QED BY <4>3, <1>7, <1>8, <1>16
    <3> QED BY <3>1
  <2>2. m \in 1..n /\ u[m] = t[m]
    BY <2>1, <1>10, <1>21, Zenon
  <2>3. AfterWhole(t, m)
    BY <2>2, <1>12, <1>21, Zenon DEF Owed, AfterWhole
  <2> QED BY <2>2, <2>3, <1>4, <1>21 DEF Owed, Fits, n
<1> QED BY <1>1, <1>2, <1>4, <1>15, <1>19, <1>20, <1>21, LossKept

LEMMA LossWritten ==
  ASSUME LossInv, WritePayload
  PROVE  LossInv'
<1>1. Types /\ Types' /\ half # NoFrame /\ half' = NoFrame /\ UNCHANGED receiver
  BY TypesWritePayload, Zenon DEF LossInv, WritePayload
<1>2. CASE ~kept
  BY <1>2, LossStray
<1>3. CASE kept /\ line' = line \o EncodedPayload(half.payload) /\ sent' = Append(sent, half)
           /\ sure' = IF orphan THEN sure ELSE sure \union {Len(sent')}
  BY <1>1, <1>3, LossSent, Zenon DEF HalfWritten
<1>4. CASE kept /\ orphan' = (kept \/ orphan) /\ UNCHANGED <<line, sent, sure>>
  BY <1>1, <1>4, LossOrphan, Zenon DEF HalfWritten
<1> QED BY <1>2, <1>3, <1>4, Zenon DEF WritePayload

LEMMA LossInit == Init => LossInv
<1> SUFFICES ASSUME Init PROVE LossInv
  OBVIOUS
<1>1. Types
  BY TypesInit
<1>2. /\ sent = <<>> /\ sure = {} /\ delivered = <<>> /\ line = <<>> /\ length = 0 /\ i = 0
      /\ half = NoFrame /\ state = "HUNT_SYNC"
  BY DEF Init
<1>3. ~HalfWritten /\ Left = 0 /\ Len(sent) = 0
  BY <1>2 DEF HalfWritten, Left
<1>4. PICK t \in Seq(Item) : t = <<>>
  <2>1. <<>> \in Seq(Item)
    OBVIOUS
  <2> QED BY <2>1, Zenon
<1>5. Len(t) = 0 /\ 1..Len(t) = {} /\ 1..Left = {} /\ 1..Len(sent) = {} /\ Len(t) + 1 = 1
  BY <1>3, <1>4
<1>6. TrailIs(t)
  BY <1>2, <1>3, <1>5 DEF TrailIs, AfterWhole
<1>7. Lies(t, 0)
  BY <1>3, <1>5 DEF Lies
<1>8. Tracks(t, 0)
  BY <1>2, <1>5 DEF Tracks
<1>9. \E place \in [Nat -> Nat] : Handed(t, 0, place)
  <2>1. [k \in Nat |-> k] \in [Nat -> Nat]
    OBVIOUS
  <2>2. OwedOnes(t, 0) = {}
    BY <1>5, Zenon DEF OwedOnes
  <2> QED BY <2>1, <2>2, Zenon DEF Handed, Placed
<1>10. Traced(t, 0) /\ 0 \in Nat
  BY <1>6, <1>7, <1>8, <1>9, Zenon DEF Traced
<1>11. delivered \in Seq(Frames)
  BY <1>2
<1> QED BY <1>1, <1>10, <1>11, Zenon DEF LossInv

LEMMA LossStep ==
  ASSUME Clear, LossInv, [Next]_vars
  PROVE  LossInv'
<1>0. ~Shared
  BY DEF Clear
<1>1. CASE UNCHANGED vars
  BY <1>1, LossStutter
<1>2. ASSUME NEW f \in Frames, WriteHeader(f) PROVE LossInv'
  BY <1>2, LossBegun, LossRefused
<1>3. CASE WritePayload
  BY <1>3, LossWritten
<1>4. ASSUME NEW n \in 1..ReadMax, Read(n) PROVE LossInv'
  BY <1>0, <1>4, LossRead
<1>5. CASE HuntSync
  BY <1>0, <1>5, LossHunt
<1>6. CASE ReadHeader
  BY <1>0, <1>6, LossHeader
<1>7. CASE ReadPayload
  BY <1>0, <1>7, LossPayload
<1> QED BY <1>1, <1>2, <1>3, <1>4, <1>5, <1>6, <1>7, Zenon DEF Next

(* With all bytes processed, the trail names a place of each frame owed.   *)
LEMMA LossEnds ==
  ASSUME LossInv, half = NoFrame, line = <<>>, i = length,
         NEW owed, owed = {k \in sure : Len(sent[k].payload) <= capacity}
  PROVE  \E place \in [owed -> 1..Len(delivered)] :
           \A k \in owed : /\ delivered[place[k]] = sent[k]
                           /\ \A j \in owed : j < k => place[j] < place[k]
<1>1. PICK t \in Seq(Item), base \in Nat : Traced(t, base)
  BY DEF LossInv
<1>2. PICK q \in [Nat -> Nat] : Handed(t, base, q)
  BY <1>1 DEF Traced
<1>3. Types /\ TrailIs(t) /\ Lies(t, base)
  BY <1>1 DEF Traced, LossInv
<1> DEFINE n == Len(t)
           of == [k \in owed |-> CHOOSE m \in 1..n : t[m].rank = k]
           place == [k \in owed |-> q[of[k]]]
<1>4. Left = 0
  BY <1>3, Constants DEF Left, Types, TypeOK
<1>5. ASSUME NEW k \in owed
      PROVE  of[k] \in OwedOnes(t, base) /\ t[of[k]].rank = k /\ t[of[k]].frame = sent[k]
             /\ of[k] \in 1..n /\ k \in 1..Len(sent)
  <2>1. k \in sure /\ k \in 1..Len(sent) /\ Len(sent[k].payload) <= capacity
    BY <1>3 DEF TrailIs
  <2>2. \E m \in 1..n : t[m].rank = k
    BY <2>1, <1>3 DEF TrailIs
  <2>3. of[k] \in 1..n /\ t[of[k]].rank = k
    BY <2>2, Zenon
  <2> DEFINE m == of[k]
  <2> HIDE DEF of
  <2>4. t[m].rank > 0
    BY <2>1, <2>3
  <2>5. t[m].frame = sent[k] /\ AfterWhole(t, m)
    BY <2>1, <2>3, <2>4, <1>3, Zenon DEF TrailIs
  <2>6. Fits(t[m].frame)
    BY <2>1, <2>5, Zenon DEF Fits
  <2>7. t[m].at + FullSize(t[m]) <= base
    <3>1. Extent(t[m]) = FullSize(t[m]) /\ t[m].at + Extent(t[m]) <= base + Left
      BY <2>3, <2>4, <1>3, Zenon DEF Lies, Extent
    <3>2. base + Left = base
      BY <1>4
    <3> QED BY <3>1, <3>2, Zenon
  <2> QED BY <2>1, <2>3, <2>4, <2>5, <2>6, <2>7, Zenon DEF Owed, OwedOnes
<1> HIDE DEF of
<1>6. ASSUME NEW k \in owed
      PROVE  place[k] = q[of[k]] /\ place[k] \in 1..Len(delivered)
             /\ delivered[place[k]] = sent[k]
  <2>1. q[of[k]] \in 1..Len(delivered) /\ delivered[q[of[k]]] = FramesOf(t)[of[k]]
    BY <1>2, <1>5, Zenon DEF Handed, Placed
  <2>2. FramesOf(t)[of[k]] = sent[k]
    BY <1>5, Zenon DEF FramesOf
  <2>3. place[k] = q[of[k]]
    OBVIOUS
  <2> HIDE DEF place
  <2> QED BY <2>1, <2>2, <2>3, Zenon
<1>7. place \in [owed -> 1..Len(delivered)]
  BY <1>6, Zenon
<1>8. ASSUME NEW k \in owed, NEW j \in owed, j < k PROVE place[j] < place[k]
  <2> DEFINE a == of[j]
             b == of[k]
  <2>1. /\ a \in 1..n /\ b \in 1..n /\ t[a].rank = j /\ t[b].rank = k
        /\ a \in OwedOnes(t, base) /\ b \in OwedOnes(t, base)
        /\ j \in 1..Len(sent) /\ k \in 1..Len(sent)
    BY <1>5, Zenon
  <2> HIDE DEF a, b
  <2>2. ~(b < a) /\ a # b /\ j > 0 /\ k > 0
    <3>1. j > 0 /\ k > 0 /\ ~(k < j) /\ j # k
      BY <2>1, <1>8
    <3> QED BY <2>1, <3>1, <1>3, Zenon DEF TrailIs, n
  <2>3. a < b
    BY <2>1, <2>2
  <2>4. q[a] < q[b]
    BY <2>1, <2>3, <1>2, Zenon DEF Handed, Placed
  <2> QED BY <2>4, <1>6, Zenon DEF a, b
<1> HIDE DEF place
<1> QED BY <1>6, <1>7, <1>8, Zenon

(* Every zero among the bytes that are left begins a header, and a decoder *)
(* that hunts is not inside a frame that must survive (Stream::process).   *)
THEOREM LossInductive == Clear /\ Spec => []LossInv
<1> SUFFICES ASSUME Clear PROVE Spec => []LossInv
  OBVIOUS
<1>1. LossInv /\ [Next]_vars => LossInv'
  BY LossStep
<1> QED BY LossInit, <1>1, PTL DEF Spec

(* Every frame that was sent whole and follows no header left without its  *)
(* payload is delivered, in order, when all bytes are processed: with a    *)
(* buffer of their own for the bytes read, and as long as the distance to  *)
(* the first zero of a payload fits a byte (Stream::process).              *)
THEOREM LossStaysLocal == Clear /\ Spec => []LossIsLocal
<1> SUFFICES ASSUME Clear PROVE Spec => []LossIsLocal
  OBVIOUS
<1>1. LossInv => LossIsLocal
  BY LossEnds, Zenon DEF LossIsLocal
<1> QED BY LossInductive, <1>1, PTL
=============================================================================
