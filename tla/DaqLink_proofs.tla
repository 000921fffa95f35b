--------------------------- MODULE DaqLink_proofs ---------------------------
(***************************************************************************)
(* Proofs about two parts of the way from the samples of the controller to *)
(* the application on the PC.                                              *)
(*                                                                         *)
(* The PC side of the bulk link: for every size of packet, transfer,       *)
(* receive ring and read, and every number of bytes and unpluggings.       *)
(*                                                                         *)
(* The compression of DaqCodec: for every number of channels, every vector *)
(* of samples, every cut of the stream and every refusal, the blocks the   *)
(* application gets hold what was pushed, in order.                        *)
(***************************************************************************)
EXTENDS UsbxchLibusb, DaqCodec, TLAPS, SequenceTheorems, WellFoundedInduction

-----------------------------------------------------------------------------
(* Part 1: the PC side of the bulk link. *)

(* One more full packet still fits a transfer whose size is a multiple of  *)
(* the packet's.                                                           *)
LEMMA MultipleBelow ==
  ASSUME NEW m \in Nat \ {0}, NEW p \in Nat, NEW q \in Nat, m * p < m * q
  PROVE  m * p + m <= m * q
<1>1. p < q
  BY Z3
<1>2. p + 1 <= q
  BY <1>1
<1>3. m * (q - (p + 1)) >= 0
  BY <1>2
<1> QED
  BY <1>3

LEMMA MultipleIsFull ==
  ASSUME NEW m \in Nat \ {0}, NEW e \in Nat
  PROVE  (m * e) % m = 0
OBVIOUS

LEMMA RoomForPacket ==
  ASSUME NEW m \in Nat \ {0}, NEW a \in Nat, NEW t \in Nat,
         a % m = 0, t % m = 0, a < t
  PROVE  a + m <= t /\ (a + m) % m = 0
<1> DEFINE p == a \div m
           q == t \div m
<1>1. p \in Nat /\ q \in Nat /\ a = m * p /\ t = m * q
  OBVIOUS
<1> HIDE DEF p, q
<1>2. a + m <= t
  BY <1>1, MultipleBelow
<1>3. a + m = m * (p + 1) /\ p + 1 \in Nat
  BY <1>1
<1> QED
  BY <1>2, <1>3, MultipleIsFull

(* A sequence of positions, none after top. *)
AscendsTo(s, top) == Ascending(s) /\ \A k \in 1 .. Len(s) : s[k] <= top

(* What is dropped at the end leaves the rest in order. *)
LEMMA PrefixAscends ==
  ASSUME NEW a \in Seq(Int), NEW b \in Seq(Int), NEW top \in Int,
         AscendsTo(a \o b, top)
  PROVE  AscendsTo(a, top)
<1>1. /\ Len(a) \in Nat /\ Len(b) \in Nat /\ Len(a \o b) = Len(a) + Len(b)
      /\ \A k \in 1 .. Len(a) : (a \o b)[k] = a[k]
  OBVIOUS
<1>2. ASSUME NEW k \in 1 .. Len(a) - 1
      PROVE  a[k] < a[k + 1]
  <2>1. k \in 1 .. Len(a \o b) - 1 /\ k \in 1 .. Len(a) /\ k + 1 \in 1 .. Len(a)
    BY <1>1
  <2>2. (a \o b)[k] < (a \o b)[k + 1]
    BY <2>1 DEF AscendsTo, Ascending
  <2>3. (a \o b)[k] = a[k] /\ (a \o b)[k + 1] = a[k + 1]
    BY <1>1, <2>1
  <2> QED
    BY <2>2, <2>3
<1>3. ASSUME NEW k \in 1 .. Len(a)
      PROVE  a[k] <= top
  <2>1. k \in 1 .. Len(a \o b)
    BY <1>1
  <2>2. (a \o b)[k] <= top
    BY <2>1 DEF AscendsTo
  <2> QED
    BY <1>1, <2>2
<1> QED
  BY <1>2, <1>3 DEF AscendsTo, Ascending

(* What is appended is newer than all there is. *)
LEMMA AppendAscends ==
  ASSUME NEW s \in Seq(Int), NEW top \in Int, NEW n \in Nat, AscendsTo(s, top)
  PROVE  AscendsTo(s \o [k \in 1..n |-> top + k], top + n)
<1> DEFINE new == [k \in 1..n |-> top + k]
           t == s \o new
<1>1. new \in Seq(Int) /\ Len(new) = n /\ \A k \in 1..n : new[k] = top + k
  OBVIOUS
<1> HIDE DEF new
<1>2. /\ Len(s) \in Nat /\ Len(t) = Len(s) + n
      /\ \A k \in 1 .. Len(s) : t[k] = s[k] /\ s[k] \in Int
      /\ \A k \in Len(s) + 1 .. Len(s) + n : t[k] = new[k - Len(s)]
  <2>1. Len(s) \in Nat /\ Len(t) = Len(s) + n
    <3>1. Len(s) \in Nat
      OBVIOUS
    <3>2. Len(t) = Len(s) + Len(new)
      BY <1>1, ConcatProperties, Zenon
    <3> QED
      BY <1>1, <3>1, <3>2, Zenon
  <2>2. \A k \in 1 .. Len(s) : s[k] \in Int
    OBVIOUS
  <2>3. \A k \in 1 .. Len(s) + n :
          t[k] = IF k <= Len(s) THEN s[k] ELSE new[k - Len(s)]
    BY <1>1
  <2>4. \A k \in 1 .. Len(s) : t[k] = s[k]
    BY <2>1, <2>3
  <2>5. \A k \in Len(s) + 1 .. Len(s) + n : t[k] = new[k - Len(s)]
    BY <2>1, <2>3
  <2> QED
    BY <2>1, <2>2, <2>4, <2>5
<1> DEFINE l == Len(s)
<1>3. \A k \in l + 1 .. l + n : t[k] = top + (k - l)
  <2> SUFFICES ASSUME NEW k \in l + 1 .. l + n
               PROVE  t[k] = top + (k - l)
    OBVIOUS
  <2>1. k - l \in 1..n
    BY <1>2
  <2> QED
    BY <1>1, <1>2, <2>1
<1>4. l \in Nat /\ Len(t) = l + n /\ \A k \in 1 .. l : t[k] = s[k] /\ s[k] \in Int
  BY <1>2
<1>5. /\ \A k \in 1 .. l - 1 : s[k] < s[k + 1]
      /\ \A k \in 1 .. l : s[k] <= top
  BY DEF AscendsTo, Ascending
<1> HIDE DEF t, l
<1>6. ASSUME NEW k \in 1 .. Len(t) - 1
      PROVE  t[k] < t[k + 1]
  <2>1. CASE k < l
    <3>1. k \in 1 .. l - 1 /\ k \in 1 .. l /\ k + 1 \in 1 .. l
      BY <1>4, <2>1
    <3> QED
      BY <1>4, <1>5, <3>1
  <2>2. CASE k = l
    <3>1. k \in 1 .. l /\ k + 1 \in l + 1 .. l + n /\ k + 1 - l = 1
      BY <1>4, <2>2
    <3>2. t[k] = s[k] /\ s[k] \in Int /\ s[k] <= top /\ t[k + 1] = top + 1
      BY <1>3, <1>4, <1>5, <3>1
    <3> QED
      BY <3>2
  <2>3. CASE k > l
    <3>1. k \in l + 1 .. l + n /\ k + 1 \in l + 1 .. l + n
      BY <1>4, <2>3
    <3>2. t[k] = top + (k - l)
      BY <1>3, <3>1
    <3>3. t[k + 1] = top + ((k + 1) - l)
      BY <1>3, <3>1
    <3>4. top + (k - l) < top + ((k + 1) - l)
      BY <1>4
    <3> QED
      BY <3>2, <3>3, <3>4
  <2> QED
    BY <1>4, <2>1, <2>2, <2>3
<1>7. ASSUME NEW k \in 1 .. Len(t)
      PROVE  t[k] <= top + n
  <2>1. CASE k <= l
    <3>1. k \in 1 .. l
      BY <1>4, <2>1
    <3>2. t[k] = s[k] /\ s[k] \in Int /\ s[k] <= top
      BY <1>4, <1>5, <3>1
    <3> QED
      BY <3>2
  <2>2. CASE k > l
    <3>1. k \in l + 1 .. l + n
      BY <1>4, <2>2
    <3>2. t[k] = top + (k - l)
      BY <1>3, <3>1
    <3> QED
      BY <1>4, <3>1, <3>2
  <2> QED
    BY <1>4, <2>1, <2>2
<1>8. AscendsTo(t, top + n)
  BY <1>6, <1>7 DEF AscendsTo, Ascending
<1> QED
  BY <1>8 DEF t, new

-----------------------------------------------------------------------------
(* The bytes of the stream that are known to the tool: read, in the ring,  *)
(* or in the transfer that is running.                                     *)
known == got \o ring \o inFlight

LEMMA SeqFacts ==
  ASSUME TypeOK
  PROVE  /\ got \in Seq(Int) /\ ring \in Seq(Int) /\ xfer \in Seq(Int)
         /\ inFlight \in Seq(1..MaxBytes) /\ inFlight \in Seq(Int)
         /\ got \o ring \in Seq(Int) /\ known \in Seq(Int)
         /\ Len(got) \in Nat /\ Len(ring) \in Nat /\ Len(xfer) \in Nat
         /\ sent \in Nat /\ sent <= MaxBytes /\ MaxBytes \in Nat
<1>1. got \in Seq(Int) /\ ring \in Seq(Int) /\ xfer \in Seq(Int)
  BY UsbxchLibusbAssumption DEF TypeOK
<1>2. inFlight \in Seq(1..MaxBytes)
  <2>1. xfer \in Seq(1..MaxBytes) /\ <<>> \in Seq(1..MaxBytes)
    BY DEF TypeOK
  <2> QED
    BY <2>1, Zenon DEF inFlight
<1>3. inFlight \in Seq(Int)
  BY <1>1 DEF inFlight
<1>4. got \o ring \in Seq(Int)
  BY <1>1
<1>5. known \in Seq(Int)
  BY <1>3, <1>4 DEF known
<1>6. Len(got) \in Nat /\ Len(ring) \in Nat /\ Len(xfer) \in Nat
  BY <1>1
<1>7. sent \in Nat /\ sent <= MaxBytes /\ MaxBytes \in Nat
  BY UsbxchLibusbAssumption DEF TypeOK
<1> QED
  BY <1>1, <1>2, <1>3, <1>4, <1>5, <1>6, <1>7

LEMMA OrderIsNewest == OrderKept <=> AscendsTo(known, sent)
BY DEF OrderKept, AscendsTo, known

LEMMA Regrouped ==
  ASSUME NEW s \in Seq(Int), NEW t \in Seq(Int), NEW u \in Seq(Int)
  PROVE  (s \o t) \o u = s \o (t \o u)
OBVIOUS

LEMMA OfInts ==
  ASSUME NEW s \in Seq(1..MaxBytes)
  PROVE  s \in Seq(Int)
BY UsbxchLibusbAssumption

(* What is read and what waits in the ring come first of what is known. *)
LEMMA NothingIsRepeated == TypeOK /\ OrderKept => NothingRepeated
<1> SUFFICES ASSUME TypeOK, OrderKept PROVE NothingRepeated
  OBVIOUS
<1>1. AscendsTo((got \o ring) \o inFlight, sent)
  BY OrderIsNewest DEF known
<1>2. AscendsTo(got \o ring, sent)
  <2>1. /\ got \o ring \in Seq(Int) /\ inFlight \in Seq(Int)
        /\ sent \in Int
    BY SeqFacts
  <2> QED
    BY <1>1, <2>1, PrefixAscends, Zenon
<1> QED
  BY <1>2, Zenon DEF AscendsTo, NothingRepeated

(* What a read takes and leaves is what was in the ring. *)
LEMMA SplitRing ==
  ASSUME NEW S, NEW s \in Seq(S), NEW n \in 0 .. Len(s)
  PROVE  /\ SubSeq(s, 1, n) \in Seq(S) /\ SubSeq(s, n + 1, Len(s)) \in Seq(S)
         /\ Len(SubSeq(s, 1, n)) = n
         /\ Len(SubSeq(s, n + 1, Len(s))) = Len(s) - n
         /\ SubSeq(s, 1, n) \o SubSeq(s, n + 1, Len(s)) = s
<1> DEFINE a == SubSeq(s, 1, n)
           b == SubSeq(s, n + 1, Len(s))
<1>1. Len(s) \in Nat /\ n \in Nat /\ n <= Len(s)
  OBVIOUS
<1>2. \A i \in 1 .. n : s[i] \in S
  BY <1>1
<1>3. \A i \in n + 1 .. Len(s) : s[i] \in S
  BY <1>1
<1>4. a \in Seq(S) /\ Len(a) = n
  BY <1>1, <1>2, SubSeqProperties
<1>5. \A i \in 1 .. n : a[i] = s[i]
  BY <1>1, <1>2, SubSeqProperties
<1>6. b \in Seq(S) /\ Len(b) = Len(s) - n
  BY <1>1, <1>3, SubSeqProperties
<1>7. \A i \in 1 .. Len(s) - n : b[i] = s[n + i]
  BY <1>1, <1>3, SubSeqProperties
<1> HIDE DEF a, b
<1>8. Len(a \o b) = Len(s) /\ a \o b \in Seq(S)
  BY <1>1, <1>4, <1>6
<1>9. ASSUME NEW i \in 1 .. Len(s)
      PROVE  (a \o b)[i] = s[i]
  <2>1. CASE i <= n
    BY <1>1, <1>4, <1>5, <1>6, <2>1
  <2>2. CASE i > n
    <3> DEFINE j == i - n
    <3>1. j \in 1 .. Len(s) - n /\ n + j = i
      BY <1>1, <2>2
    <3>2. (a \o b)[i] = b[j]
      BY <1>1, <1>4, <1>6, <2>2
    <3> HIDE DEF j
    <3>3. b[j] = s[n + j]
      BY <1>7, <3>1
    <3> QED
      BY <3>1, <3>2, <3>3
  <2>3. i <= n \/ i > n
    BY <1>1
  <2> QED
    BY <2>1, <2>2, <2>3, Zenon
<1>10. a \o b = s
  <2>1. \A i \in 1 .. Len(a \o b) : (a \o b)[i] = s[i]
    BY <1>8, <1>9
  <2> QED
    BY <1>8, <2>1, SeqEqual, Zenon
<1> QED
  BY <1>4, <1>6, <1>10 DEF a, b

-----------------------------------------------------------------------------
(* The inductive invariant.  The places of the threads, the flags and the  *)
(* handle first.                                                           *)

ControlKept == ThreadIsSound /\ ConnectedIsServed /\ MainAlone /\ FlagsTell

LEMMA ServedByFlags ==
  ASSUME TypeOK, ThreadIsSound, MainAlone, FlagsTell
  PROVE  ConnectedIsServed
BY DEF TypeOK, ThreadIsSound, MainAlone, Serving, FlagsTell, ConnectedIsServed

LEMMA MainControl ==
  ASSUME IInv, TypeOK',
         Reconnect \/ Disconnect \/ Join \/ OpenFails \/ Open \/ StartThread
  PROVE  ControlKept'
<1> USE DEF IInv, TypeOK, ThreadIsSound, MainAlone, Serving, FlagsTell, device
<1>1. ThreadIsSound' /\ MainAlone' /\ FlagsTell'
  <2>1. CASE Reconnect
    BY <2>1 DEF Reconnect
  <2>2. CASE Disconnect
    BY <2>2 DEF Disconnect
  <2>3. CASE Join
    BY <2>3 DEF Join
  <2>4. CASE OpenFails
    BY <2>4 DEF OpenFails
  <2>5. CASE Open
    BY <2>5 DEF Open
  <2>6. CASE StartThread
    BY <2>6 DEF StartThread
  <2> QED
    BY <2>1, <2>2, <2>3, <2>4, <2>5, <2>6
<1>2. ConnectedIsServed'
  BY <1>1 DEF ConnectedIsServed
<1> QED
  BY <1>1, <1>2 DEF ControlKept

LEMMA IoControl ==
  ASSUME IInv, TypeOK',
         CheckRunning \/ Push \/ Timeout \/ Error \/ Stop
           \/ \E n \in 1 .. MaxPacket : Packet(n)
  PROVE  ControlKept'
<1> USE DEF IInv, TypeOK, ThreadIsSound, MainAlone, Serving, FlagsTell
<1>1. ThreadIsSound' /\ MainAlone' /\ FlagsTell'
  <2>1. CASE CheckRunning
    BY <2>1 DEF CheckRunning, device
  <2>2. CASE Push
    BY <2>2 DEF Push, device
  <2>3. CASE Timeout
    BY <2>3 DEF Timeout, device
  <2>4. CASE Error
    BY <2>4 DEF Error, TransferFails, device
  <2>5. CASE Stop
    BY <2>5 DEF Stop, device
  <2>6. CASE \E n \in 1 .. MaxPacket : Packet(n)
    <3>1. /\ io = "transfer" /\ io' \in {"transfer", "push"}
          /\ UNCHANGED <<connected, running, handle, main, unplugs>>
      BY <2>6 DEF Packet
    <3> QED
      BY <3>1
  <2> QED
    BY <2>1, <2>2, <2>3, <2>4, <2>5, <2>6
<1>2. ConnectedIsServed'
  BY <1>1 DEF ConnectedIsServed
<1> QED
  BY <1>1, <1>2 DEF ControlKept

LEMMA DeviceControl ==
  ASSUME IInv, Unplug \/ Plug \/ Read
  PROVE  ControlKept'
<1>1. CASE Unplug
  <2>1. /\ unplugs \in Nat /\ unplugs' = unplugs + 1
        /\ handle' = IF handle = "open" THEN "dead" ELSE handle
        /\ UNCHANGED <<connected, running, main, io>>
    BY <1>1, UsbxchLibusbAssumption DEF Unplug, IInv, TypeOK
  <2> QED
    BY <2>1 DEF ControlKept, IInv, ThreadIsSound, ConnectedIsServed, MainAlone,
                Serving, FlagsTell
<1>2. CASE Plug \/ Read
  <2>1. UNCHANGED <<connected, running, handle, main, io, unplugs>>
    BY <1>2 DEF Plug, Read, thread, device
  <2> QED
    BY <2>1 DEF ControlKept, IInv, ThreadIsSound, ConnectedIsServed, MainAlone,
                Serving, FlagsTell
<1> QED
  BY <1>1, <1>2

-----------------------------------------------------------------------------
(* The bytes: what is known stays in order and is accounted for. *)

DataKept == TypeOK' /\ LostIsReported' /\ FullPackets' /\ OrderKept'

(* A step that moves no byte. *)
LEMMA QuietData ==
  ASSUME IInv, UNCHANGED <<sent, ring, got, overflow, late, failed>>,
         inFlight' = inFlight
  PROVE  LostIsReported' /\ OrderKept'
<1>1. LostIsReported'
  BY DEF IInv, LostIsReported
<1>2. OrderKept'
  BY Zenon DEF IInv, OrderKept, Ascending
<1> QED
  BY <1>1, <1>2

LEMMA MainData ==
  ASSUME IInv,
         Reconnect \/ Disconnect \/ Join \/ OpenFails \/ Open \/ StartThread
  PROVE  DataKept
<1>1. UNCHANGED <<sent, xfer, ring, got, errors, overflow, late, failed,
                  plugged, unplugs>>
  BY DEF Reconnect, Disconnect, Join, OpenFails, Open, StartThread, device, data
<1>2. io \in {"transfer", "push"} <=> io' \in {"transfer", "push"}
  BY DEF Reconnect, Disconnect, Join, OpenFails, Open, StartThread, IInv,
         TypeOK, ThreadIsSound, MainAlone, Serving
<1>3. io' = "transfer" => io = "transfer"
  BY DEF Reconnect, Disconnect, Join, OpenFails, Open, StartThread
<1>4. /\ connected' \in BOOLEAN /\ running' \in BOOLEAN
      /\ handle' \in {"closed", "open", "dead"}
      /\ main' \in {"loop", "connect", "join", "open", "start"}
      /\ looping' \in BOOLEAN
      /\ io' \in {"none", "check", "transfer", "push", "stop", "exited",
                  "terminate"}
  BY DEF Reconnect, Disconnect, Join, OpenFails, Open, StartThread, IInv, TypeOK
<1>5. TypeOK'
  BY <1>1, <1>4, Zenon DEF IInv, TypeOK
<1>6. inFlight' = inFlight
  BY <1>1, <1>2 DEF inFlight
<1>7. FullPackets'
  BY <1>1, <1>3 DEF FullPackets, IInv
<1> QED
  BY <1>1, <1>5, <1>6, <1>7, QuietData DEF DataKept

LEMMA DeviceData ==
  ASSUME IInv, Unplug \/ Plug
  PROVE  DataKept
<1>1. /\ UNCHANGED <<connected, running, main, looping, io, sent, xfer, ring,
                     got, errors, overflow, late, failed>>
      /\ handle' \in {handle, "dead"} /\ plugged' \in BOOLEAN
      /\ \/ unplugs' = unplugs
         \/ unplugs' = unplugs + 1 /\ unplugs < MaxUnplugs
  <2>1. CASE Unplug
    BY <2>1 DEF Unplug, data, IInv, TypeOK
  <2>2. CASE Plug
    <3>1. /\ plugged' = TRUE
          /\ UNCHANGED <<connected, running, handle, main, looping, io,
                         unplugs, sent, xfer, ring, got, errors, overflow,
                         late, failed>>
      BY <2>2 DEF Plug, thread, data
    <3>2. handle' \in {handle, "dead"} /\ plugged' \in BOOLEAN
      BY <3>1
    <3> QED
      BY <3>1, <3>2, Zenon
  <2> QED
    BY <2>1, <2>2
<1>2. unplugs' \in 0..MaxUnplugs
  BY <1>1, UsbxchLibusbAssumption DEF IInv, TypeOK
<1>3. TypeOK'
  <2>1. handle' \in {"closed", "open", "dead"}
    BY <1>1 DEF IInv, TypeOK
  <2> QED
    BY <1>1, <1>2, <2>1, Zenon DEF IInv, TypeOK
<1>4. inFlight' = inFlight
  BY <1>1 DEF inFlight
<1>5. LostIsReported'
  BY <1>1, <1>2, <1>4 DEF IInv, LostIsReported
<1>6. OrderKept'
  BY <1>1, <1>4, Zenon DEF IInv, OrderKept, Ascending
<1>7. FullPackets'
  BY <1>1 DEF FullPackets, IInv
<1> QED
  BY <1>3, <1>5, <1>6, <1>7 DEF DataKept

(* A transfer that ends with its bytes thrown away. *)
LEMMA DroppedData ==
  ASSUME IInv, io = "transfer", io' \in {"check", "stop"},
         UNCHANGED <<sent, ring, got>>
  PROVE  OrderKept' /\ inFlight' = << >>
<1>1. inFlight' = << >>
  BY DEF inFlight
<1>2. TypeOK /\ AscendsTo((got \o ring) \o inFlight, sent)
  BY OrderIsNewest DEF known, IInv
<1>3. /\ got \o ring \in Seq(Int) /\ inFlight \in Seq(Int) /\ sent \in Int
  BY <1>2, SeqFacts
<1>4. AscendsTo(got \o ring, sent)
  BY <1>2, <1>3, PrefixAscends, Zenon
<1>5. known' = got \o ring
  BY <1>1, <1>3 DEF known
<1>6. OrderKept'
  <2>1. OrderKept' <=> AscendsTo(known', sent')
    BY DEF OrderKept, AscendsTo, known, Ascending
  <2> QED
    BY <1>4, <1>5, <2>1 DEF AscendsTo, Ascending
<1> QED
  BY <1>1, <1>6

LEMMA IoData ==
  ASSUME IInv, CheckRunning \/ Timeout \/ Error \/ Stop
  PROVE  DataKept
<1> USE DEF IInv
<1>1. CASE CheckRunning
  <2>1. /\ io = "check" /\ io' \in {"transfer", "exited"} /\ xfer' = << >>
        /\ UNCHANGED <<connected, running, handle, main, looping, sent, ring,
                       got, errors, overflow, late, failed, plugged, unplugs>>
    BY <1>1 DEF CheckRunning, device
  <2>2. /\ xfer' \in Seq(1..MaxBytes) /\ Len(xfer') = 0
        /\ 0 <= Transfer /\ 0 < Transfer /\ 0 % MaxPacket = 0
    BY <2>1, UsbxchLibusbAssumption
  <2>3. TypeOK'
    BY <2>1, <2>2 DEF TypeOK
  <2>4. inFlight' = inFlight
    BY <2>1 DEF inFlight
  <2>5. FullPackets'
    BY <2>2 DEF FullPackets
  <2> QED
    BY <2>1, <2>3, <2>4, <2>5, QuietData DEF DataKept
<1>2. CASE Stop
  <2>1. /\ io = "stop" /\ io' = "check" /\ running' = FALSE
        /\ UNCHANGED <<connected, handle, main, looping, xfer, sent, ring,
                       got, errors, overflow, late, failed, plugged, unplugs>>
    BY <1>2 DEF Stop, device, data
  <2>2. TypeOK'
    BY <2>1 DEF TypeOK
  <2>3. inFlight' = inFlight
    BY <2>1 DEF inFlight
  <2>4. FullPackets'
    BY <2>1 DEF FullPackets
  <2> QED
    BY <2>1, <2>2, <2>3, <2>4, QuietData DEF DataKept
<1>3. CASE Timeout
  <2>1. /\ io = "transfer" /\ io' = "check" /\ late' = late + Len(xfer)
        /\ UNCHANGED <<connected, running, handle, main, looping, xfer, sent,
                       ring, got, errors, overflow, failed, plugged, unplugs>>
    BY <1>3 DEF Timeout, device
  <2>2. /\ late \in Nat /\ overflow \in Nat /\ failed \in Nat
        /\ Len(xfer) \in Nat
    BY SeqFacts DEF TypeOK
  <2>3. TypeOK'
    BY <2>1, <2>2 DEF TypeOK
  <2>4. OrderKept' /\ inFlight' = << >>
    BY <2>1, DroppedData
  <2>5. Len(inFlight) = Len(xfer) /\ Len(inFlight') = 0
    BY <2>1, <2>4 DEF inFlight
  <2>6. /\ Len(got) \in Nat /\ Len(ring) \in Nat
        /\ Len(got') = Len(got) /\ Len(ring') = Len(ring)
    BY <2>1, SeqFacts
  <2>7. LostIsReported'
    BY <2>1, <2>2, <2>5, <2>6 DEF LostIsReported
  <2>8. FullPackets'
    BY <2>1 DEF FullPackets
  <2> QED
    BY <2>3, <2>4, <2>7, <2>8 DEF DataKept
<1>4. CASE Error
  <2>1. /\ io = "transfer" /\ io' = "stop" /\ failed' = failed + Len(xfer)
        /\ connected' = FALSE
        /\ UNCHANGED <<running, handle, main, looping, xfer, sent, ring, got,
                       overflow, late, plugged, unplugs>>
    BY <1>4 DEF Error, TransferFails, device
  <2>2. errors' \in 0..MaxErrors
    <3>1. errors \in 0..MaxErrors /\ MaxErrors \in Nat
      BY UsbxchLibusbAssumption DEF TypeOK
    <3>2. errors' = errors \/ (errors < MaxErrors /\ errors' = errors + 1)
      BY <1>4 DEF Error, TransferFails
    <3> QED
      BY <3>1, <3>2
  <2>3. /\ late \in Nat /\ overflow \in Nat /\ failed \in Nat
        /\ Len(xfer) \in Nat
    BY SeqFacts DEF TypeOK
  <2>4. TypeOK'
    <3>1. failed' \in Nat
      BY <2>1, <2>3
    <3>2. io' \in {"none", "check", "transfer", "push", "stop", "exited",
                   "terminate"}
      BY <2>1
    <3> QED
      BY <2>1, <2>2, <3>1, <3>2, Zenon DEF TypeOK
  <2>5. OrderKept' /\ inFlight' = << >>
    BY <2>1, DroppedData
  <2>6. Len(inFlight) = Len(xfer) /\ Len(inFlight') = 0
    BY <2>1, <2>5 DEF inFlight
  <2>7. /\ Len(got) \in Nat /\ Len(ring) \in Nat
        /\ Len(got') = Len(got) /\ Len(ring') = Len(ring)
    BY <2>1, SeqFacts
  <2>8. LostIsReported'
    BY <2>1, <2>3, <2>6, <2>7 DEF LostIsReported
  <2>9. FullPackets'
    BY <2>1 DEF FullPackets
  <2> QED
    BY <2>4, <2>5, <2>8, <2>9 DEF DataKept
<1> QED
  BY <1>1, <1>2, <1>3, <1>4

(* The main loop takes bytes out of the ring. *)
LEMMA ReadData ==
  ASSUME IInv, Read
  PROVE  DataKept
<1> DEFINE n == Upto(Len(ring), ReadMax)
           a == SubSeq(ring, 1, n)
           b == SubSeq(ring, n + 1, Len(ring))
<1>1. /\ got' = got \o a /\ ring' = b
      /\ UNCHANGED <<connected, running, handle, main, looping, io, xfer, sent,
                     errors, overflow, late, failed, plugged, unplugs>>
  BY DEF Read, thread, device
<1>2. TypeOK /\ got \in Seq(1..MaxBytes) /\ ring \in Seq(1..MaxBytes)
  BY DEF IInv, TypeOK
<1>3. n \in 0 .. Len(ring)
  BY <1>2, SeqFacts, UsbxchLibusbAssumption DEF Upto
<1> HIDE DEF n
<1>4. /\ a \in Seq(1..MaxBytes) /\ b \in Seq(1..MaxBytes)
      /\ Len(a) = n /\ Len(b) = Len(ring) - n /\ a \o b = ring
  BY <1>2, <1>3, SplitRing, Zenon
<1> HIDE DEF a, b
<1>5. got' \in Seq(1..MaxBytes) /\ Len(got') = Len(got) + n
  BY <1>1, <1>2, <1>4, ConcatProperties, Zenon
<1>6. ring' \in Seq(1..MaxBytes) /\ Len(ring') = Len(ring) - n
  BY <1>1, <1>4
<1>7. Len(ring') <= RingSize
  BY <1>2, <1>3, <1>6, UsbxchLibusbAssumption DEF TypeOK
<1>8. TypeOK'
  <2>1. UNCHANGED <<connected, running, handle, main, looping, io, xfer>>
    BY <1>1, Zenon
  <2>2. UNCHANGED <<sent, errors, overflow, late, failed, plugged, unplugs>>
    BY <1>1, Zenon
  <2> QED
    BY <1>2, <1>5, <1>6, <1>7, <2>1, <2>2 DEF TypeOK
<1>9. inFlight' = inFlight
  BY <1>1 DEF inFlight
<1>10. LostIsReported'
  BY <1>1, <1>2, <1>3, <1>5, <1>6, <1>9, SeqFacts DEF LostIsReported, IInv
<1>11. known' = known
  <2>1. (got \o a) \o b = got \o (a \o b)
    <3>1. got \in Seq(Int) /\ a \in Seq(Int) /\ b \in Seq(Int)
      BY <1>2, <1>4, OfInts, Zenon
    <3> QED
      BY <3>1, Regrouped
  <2>2. got' \o ring' = got \o ring
    BY <1>1, <1>4, <2>1, Zenon
  <2> QED
    BY <1>9, <2>2, Zenon DEF known
<1>12. OrderKept'
  <2>1. OrderKept' <=> AscendsTo(known', sent')
    BY DEF OrderKept, AscendsTo, known, Ascending
  <2>2. AscendsTo(known, sent)
    BY OrderIsNewest DEF IInv
  <2> QED
    BY <1>1, <1>11, <2>1, <2>2, Zenon
<1>13. FullPackets'
  BY <1>1 DEF FullPackets, IInv
<1> QED
  BY <1>8, <1>10, <1>12, <1>13 DEF DataKept

(* The I/O thread puts what fits into the ring. *)
LEMMA PushData ==
  ASSUME IInv, Push
  PROVE  DataKept
<1> DEFINE n == Upto(Len(xfer), RingSize - Len(ring))
           a == SubSeq(xfer, 1, n)
           b == SubSeq(xfer, n + 1, Len(xfer))
<1>1. /\ io = "push" /\ io' = "check" /\ ring' = ring \o a
      /\ overflow' = overflow + Len(xfer) - n
      /\ UNCHANGED <<connected, running, handle, main, looping, xfer, sent, got,
                     errors, late, failed, plugged, unplugs>>
  BY DEF Push, device
<1>2. /\ TypeOK /\ ring \in Seq(1..MaxBytes) /\ xfer \in Seq(1..MaxBytes)
      /\ Len(ring) <= RingSize /\ RingSize \in Nat
      /\ overflow \in Nat /\ late \in Nat /\ failed \in Nat
  BY UsbxchLibusbAssumption DEF IInv, TypeOK
<1>3. /\ Len(ring) \in Nat /\ Len(xfer) \in Nat /\ Len(got) \in Nat
      /\ got \in Seq(Int) /\ ring \in Seq(Int) /\ got \o ring \in Seq(Int)
      /\ sent \in Int
  BY <1>2, SeqFacts
<1>4. n \in 0 .. Len(xfer) /\ Len(ring) + n <= RingSize
  BY <1>2, <1>3 DEF Upto
<1> HIDE DEF n
<1>5. /\ a \in Seq(1..MaxBytes) /\ b \in Seq(1..MaxBytes)
      /\ Len(a) = n /\ a \o b = xfer
  BY <1>2, <1>4, SplitRing, Zenon
<1> HIDE DEF a, b
<1>6. ring' \in Seq(1..MaxBytes) /\ Len(ring') = Len(ring) + n
  BY <1>1, <1>2, <1>5, ConcatProperties, Zenon
<1>7. overflow' \in Nat /\ Len(ring') <= RingSize
  BY <1>1, <1>2, <1>3, <1>4, <1>6
<1>8. TypeOK'
  <2>1. io' \in {"none", "check", "transfer", "push", "stop", "exited",
                 "terminate"}
    BY <1>1
  <2> QED
    BY <1>1, <1>2, <1>6, <1>7, <2>1, Zenon DEF TypeOK
<1>9. inFlight = xfer /\ inFlight' = << >>
  BY <1>1 DEF inFlight
<1>10. LostIsReported'
  <2>1. Len(inFlight) = Len(xfer) /\ Len(inFlight') = 0
    BY <1>9
  <2> QED
    BY <1>1, <1>2, <1>3, <1>4, <1>6, <2>1 DEF LostIsReported, IInv
<1>11. OrderKept'
  <2>1. a \in Seq(Int) /\ b \in Seq(Int) /\ ring \o a \in Seq(Int)
        /\ got \o (ring \o a) \in Seq(Int)
    BY <1>3, <1>5, OfInts, ConcatProperties, Zenon
  <2>2. known = (got \o ring) \o (a \o b)
    BY <1>5, <1>9, Zenon DEF known
  <2>3. (got \o ring) \o (a \o b) = (got \o (ring \o a)) \o b
    <3>1. (got \o ring) \o (a \o b) = ((got \o ring) \o a) \o b
      <4>1. /\ got \o ring \in Seq(Int) /\ a \in Seq(Int)
            /\ b \in Seq(Int)
        BY <1>3, <2>1, Zenon
      <4> QED
        BY <4>1, Regrouped
    <3>2. got \in Seq(Int) /\ ring \in Seq(Int) /\ a \in Seq(Int)
      BY <1>3, <2>1
    <3>3. (got \o ring) \o a = got \o (ring \o a)
      BY <3>2, Regrouped
    <3> QED
      BY <3>1, <3>3, Zenon
  <2>4. AscendsTo(known, sent)
    BY OrderIsNewest DEF IInv
  <2>5. AscendsTo((got \o (ring \o a)) \o b, sent)
    BY <2>2, <2>3, <2>4, Zenon
  <2>6. AscendsTo(got \o (ring \o a), sent)
    BY <1>3, <2>1, <2>5, PrefixAscends, Zenon
  <2>7. known' = got \o (ring \o a)
    <3>1. known' = (got \o (ring \o a)) \o << >>
      BY <1>1, <1>9, Zenon DEF known
    <3> QED
      BY <2>1, <3>1
  <2>8. OrderKept' <=> AscendsTo(known', sent')
    BY DEF OrderKept, AscendsTo, known, Ascending
  <2> QED
    BY <1>1, <2>6, <2>7, <2>8, Zenon
<1>12. FullPackets'
  BY <1>1 DEF FullPackets
<1> QED
  BY <1>8, <1>10, <1>11, <1>12 DEF DataKept

(* A packet arrives. *)
LEMMA PacketData ==
  ASSUME IInv, NEW n \in 1 .. MaxPacket, Packet(n)
  PROVE  DataKept
<1> DEFINE new == [k \in 1..n |-> sent + k]
<1>1. /\ io = "transfer" /\ io' \in {"transfer", "push"}
      /\ sent + n <= MaxBytes /\ xfer' = xfer \o new /\ sent' = sent + n
      /\ io' = IF n < MaxPacket \/ Len(xfer') = Transfer THEN "push" ELSE io
      /\ UNCHANGED <<connected, running, handle, main, looping, ring, got,
                     errors, overflow, late, failed, plugged, unplugs>>
  BY DEF Packet
<1>2. /\ TypeOK /\ xfer \in Seq(1..MaxBytes) /\ Len(xfer) < Transfer
      /\ Len(xfer) % MaxPacket = 0
  BY <1>1 DEF IInv, TypeOK, FullPackets
<1>3. /\ n \in Nat /\ n <= MaxPacket /\ MaxPacket \in Nat \ {0}
      /\ Transfer \in Nat /\ Transfer % MaxPacket = 0 /\ MaxBytes \in Nat
      /\ sent \in Nat /\ sent \in Int /\ Len(xfer) \in Nat
      /\ got \o ring \in Seq(Int) /\ xfer \in Seq(Int)
      /\ Len(got) \in Nat /\ Len(ring) \in Nat /\ known \in Seq(Int)
  BY <1>2, SeqFacts, UsbxchLibusbAssumption
<1>4. new \in Seq(1..MaxBytes) /\ new \in Seq(Int) /\ Len(new) = n
  <2>1. \A k \in 1..n : sent + k \in 1..MaxBytes
    BY <1>1, <1>3
  <2> QED
    BY <1>3, <2>1
<1> HIDE DEF new
<1>5. xfer' \in Seq(1..MaxBytes) /\ Len(xfer') = Len(xfer) + n
  BY <1>1, <1>2, <1>4, ConcatProperties, Zenon
<1>6. /\ Len(xfer) + MaxPacket <= Transfer
      /\ (Len(xfer) + MaxPacket) % MaxPacket = 0
  BY <1>2, <1>3, RoomForPacket
<1>7. Len(xfer') <= Transfer
  BY <1>3, <1>5, <1>6
<1>8. sent' \in 0..MaxBytes
  BY <1>1, <1>3
<1>9. TypeOK'
  <2>1. io' \in {"none", "check", "transfer", "push", "stop", "exited",
                 "terminate"}
    BY <1>1
  <2> QED
    BY <1>1, <1>2, <1>5, <1>7, <1>8, <2>1, Zenon DEF TypeOK
<1>10. inFlight = xfer /\ inFlight' = xfer \o new
  BY <1>1 DEF inFlight
<1>11. LostIsReported'
  <2>1. Len(inFlight') = Len(inFlight) + n /\ Len(inFlight) \in Nat
    BY <1>1, <1>3, <1>5, <1>10
  <2>2. overflow \in Nat /\ late \in Nat /\ failed \in Nat
    BY <1>2 DEF TypeOK
  <2> QED
    BY <1>1, <1>3, <2>1, <2>2 DEF LostIsReported, IInv
<1>12. FullPackets'
  <2> SUFFICES ASSUME io' = "transfer"
               PROVE  Len(xfer') % MaxPacket = 0 /\ Len(xfer') < Transfer
    BY DEF FullPackets
  <2>1. n = MaxPacket /\ Len(xfer') # Transfer
    BY <1>1, <1>3
  <2>2. Len(xfer') = Len(xfer) + MaxPacket
    BY <1>5, <2>1
  <2>3. Len(xfer') % MaxPacket = 0
    BY <1>6, <2>2, Zenon
  <2>4. Len(xfer') \in Nat
    BY <1>3, <2>2
  <2>5. Len(xfer') < Transfer
    BY <1>3, <1>7, <2>1, <2>4
  <2> QED
    BY <2>3, <2>5
<1>13. OrderKept'
  <2>1. AscendsTo(known, sent)
    BY OrderIsNewest DEF IInv
  <2>2. AscendsTo(known \o new, sent + n)
    BY <1>3, <2>1, AppendAscends DEF new
  <2>3. known' = known \o new
    <3>1. known = (got \o ring) \o xfer
      BY <1>10, Zenon DEF known
    <3>2. known' = (got \o ring) \o (xfer \o new)
      BY <1>1, <1>10, Zenon DEF known
    <3>3. (got \o ring) \o (xfer \o new) = ((got \o ring) \o xfer) \o new
      <4>1. /\ got \o ring \in Seq(Int) /\ xfer \in Seq(Int)
            /\ new \in Seq(Int)
        BY <1>3, <1>4, Zenon
      <4> DEFINE s == got \o ring
      <4> HIDE DEF s
      <4>2. (s \o xfer) \o new = s \o (xfer \o new)
        BY <4>1, Regrouped DEF s
      <4> QED
        BY <4>2, Zenon DEF s
    <3> QED
      BY <3>1, <3>2, <3>3, Zenon
  <2>4. OrderKept' <=> AscendsTo(known', sent')
    BY DEF OrderKept, AscendsTo, known, Ascending
  <2> QED
    BY <1>1, <2>2, <2>3, <2>4, Zenon
<1> QED
  BY <1>9, <1>11, <1>12, <1>13 DEF DataKept

-----------------------------------------------------------------------------
LEMMA InitInv == Init => IInv
<1> SUFFICES ASSUME Init PROVE IInv
  OBVIOUS
<1>1. /\ << >> \in Seq(1..MaxBytes) /\ Len(<< >>) = 0
      /\ 0 <= Transfer /\ 0 <= RingSize
      /\ 0 \in 0..MaxUnplugs /\ 0 \in 0..MaxBytes /\ 0 \in 0..MaxErrors
  BY UsbxchLibusbAssumption
<1>2. TypeOK
  BY <1>1 DEF Init, TypeOK
<1>3. ThreadIsSound /\ ConnectedIsServed /\ MainAlone /\ FlagsTell
        /\ FullPackets
  BY DEF Init, ThreadIsSound, ConnectedIsServed, MainAlone, Serving, FlagsTell,
         FullPackets
<1>4. inFlight = << >> /\ got = << >> /\ ring = << >>
  BY DEF Init, inFlight
<1>5. LostIsReported
  BY <1>1, <1>4 DEF Init, LostIsReported
<1>6. OrderKept
  <2>1. (got \o ring) \o inFlight = << >>
    BY <1>4
  <2> QED
    BY <2>1 DEF OrderKept, Ascending
<1> QED
  BY <1>2, <1>3, <1>5, <1>6 DEF IInv

LEMMA StepInv == IInv /\ [Next]_vars => IInv'
<1> SUFFICES ASSUME IInv, [Next]_vars PROVE IInv'
  OBVIOUS
<1>1. ASSUME ControlKept', DataKept PROVE IInv'
  BY <1>1, Zenon DEF ControlKept, DataKept, IInv
<1>2. CASE Reconnect \/ Disconnect \/ Join \/ OpenFails \/ Open \/ StartThread
  <2>1. DataKept
    BY <1>2, MainData
  <2>2. TypeOK'
    BY <2>1 DEF DataKept
  <2> QED
    BY <1>1, <1>2, <2>1, <2>2, MainControl
<1>3. CASE CheckRunning \/ Timeout \/ Error \/ Stop
  <2>1. DataKept
    BY <1>3, IoData
  <2>2. TypeOK'
    BY <2>1 DEF DataKept
  <2> QED
    BY <1>1, <1>3, <2>1, <2>2, IoControl
<1>4. CASE Push
  <2>1. DataKept
    BY <1>4, PushData
  <2>2. TypeOK'
    BY <2>1 DEF DataKept
  <2> QED
    BY <1>1, <1>4, <2>1, <2>2, IoControl
<1>5. CASE \E n \in 1 .. MaxPacket : Packet(n)
  <2>1. DataKept
    BY <1>5, PacketData
  <2>2. TypeOK'
    BY <2>1 DEF DataKept
  <2> QED
    BY <1>1, <1>5, <2>1, <2>2, IoControl
<1>6. CASE Unplug \/ Plug
  BY <1>1, <1>6, DeviceData, DeviceControl
<1>7. CASE Read
  BY <1>1, <1>7, ReadData, DeviceControl
<1>8. CASE UNCHANGED vars
  <2>1. /\ UNCHANGED <<connected, running, handle, main, looping, io, xfer>>
        /\ UNCHANGED <<ring, plugged, unplugs, sent, got, errors>>
        /\ UNCHANGED <<overflow, late, failed>>
    BY <1>8, Zenon DEF vars
  <2>2. TypeOK' /\ ThreadIsSound' /\ ConnectedIsServed' /\ Serving' = Serving
    <3>1. TypeOK'
      BY <2>1 DEF IInv, TypeOK
    <3>2. ThreadIsSound' /\ ConnectedIsServed' /\ Serving' = Serving
      BY <2>1, Zenon DEF IInv, ThreadIsSound, ConnectedIsServed, Serving
    <3> QED
      BY <3>1, <3>2
  <2>3. MainAlone' /\ FlagsTell' /\ FullPackets'
    BY <2>1, <2>2, Zenon DEF IInv, MainAlone, FlagsTell, FullPackets
  <2>4. inFlight' = inFlight
    BY <2>1, Zenon DEF inFlight
  <2>5. LostIsReported' /\ OrderKept'
    BY <2>1, <2>4, Zenon DEF IInv, LostIsReported, OrderKept, Ascending
  <2> QED
    BY <2>2, <2>3, <2>5, Zenon DEF IInv
<1> QED
  BY <1>2, <1>3, <1>4, <1>5, <1>6, <1>7, <1>8 DEF Next

(* The strengthened invariant holds for every size and number of bytes. *)
THEOREM Inductive == Spec => []IInv
<1>1. Init => IInv
  BY InitInv
<1>2. IInv /\ [Next]_vars => IInv'
  BY StepInv
<1> QED
  BY <1>1, <1>2, PTL DEF Spec

(* No thread is started over another, none uses a closed handle (connect,  *)
(* disconnect and ioLoop).                                                 *)
THEOREM ThreadsAreSound == Spec => []ThreadIsSound
<1>1. IInv => ThreadIsSound
  BY DEF IInv
<1> QED
  BY <1>1, Inductive, PTL

(* A connection the main loop believes in has a running thread, although   *)
(* ioLoop clears the two flags one after the other.                        *)
THEOREM ConnectionsAreServed == Spec => []ConnectedIsServed
<1>1. IInv => ConnectedIsServed
  BY DEF IInv
<1> QED
  BY <1>1, Inductive, PTL

(* Overflows, time-outs and reconnections lose bytes but repeat or reorder *)
(* none (RingBuffer::push and pop, ioLoop).                                *)
THEOREM NothingIsEverRepeated == Spec => []NothingRepeated
<1>1. IInv => NothingRepeated
  BY NothingIsRepeated DEF IInv
<1> QED
  BY <1>1, Inductive, PTL

(* Whatever happens to the device, a byte that is not read is counted as   *)
(* an overflow, fell to a transfer that failed, or to a time-out.          *)
THEOREM LossesAreReported == Spec => []LostIsReported
<1>1. IInv => LostIsReported
  BY DEF IInv
<1> QED
  BY <1>1, Inductive, PTL

-----------------------------------------------------------------------------
(* Part 2: the compression. *)

LEMMA Smallest ==
  ASSUME NEW S \in SUBSET Nat, S # {}
  PROVE  \E m \in S : \A n \in S : m <= n
<1>1. \E m \in S : \A n \in S : ~ (<<n, m>> \in OpToRel(<, Nat))
  BY WFMin, NatLessThanWellFounded, Zenon
<1>2. PICK m \in S : \A n \in S : ~ (<<n, m>> \in OpToRel(<, Nat))
  BY <1>1
<1>3. ASSUME NEW n \in S PROVE m <= n
  <2>1. ~ (<<n, m>> \in OpToRel(<, Nat))
    BY <1>2, Zenon
  <2>2. n \in Nat /\ m \in Nat
    BY <1>2
  <2> QED BY <2>1, <2>2 DEF OpToRel
<1> QED BY <1>3

(* What the sizes must be like for it. *)
Still == [c \in Channel |-> 0]

(* There is a mark for every control code the stream has room for, and     *)
(* room in the block for every vector up to the next resynchronisation.    *)
ResyncSize == 5 + 4 * Channels
MarksSuffice == Capacity <= (MarkCapacity - 1) * ResyncSize
BlockSuffices == \A p \in SyncPeriods : p < BlockCapacity

-----------------------------------------------------------------------------
(* The inductive invariant. *)

Octet == 0 .. 255
ChannelStates == [Channel -> [sample : Int16Range, delta : Int16Range]]
Entries ==
  [kind : {"resync", "dod", "flush"}, bytes : Seq(Octet), at : Nat, n : Int,
   channel : Channel, block : Nat]
Readers ==
  [state : {"DOD", "Sample", "WORD"}, inSync : BOOLEAN, scratch : Seq(Octet),
   dods : Seq(Int), dod : ChannelStates, ready : BOOLEAN, counter : Nat,
   samples : Seq([Channel -> Int16Range])]

SampleBlocks == [counter : Nat, samples : Seq([Channel -> Int16Range])]

(* The marks lie one behind the other in a stream of a length. *)
MarksFit(places, len) ==
  /\ places \in Seq([at : Nat, size : Nat \ {0}])
  /\ \A k \in 1..Len(places) : places[k].at + places[k].size <= len
  /\ \A k, l \in 1..Len(places) : k < l => places[k].at + places[k].size <= places[l].at

(* The writer's side in itself: the stream never outgrows its ring. *)
RoomInv ==
  /\ writer \in [dod : ChannelStates, syncPeriod : SyncPeriods, tillSync : Nat,
                 backpressure : BOOLEAN]
  /\ stream \in Seq(Octet) /\ Len(stream) <= Capacity - 1
  /\ MarksFit(marks, Len(stream))
  /\ input \in Seq(Samples) /\ Len(input) <= MaxSamples

CodecTypes ==
  /\ chunk \in [type : {"none", "Control", "Sample"}, bytes : Seq(Octet)]
  /\ reader \in Readers
  /\ accepted \subseteq 0 .. Len(input) - 1
  /\ blocks \in Seq(SampleBlocks)
  /\ log \in Seq(Entries)
  /\ ended \in BOOLEAN

(* The vector with counter n among those fed, the ones before the first    *)
(* being 0, the state it leaves behind in the writer, and its residuals.   *)
Vector(fed, n) == IF n >= 0 THEN fed[n + 1] ELSE Still
DodBehind(fed, n) ==
  [c \in Channel |-> [sample |-> Vector(fed, n)[c],
                      delta  |-> Int16(Vector(fed, n)[c] - Vector(fed, n - 1)[c])]]
Residual(fed, n, c) == Int16(DodBehind(fed, n)[c].delta - DodBehind(fed, n - 1)[c].delta)

(* The two ends agree on the residuals that were sent.  The writer sends   *)
(* the magnitudes 120 to 127, and -128, as 240 and a second byte; the      *)
(* reader takes the 240 for a residual, and the other byte for the next.   *)
Misread == (-128 .. -120) \union (120 .. 127)
AgreedOn(codes, fed) ==
  \A j \in 1..Len(codes) :
    codes[j].kind = "dod" => Residual(fed, codes[j].n, codes[j].channel) \notin Misread
Agreed == AgreedOn(log, input)

(* The writer knows the last two vectors; it goes on with a block only if  *)
(* the last vector is in it, and leaves room for the rest of the period.   *)
WriterKnows ==
  /\ writer.dod = DodBehind(input, Len(input) - 1)
  /\ writer.backpressure => writer.tillSync = 0
  /\ writer.tillSync > 0 =>
       /\ log # <<>> /\ Newest.kind # "flush" /\ Newest.n = Len(input) - 1
       /\ Newest.n - Newest.block + writer.tillSync = writer.syncPeriod
  /\ log # <<>> => Newest.channel = Channels
  /\ log # <<>> /\ Newest.kind = "flush" => ended

(* Each entry holds the code of what it stands for; all of its block up to *)
(* it was taken.                                                           *)
EntryIs(e, fed, taken, period) ==
  /\ e.n \in -1 .. Len(fed) - 1
  /\ e.n >= 0 => /\ e.block \in 0 .. e.n
                 /\ e.n - e.block <= period
                 /\ e.block .. e.n \subseteq taken
  /\ e.kind = "resync" => /\ e.n = e.block /\ e.channel = Channels
                          /\ e.bytes = ResyncBytes(e.n, DodBehind(fed, e.n))
  /\ e.kind = "dod" => e.n > e.block /\ e.bytes = EncodeDod(Residual(fed, e.n, e.channel))
  /\ e.kind = "flush" => e.channel = Channels /\ e.bytes = <<254>>

Control(e) == e.kind # "dod"
EndOf(e) == e.at + Len(e.bytes)

(* Entries lie one behind the other; the residuals of a vector come in the *)
(* order of the channels behind the vector before it, and nothing comes    *)
(* behind a flush.                                                         *)
Consecutive(d, e) ==
  /\ e.at = EndOf(d)
  /\ d.kind # "flush"
  /\ Control(e) => d.channel = Channels
  /\ e.kind = "resync" => d.n < e.n
  /\ e.kind = "flush" => e.n = d.n /\ e.block = d.block
  /\ e.kind = "dod" =>
       /\ d.n >= 0 /\ e.block = d.block
       /\ e.channel = 1 => d.channel = Channels /\ d.n = e.n - 1
       /\ e.channel > 1 => d.channel = e.channel - 1 /\ d.n = e.n

LogIs(codes, fed, taken, period) ==
  /\ \A j \in 1..Len(codes) : EntryIs(codes[j], fed, taken, period)
  /\ codes # <<>> =>
       /\ codes[1].at = 0 /\ Control(codes[1])
       /\ codes[1].kind = "flush" => codes[1].n = -1
  /\ \A j \in 2..Len(codes) : Consecutive(codes[j - 1], codes[j])
  /\ \A j, k \in 1..Len(codes) : j < k => EndOf(codes[j]) <= codes[k].at

(* The places of the tail of the stream and of the next byte to decode. *)
TailAt == Pushed - Len(stream)
DoneAt == TailAt - Len(chunk.bytes)

(* The bytes are those of the codes from a place on.  No control code has  *)
(* the place within.                                                       *)
Shows(bytes, codes, place) ==
  \A j \in 1..Len(codes) : \A k \in 1..Len(codes[j].bytes) :
    codes[j].at + k \in place + 1 .. place + Len(bytes) =>
      bytes[(codes[j].at + k) - place] = codes[j].bytes[k]

Between(codes, place) ==
  \A j \in 1..Len(codes) :
    Control(codes[j]) => codes[j].at >= place \/ EndOf(codes[j]) <= place

StreamIs == TailAt \in Nat /\ Shows(stream, log, TailAt) /\ Between(log, TailAt)

(* The marks are those of the control codes in the stream, which has its   *)
(* tail at a place, and until the flush each one has bytes of its own.     *)
MarksStand(places, codes, tail) ==
  /\ \A k \in 1..Len(places) : \E j \in 1..Len(codes) :
       /\ Control(codes[j]) /\ codes[j].at = tail + places[k].at
       /\ places[k].size = Len(codes[j].bytes)
  /\ \A j \in 1..Len(codes) : Control(codes[j]) /\ codes[j].at >= tail =>
       \E k \in 1..Len(places) : codes[j].at = tail + places[k].at

MarksSpaced(places, len) ==
  \A k \in 1..Len(places) : (Len(places) - k + 1) * ResyncSize <= len - places[k].at

MarksAre ==
  /\ MarksStand(marks, log, TailAt)
  /\ ~ended => MarksSpaced(marks, Len(stream))

(* What readNext returned is one control code or a part of residuals.      *)
ChunkIs ==
  /\ DoneAt \in Nat
  /\ chunk.type = "none" => chunk = None
  /\ chunk.type = "Control" => \E j \in 1..Len(log) :
       Control(log[j]) /\ log[j].at = DoneAt /\ chunk.bytes = log[j].bytes
  /\ chunk.type = "Sample" =>
       /\ Shows(chunk.bytes, log, DoneAt)
       /\ \A j \in 1..Len(log) :
            Control(log[j]) => log[j].at < DoneAt \/ log[j].at >= TailAt

(* Behind the first j codes, the reader has this many vectors of the block *)
(* and residuals of the next one.                                          *)
LastWhole(e) == IF e.channel = Channels THEN e.n ELSE e.n - 1
Rebuilt(e, fed) == [m \in 1 .. LastWhole(e) - e.block + 1 |-> Vector(fed, e.block + m - 1)]
Pending(e, fed) ==
  [c \in 1 .. (IF e.channel = Channels THEN 0 ELSE e.channel) |-> Residual(fed, e.n, c)]

ReaderHas(r, codes, j, fed) ==
  /\ r \in Readers /\ ~r.ready
  /\ r.inSync <=> j > 0 /\ codes[j].n >= 0
  /\ ~r.inSync => r.dods = <<>>
  /\ r.inSync => /\ r.counter = codes[j].block
                 /\ r.samples = Rebuilt(codes[j], fed)
                 /\ r.dod = DodBehind(fed, LastWhole(codes[j]))
                 /\ r.dods = Pending(codes[j], fed)

(* Of the next code e, the reader has the first k bytes. *)
ReaderWithin(r, e, k) ==
  /\ ~Control(e) /\ k < Len(e.bytes)
  /\ r.state = "WORD"
  /\ r.scratch = IF Len(e.bytes) = 2 THEN <<e.bytes[1] - 240>>
                 ELSE IF k = 1 THEN <<>> ELSE <<e.bytes[2]>>

(* The place behind the first j codes. *)
Behind(codes, j) == IF j = 0 THEN 0 ELSE EndOf(codes[j])

ReaderAt(r, place, codes, fed) ==
  \E j \in 0..Len(codes), k \in 0..2 :
    /\ ReaderHas(r, codes, j, fed)
    /\ place = Behind(codes, j) + k
    /\ k = 0 => r.state = "DOD"
    /\ k > 0 => j < Len(codes) /\ ReaderWithin(r, codes[j + 1], k)

ReaderIs == ReaderAt(BlockBegun(reader), DoneAt, log, input)

(* The blocks handed out come before the one the reader fills, until the   *)
(* flush is decoded.                                                       *)
BlocksBefore ==
  \/ \E j \in 1..Len(log) : log[j].kind = "flush" /\ log[j].at < DoneAt
  \/ /\ ~BlockBegun(reader).inSync => blocks = <<>>
     /\ \A k \in 1..Len(blocks) :
          blocks[k].counter + Len(blocks[k].samples) <= BlockBegun(reader).counter

CodecInv ==
  /\ RoomInv
  /\ CodecTypes
  /\ WriterKnows
  /\ LogIs(log, input, accepted, writer.syncPeriod)
  /\ StreamIs
  /\ MarksAre
  /\ ChunkIs
  /\ ReaderIs
  /\ BlocksBefore
  /\ BlocksAreTrue
  /\ BlocksInOrder

-----------------------------------------------------------------------------
(* Numbers and bytes. *)

LEMMA DivisionOf ==
  ASSUME NEW x \in Int, NEW n \in Nat \ {0}
  PROVE  /\ x \div n \in Int /\ x % n \in Int /\ 0 <= x % n /\ x % n < n
         /\ x = n * (x \div n) + (x % n)
OBVIOUS

LEMMA HalfIs == Half \in Nat \ {0} /\ Half = 256 * 128
BY DEF Half

LEMMA Int16RangeIs ==
  ASSUME NEW x
  PROVE  x \in Int16Range <=> x \in Int /\ -Half <= x /\ x < Half
<1>1. Half \in Int
  BY HalfIs
<1> QED BY <1>1 DEF Int16Range

(* Equal modulo 2^16. *)
SameWord(x, y) == \E q \in Int : x = y + 2 * Half * q

LEMMA SameWordIs ==
  ASSUME NEW x \in Int, NEW y \in Int, NEW z \in Int, SameWord(x, y)
  PROVE  /\ SameWord(y, z) => SameWord(x, z)
         /\ x \in Int16Range /\ y \in Int16Range => x = y
         /\ 0 <= x /\ x < 2 * Half /\ 0 <= y /\ y < 2 * Half => x = y
<1>1. PICK q \in Int : x = y + 2 * Half * q
  BY DEF SameWord
<1>2. ASSUME SameWord(y, z) PROVE SameWord(x, z)
  <2>1. PICK p \in Int : y = z + 2 * Half * p
    BY <1>2 DEF SameWord
  <2>2. p + q \in Int /\ x = z + 2 * Half * (p + q)
    BY <1>1, <2>1 DEF Half
  <2> QED BY <2>2 DEF SameWord
<1>3. x \in Int16Range /\ y \in Int16Range => x = y
  BY <1>1, Int16RangeIs DEF Half
<1>4. 0 <= x /\ x < 2 * Half /\ 0 <= y /\ y < 2 * Half => x = y
  BY <1>1 DEF Half
<1> QED BY <1>2, <1>3, <1>4

LEMMA Int16Is ==
  ASSUME NEW x \in Int
  PROVE  Int16(x) \in Int16Range /\ Int16(x) \in Int /\ SameWord(Int16(x), x)
<1> DEFINE y == x + Half  m == 2 * Half  d == y \div m  r == y % m
<1>1. y \in Int /\ m \in Nat \ {0} /\ m = 2 * Half /\ y = x + Half
  BY HalfIs
<1>3. Int16(x) = r - Half
  BY DEF Int16
<1>2. d \in Int /\ r \in Int /\ 0 <= r /\ r < m /\ y = m * d + r
  <2> HIDE DEF y, m
  <2> QED BY <1>1, DivisionOf, Zenon
<1> HIDE DEF d, r, y, m
<1>4. 0 - d \in Int /\ Int16(x) = x + 2 * Half * (0 - d)
  BY <1>1, <1>2, <1>3 DEF Half
<1>5. Int16(x) \in Int16Range /\ Int16(x) \in Int
  BY <1>1, <1>2, <1>3, HalfIs, Int16RangeIs
<1> QED BY <1>4, <1>5 DEF SameWord

(* A difference modulo 2^16 leads back to the number. *)
LEMMA Int16Back ==
  ASSUME NEW x \in Int16Range, NEW y \in Int16Range
  PROVE  Int16(Int16(x - y) + y) = x
<1>1. x \in Int /\ y \in Int /\ x - y \in Int
  BY Int16RangeIs
<1> DEFINE d == Int16(x - y)  z == d + y
<1>2. d \in Int /\ SameWord(d, x - y)
  BY <1>1, Int16Is
<1> HIDE DEF d
<1>3. PICK q \in Int : d = x - y + 2 * Half * q
  BY <1>2 DEF SameWord
<1>4. z \in Int /\ SameWord(z, x)
  <2>1. z \in Int /\ z = x + 2 * Half * q
    BY <1>1, <1>2, <1>3, HalfIs
  <2> QED BY <2>1 DEF SameWord
<1> HIDE DEF z
<1>5. Int16(z) \in Int16Range /\ Int16(z) \in Int /\ SameWord(Int16(z), z)
  BY <1>4, Int16Is
<1>6. SameWord(Int16(z), x)
  BY <1>1, <1>4, <1>5, SameWordIs
<1>7. Int16(z) = x
  BY <1>1, <1>5, <1>6, SameWordIs
<1> QED BY <1>7 DEF z, d

LEMMA WordIs ==
  ASSUME NEW x \in Int
  PROVE  /\ Word(x) \in Seq(Octet) /\ Len(Word(x)) = 2
         /\ Word(x)[1] \in Octet /\ Word(x)[2] \in Octet
         /\ LET z == 256 * Word(x)[1] + Word(x)[2]
            IN  z \in Int /\ 0 <= z /\ z < 2 * Half /\ SameWord(z, x)
<1> DEFINE m == 256  d == x \div m  r == x % m  e == d \div m  s == d % m
<1>m. m \in Nat \ {0} /\ m = 256
  OBVIOUS
<1>2. Word(x) = <<s, r>>
  BY DEF Word
<1> HIDE DEF m
<1>1. d \in Int /\ r \in Int /\ 0 <= r /\ r < m /\ x = m * d + r
  BY <1>m, DivisionOf
<1> HIDE DEF d, r
<1>3. e \in Int /\ s \in Int /\ 0 <= s /\ s < m /\ d = m * e + s
  BY <1>1, <1>m, DivisionOf
<1> HIDE DEF e, s
<1>4. 0 - e \in Int /\ 256 * s + r = x + 2 * Half * (0 - e)
  BY <1>1, <1>3, <1>m DEF Half
<1>5. s \in Octet /\ r \in Octet
  BY <1>1, <1>3, <1>m DEF Octet
<1>6. Word(x) \in Seq(Octet) /\ Len(Word(x)) = 2 /\ Word(x)[1] = s /\ Word(x)[2] = r
  BY <1>2, <1>5
<1>7. SameWord(256 * s + r, x)
  BY <1>4 DEF SameWord
<1>8. 256 * s + r \in Int /\ 0 <= 256 * s + r /\ 256 * s + r < 2 * Half
  BY <1>1, <1>3, <1>m DEF Half
<1> QED BY <1>5, <1>6, <1>7, <1>8

(* The bytes of a number lead back to it. *)
LEMMA WordBack ==
  ASSUME NEW x \in Int
  PROVE  /\ x \in Int16Range => Int16(256 * Word(x)[1] + Word(x)[2]) = x
         /\ 0 <= x /\ x < 2 * Half => 256 * Word(x)[1] + Word(x)[2] = x
<1> DEFINE z == 256 * Word(x)[1] + Word(x)[2]
<1>2. z \in Int /\ 0 <= z /\ z < 2 * Half /\ SameWord(z, x)
  BY WordIs
<1> HIDE DEF z
<1>5. Int16(z) \in Int16Range /\ Int16(z) \in Int /\ SameWord(Int16(z), z)
  BY <1>2, Int16Is
<1>3. ASSUME x \in Int16Range PROVE Int16(z) = x
  <2>1. SameWord(Int16(z), x)
    BY <1>2, <1>5, SameWordIs
  <2> QED BY <2>1, <1>5, <1>3, SameWordIs
<1>4. ASSUME 0 <= x, x < 2 * Half PROVE z = x
  BY <1>2, <1>4, SameWordIs
<1> QED BY <1>3, <1>4 DEF z

(* The code of a residual has at most three bytes; the reader makes the    *)
(* residual of it, unless it is one of the misread ones.                   *)
LEMMA EncodeDodIs ==
  ASSUME NEW d \in Int16Range
  PROVE  LET b == EncodeDod(d)
         IN  /\ b \in Seq(Octet) /\ Len(b) \in 1..3
             /\ d \notin Misread =>
                  \/ Len(b) = 1 /\ b[1] \in 0..240 /\ Unzigzag(b[1]) = d
                  \/ /\ Len(b) = 2 /\ b[1] \in 241..247
                     /\ Unzigzag(256 * (b[1] - 240) + b[2]) = d
                  \/ Len(b) = 3 /\ b[1] = 254 /\ Unzigzag(256 * b[2] + b[3]) = d
<1> DEFINE zz == IF d < 0 THEN -2 * d - 1 ELSE 2 * d
           high == zz \div 256
           low == zz % 256
           b == EncodeDod(d)
<1> SUFFICES
      /\ b \in Seq(Octet) /\ Len(b) \in 1..3
      /\ d \notin Misread =>
           \/ Len(b) = 1 /\ b[1] \in 0..240 /\ Unzigzag(b[1]) = d
           \/ /\ Len(b) = 2 /\ b[1] \in 241..247
              /\ Unzigzag(256 * (b[1] - 240) + b[2]) = d
           \/ Len(b) = 3 /\ b[1] = 254 /\ Unzigzag(256 * b[2] + b[3]) = d
  BY Zenon
<1>1. zz \in Nat /\ zz < 2 * Half /\ d \in Int /\ (d < 0 => zz = -2 * d - 1) /\ (d >= 0 => zz = 2 * d)
  <2>1. d \in Int /\ -Half <= d /\ d < Half
    BY Int16RangeIs
  <2>2. d < 0 => zz = -2 * d - 1
    OBVIOUS
  <2>3. d >= 0 => zz = 2 * d
    BY <2>1
  <2> HIDE DEF zz
  <2> QED BY <2>1, <2>2, <2>3, HalfIs
<1>2. b = IF d \in -119 .. 119 THEN <<zz>>
          ELSE IF high < 8 THEN <<240 + high, low>> ELSE <<254, high, low>>
  BY DEF EncodeDod
<1> HIDE DEF zz
<1>3. zz = 256 * high + low /\ low \in 0..255 /\ high \in Int
  <2>1. zz \in Int /\ 256 \in Nat \ {0}
    BY <1>1
  <2>2. /\ high \in Int /\ low \in Int /\ 0 <= low /\ low < 256
        /\ zz = 256 * high + low
    BY <2>1, DivisionOf
  <2> QED BY <2>1, <2>2
<1> HIDE DEF high, low, b
<1>4. high \in 0..255
  BY <1>1, <1>3, HalfIs
<1>5. Unzigzag(zz) = d
  <2> DEFINE h == zz \div 2  m == zz % 2
  <2>1. h \in Int /\ m \in 0..1 /\ zz = 2 * h + m
    <3>1. zz \in Int /\ 2 \in Nat \ {0}
      BY <1>1
    <3>2. /\ h \in Int /\ m \in Int /\ 0 <= m /\ m < 2
          /\ zz = 2 * h + m
      BY <3>1, DivisionOf
    <3> QED BY <3>1, <3>2
  <2>2. Unzigzag(zz) = IF m = 1 THEN -h - 1 ELSE h
    BY DEF Unzigzag
  <2> HIDE DEF h, m
  <2>3. zz \in Nat /\ d \in Int /\ (d < 0 => zz = -2 * d - 1) /\ (d >= 0 => zz = 2 * d)
    BY <1>1
  <2>4. d < 0 \/ d >= 0
    BY <2>3
  <2>5. CASE d < 0
    <3>1. m = 1 /\ h = -d - 1
      BY <2>5, <2>1, <2>3
    <3> QED BY <3>1, <2>2, <2>3
  <2>6. CASE d >= 0
    <3>1. m = 0 /\ h = d
      BY <2>6, <2>1, <2>3
    <3> QED BY <3>1, <2>2, <2>3
  <2> QED BY <2>4, <2>5, <2>6
<1>6. CASE d \in -119 .. 119
  <2>1. b = <<zz>> /\ zz \in 0..240
    BY <1>6, <1>1, <1>2
  <2>2. b \in Seq(Octet) /\ Len(b) = 1 /\ b[1] = zz
    BY <2>1 DEF Octet
  <2> QED BY <2>1, <2>2, <1>5
<1>7. CASE d \notin -119 .. 119 /\ high < 8
  <2>1. b = <<240 + high, low>> /\ b \in Seq(Octet)
    BY <1>7, <1>2, <1>3, <1>4 DEF Octet
  <2>2. Len(b) = 2 /\ b[1] = 240 + high /\ b[2] = low
    BY <2>1
  <2>3. d \notin Misread => high >= 1
    BY <1>7, <1>1, <1>3, <1>4 DEF Misread
  <2>4. 256 * (b[1] - 240) + b[2] = zz
    BY <2>2, <1>3, <1>4
  <2>5. Unzigzag(256 * (b[1] - 240) + b[2]) = d
    BY <2>4, <1>5
  <2>6. d \notin Misread => b[1] \in 241..247
    BY <2>2, <2>3, <1>4, <1>7
  <2> QED BY <2>1, <2>2, <2>5, <2>6
<1>8. CASE d \notin -119 .. 119 /\ ~ (high < 8)
  <2>1. b = <<254, high, low>> /\ b \in Seq(Octet)
    BY <1>8, <1>2, <1>3, <1>4 DEF Octet
  <2>2. Len(b) = 3 /\ b[1] = 254 /\ b[2] = high /\ b[3] = low
    BY <2>1
  <2>3. 256 * b[2] + b[3] = zz
    BY <2>2, <1>3
  <2>4. Unzigzag(256 * b[2] + b[3]) = d
    BY <2>3, <1>5
  <2> QED BY <2>1, <2>2, <2>4
<1> QED BY <1>6, <1>7, <1>8

Glued(r, s, t) ==
  /\ Len(r) = Len(s) + Len(t)
  /\ \A k \in 1..Len(s) : r[k] = s[k]
  /\ \A k \in 1..Len(t) : r[Len(s) + k] = t[k]

LEMMA Concatenated ==
  ASSUME NEW S, NEW s \in Seq(S), NEW t \in Seq(S)
  PROVE  s \o t \in Seq(S) /\ Glued(s \o t, s, t)
<1> DEFINE n == Len(s)  m == Len(t)  r == s \o t
<1>1. /\ r \in Seq(S) /\ Len(r) = n + m
      /\ \A k \in 1 .. n + m : r[k] = IF k <= n THEN s[k] ELSE t[k - n]
  BY ConcatProperties
<1>2. n \in Nat /\ m \in Nat
  OBVIOUS
<1> HIDE DEF n, m, r
<1>3. ASSUME NEW k \in 1..n PROVE r[k] = s[k]
  <2>1. k \in 1 .. n + m /\ k <= n
    BY <1>2, <1>3
  <2> QED BY <2>1, <1>1
<1>4. ASSUME NEW k \in 1..m PROVE r[n + k] = t[k]
  <2>1. n + k \in 1 .. n + m /\ ~ (n + k <= n) /\ (n + k) - n = k
    BY <1>2, <1>4
  <2> QED BY <2>1, <1>1
<1>5. Glued(r, s, t)
  BY <1>1, <1>3, <1>4, Zenon DEF Glued, n, m
<1> QED BY <1>1, <1>5, Zenon DEF r

(* Byte m of channel c among the four bytes of each channel. *)
LEMMA FourEach ==
  ASSUME NEW c \in Nat, NEW m \in 1..4
  PROVE  LET k == 4 * (c - 1) + m
         IN  ((k - 1) \div 4) + 1 = c /\ ((k - 1) % 4) + 1 = m
<1> DEFINE x == (4 * (c - 1) + m) - 1  q == x \div 4  r == x % 4
<1>1. x \in Int /\ 4 \in Nat \ {0} /\ x = 4 * (c - 1) + (m - 1)
  OBVIOUS
<1>2. q \in Int /\ r \in Int /\ 0 <= r /\ r < 4 /\ x = 4 * q + r
  <2> HIDE DEF x
  <2> QED BY <1>1, DivisionOf
<1> HIDE DEF q, r, x
<1>3. q + 1 = c /\ r + 1 = m
  BY <1>1, <1>2
<1> QED BY <1>3 DEF q, r, x

LEMMA FourOf ==
  ASSUME NEW n \in Nat, NEW k \in 1 .. 4 * n
  PROVE  /\ ((k - 1) \div 4) + 1 \in 1..n
         /\ ((k - 1) % 4) + 1 \in 1..4
<1> DEFINE x == k - 1  q == x \div 4  r == x % 4
<1>1. x \in Int /\ 4 \in Nat \ {0} /\ 0 <= x /\ x < 4 * n
  OBVIOUS
<1>2. q \in Int /\ r \in Int /\ 0 <= r /\ r < 4 /\ x = 4 * q + r
  <2> HIDE DEF x
  <2> QED BY <1>1, DivisionOf
<1> HIDE DEF q, r, x
<1>3. q + 1 \in 1..n /\ r + 1 \in 1..4
  BY <1>1, <1>2
<1> QED BY <1>3 DEF q, r, x

LEMMA ChannelsAre ==
  /\ Channels \in Nat /\ 1 <= Channels /\ Channels <= 14
  /\ ResyncSize \in Nat /\ ResyncSize = 5 + 4 * Channels
  /\ Reserve = 16 * Channels
<1>1. Channels \in Nat /\ 1 <= Channels /\ Channels <= 14
  BY DaqCodecAssumption
<1> DEFINE x == 16 * Channels
<1>2. x \in Int /\ 256 \in Nat \ {0} /\ 0 <= x /\ x < 256
  BY <1>1
<1>3. Reserve = x % 256
  BY DEF Reserve
<1> HIDE DEF x
<1>4. Reserve = x
  BY <1>2, <1>3, DivisionOf
<1> QED BY <1>1, <1>4 DEF ResyncSize, x

(* The reader finds in the control bytes what the writer put there.        *)
LEMMA ResyncBytesAre ==
  ASSUME NEW n \in Nat, n < 2 * Half, NEW dod \in ChannelStates
  PROVE  LET b == ResyncBytes(n, dod)
             s == Tail(b)
         IN  /\ b \in Seq(Octet) /\ Len(b) = ResyncSize /\ b[1] = 255
             /\ s \in Seq(Octet)
             /\ 2 * Half * WordAt(s, 1) + WordAt(s, 3) = n
             /\ \A c \in Channel :
                  /\ Int16(WordAt(s, 4 * c + 1)) = dod[c].sample
                  /\ Int16(WordAt(s, 4 * c + 3)) = dod[c].delta
<1> DEFINE h  == n \div (2 * Half)
           u  == Word(h)
           v  == Word(n)
           f(k) == LET d == dod[((k - 1) \div 4) + 1]
                   IN  (Word(d.sample) \o Word(d.delta))[((k - 1) % 4) + 1]
           body == [k \in 1 .. 4 * Channels |-> f(k)]
           b  == ResyncBytes(n, dod)
           s  == Tail(b)
<1>1. Channels \in Nat /\ 1 <= Channels /\ 4 * Channels \in Nat /\ ResyncSize = 5 + 4 * Channels
  BY ChannelsAre
<1>2. h = 0
  <2> DEFINE m == 2 * Half  r == n % m
  <2>1. n \in Int /\ m \in Nat \ {0} /\ m = 2 * Half /\ n < m
    BY HalfIs
  <2>2. h = n \div m
    OBVIOUS
  <2> HIDE DEF h, m
  <2>3. h \in Int /\ r \in Int /\ 0 <= r /\ r < m /\ n = m * h + r
    BY <2>1, <2>2, DivisionOf, Zenon
  <2> HIDE DEF r
  <2> QED BY <2>1, <2>3, HalfIs
<1>3. /\ u \in Seq(Octet) /\ Len(u) = 2 /\ u[1] \in Octet /\ u[2] \in Octet
      /\ 256 * u[1] + u[2] = 0
  <2>1. 0 \in Int /\ 0 <= 0 /\ 0 < 2 * Half
    BY HalfIs
  <2> QED BY <2>1, <1>2, WordIs, WordBack
<1>4. /\ v \in Seq(Octet) /\ Len(v) = 2 /\ v[1] \in Octet /\ v[2] \in Octet
      /\ 256 * v[1] + v[2] = n
  <2>1. n \in Int /\ 0 <= n
    OBVIOUS
  <2> QED BY <2>1, WordIs, WordBack
<1>5. ASSUME NEW c \in Channel
      PROVE  /\ dod[c].sample \in Int16Range /\ dod[c].delta \in Int16Range
             /\ dod[c].sample \in Int /\ dod[c].delta \in Int
  <2>1. dod[c].sample \in Int16Range /\ dod[c].delta \in Int16Range
    BY DEF ChannelStates
  <2> QED BY <2>1, Int16RangeIs
<1>6. ASSUME NEW c \in Channel
      PROVE  LET w == Word(dod[c].sample) \o Word(dod[c].delta)
             IN  /\ w \in Seq(Octet) /\ Len(w) = 4
                 /\ w[1] = Word(dod[c].sample)[1] /\ w[2] = Word(dod[c].sample)[2]
                 /\ w[3] = Word(dod[c].delta)[1] /\ w[4] = Word(dod[c].delta)[2]
  <2> DEFINE x == Word(dod[c].sample)  y == Word(dod[c].delta)
  <2>1. x \in Seq(Octet) /\ Len(x) = 2 /\ y \in Seq(Octet) /\ Len(y) = 2
    BY <1>5, WordIs, ZenonT(40)
  <2> HIDE DEF x, y
  <2> DEFINE w == x \o y
  <2>2. w \in Seq(Octet) /\ Glued(w, x, y)
    BY <2>1, Concatenated, Zenon
  <2> HIDE DEF w
  <2>3. Len(w) = 4 /\ w[1] = x[1] /\ w[2] = x[2] /\ w[2 + 1] = y[1] /\ w[2 + 2] = y[2]
    BY <2>1, <2>2 DEF Glued
  <2>4. w[3] = y[1] /\ w[4] = y[2]
    BY <2>3
  <2> QED BY <2>2, <2>3, <2>4 DEF x, y, w
<1>7. ASSUME NEW k \in 1 .. 4 * Channels PROVE f(k) \in Octet
  <2> DEFINE c == ((k - 1) \div 4) + 1
             m == ((k - 1) % 4) + 1
             w == Word(dod[c].sample) \o Word(dod[c].delta)
  <2>1. c \in Channel /\ m \in 1..4
    BY <1>1, FourOf DEF Channel
  <2>2. f(k) = w[m]
    OBVIOUS
  <2> HIDE DEF c, m
  <2>3. w \in Seq(Octet) /\ Len(w) = 4
    BY <2>1, <1>6
  <2> HIDE DEF w, f
  <2>4. m \in 1..Len(w)
    BY <2>1, <2>3
  <2>5. w[m] \in Octet
    BY <2>3, <2>4, ElementOfSeq, Zenon
  <2> QED BY <2>2, <2>5
<1>8. b = ((<<255>> \o u) \o v) \o body
  BY Zenon DEF ResyncBytes
<1> HIDE DEF f
<1>9. body \in Seq(Octet) /\ Len(body) = 4 * Channels
  <2>1. body \in [1 .. 4 * Channels -> Octet]
    BY <1>7
  <2> QED BY <2>1, <1>1
<1>10. \A k \in 1 .. 4 * Channels : body[k] = f(k)
  OBVIOUS
<1> HIDE DEF h, u, v, body, b
<1>11. <<255>> \in Seq(Octet) /\ Len(<<255>>) = 1 /\ <<255>>[1] = 255
  BY DEF Octet
<1>12. LET p == <<255>> \o u
       IN  /\ p \in Seq(Octet) /\ Len(p) = 3
           /\ p[1] = 255 /\ p[2] = u[1] /\ p[3] = u[2]
  <2> DEFINE p == <<255>> \o u
  <2>1. p \in Seq(Octet) /\ Glued(p, <<255>>, u)
    BY <1>3, <1>11, Concatenated, Zenon
  <2> HIDE DEF p
  <2>2. Len(p) = 3 /\ p[1] = 255 /\ p[1 + 1] = u[1] /\ p[1 + 2] = u[2]
    BY <2>1, <1>3, <1>11 DEF Glued
  <2>3. p[2] = u[1] /\ p[3] = u[2]
    BY <2>2
  <2> QED BY <2>1, <2>2, <2>3 DEF p
<1>13. LET p == (<<255>> \o u) \o v
       IN  /\ p \in Seq(Octet) /\ Len(p) = 5
           /\ p[1] = 255 /\ p[2] = u[1] /\ p[3] = u[2] /\ p[4] = v[1] /\ p[5] = v[2]
  <2> DEFINE q == <<255>> \o u
  <2>1. /\ q \in Seq(Octet) /\ Len(q) = 3
        /\ q[1] = 255 /\ q[2] = u[1] /\ q[3] = u[2]
    BY <1>12
  <2> HIDE DEF q
  <2>2. LET p == q \o v
        IN  /\ p \in Seq(Octet) /\ Len(p) = 5
            /\ p[1] = 255 /\ p[2] = u[1] /\ p[3] = u[2] /\ p[4] = v[1] /\ p[5] = v[2]
    <3> DEFINE p == q \o v
    <3>1. p \in Seq(Octet) /\ Glued(p, q, v)
      BY <2>1, <1>4, Concatenated, Zenon
    <3> HIDE DEF p
    <3>2. /\ Len(p) = 5 /\ p[1] = q[1] /\ p[2] = q[2] /\ p[3] = q[3]
          /\ p[3 + 1] = v[1] /\ p[3 + 2] = v[2]
      BY <3>1, <2>1, <1>4 DEF Glued
    <3>3. p[4] = v[1] /\ p[5] = v[2]
      BY <3>2
    <3> QED BY <3>1, <3>2, <3>3, <2>1 DEF p
  <2> QED BY <2>2, Zenon DEF q
<1>14. /\ b \in Seq(Octet) /\ Len(b) = 5 + 4 * Channels
       /\ b[1] = 255 /\ b[2] = u[1] /\ b[3] = u[2] /\ b[4] = v[1] /\ b[5] = v[2]
       /\ \A k \in 1 .. 4 * Channels : b[5 + k] = body[k]
  <2> DEFINE q == (<<255>> \o u) \o v
  <2>1. /\ q \in Seq(Octet) /\ Len(q) = 5
        /\ q[1] = 255 /\ q[2] = u[1] /\ q[3] = u[2] /\ q[4] = v[1] /\ q[5] = v[2]
    BY <1>13, Zenon
  <2>2. b = q \o body
    BY <1>8
  <2> HIDE DEF q
  <2>3. /\ b \in Seq(Octet) /\ Len(b) = 5 + 4 * Channels
        /\ \A k \in 1 .. 5 : b[k] = q[k]
        /\ \A k \in 1 .. 4 * Channels : b[5 + k] = body[k]
    <3>1. b \in Seq(Octet) /\ Glued(b, q, body)
      BY <2>1, <2>2, <1>9, Concatenated, Zenon
    <3> QED BY <3>1, <2>1, <1>9, <1>1 DEF Glued
  <2>4. b[1] = q[1] /\ b[2] = q[2] /\ b[3] = q[3] /\ b[4] = q[4] /\ b[5] = q[5]
    BY <2>3
  <2> QED BY <2>1, <2>3, <2>4
<1>15. /\ s \in Seq(Octet) /\ Len(s) = 4 + 4 * Channels
       /\ \A k \in 1 .. 4 + 4 * Channels : s[k] = b[k + 1]
  <2>1. b # <<>>
    BY <1>14, <1>1
  <2>2. s \in Seq(Octet) /\ Len(s) = Len(b) - 1
    BY <1>14, <2>1, HeadTailProperties
  <2>3. \A k \in 1 .. Len(s) : s[k] = b[k + 1]
    BY <1>14, <2>1, HeadTailProperties
  <2>4. Len(s) = 4 + 4 * Channels
    BY <2>2, <1>14, <1>1
  <2> QED BY <2>2, <2>3, <2>4
<1> HIDE DEF s
<1>16. s[1] = u[1] /\ s[2] = u[2] /\ s[3] = v[1] /\ s[4] = v[2]
  <2>1. 1 \in 1 .. 4 + 4 * Channels /\ 2 \in 1 .. 4 + 4 * Channels
        /\ 3 \in 1 .. 4 + 4 * Channels /\ 4 \in 1 .. 4 + 4 * Channels
    BY <1>1
  <2>2. s[1] = b[1 + 1] /\ s[2] = b[2 + 1] /\ s[3] = b[3 + 1] /\ s[4] = b[4 + 1]
    BY <2>1, <1>15, Zenon
  <2> QED BY <2>2, <1>14
<1>17. 2 * Half * WordAt(s, 1) + WordAt(s, 3) = n
  <2>1. WordAt(s, 1) = 256 * s[1] + s[2] /\ WordAt(s, 3) = 256 * s[3] + s[4]
    BY DEF WordAt
  <2>2. WordAt(s, 1) = 0 /\ WordAt(s, 3) = n
    BY <2>1, <1>16, <1>3, <1>4
  <2> QED BY <2>2, HalfIs
<1>18. ASSUME NEW c \in Channel
       PROVE  /\ Int16(WordAt(s, 4 * c + 1)) = dod[c].sample
              /\ Int16(WordAt(s, 4 * c + 3)) = dod[c].delta
  <2> DEFINE w == Word(dod[c].sample) \o Word(dod[c].delta)
  <2>1. c \in Nat /\ 1 <= c /\ c <= Channels
    BY <1>1 DEF Channel
  <2>2. ASSUME NEW m \in 1..4 PROVE s[4 * c + m] = w[m]
    <3> DEFINE k == 4 * (c - 1) + m
    <3>1. k \in 1 .. 4 * Channels /\ 4 * c + m \in 1 .. 4 + 4 * Channels
          /\ (4 * c + m) + 1 = 5 + k
      BY <2>1, <1>1
    <3>2. ((k - 1) \div 4) + 1 = c /\ ((k - 1) % 4) + 1 = m
      BY <2>1, FourEach
    <3> HIDE DEF k
    <3>3. f(k) = w[m]
      BY <3>2, Zenon DEF f
    <3>4. s[4 * c + m] = b[(4 * c + m) + 1]
      BY <3>1, <1>15, Zenon
    <3>5. b[5 + k] = f(k)
      <4>1. b[5 + k] = body[k]
        BY <3>1, <1>14
      <4>2. body[k] = f(k)
        BY <3>1, <1>10
      <4> QED BY <4>1, <4>2
    <3> QED BY <3>1, <3>3, <3>4, <3>5, Zenon
  <2>3. /\ w[1] = Word(dod[c].sample)[1] /\ w[2] = Word(dod[c].sample)[2]
        /\ w[3] = Word(dod[c].delta)[1] /\ w[4] = Word(dod[c].delta)[2]
    BY <1>6, Zenon
  <2> HIDE DEF w
  <2>4. s[4 * c + 1] = w[1] /\ s[4 * c + 2] = w[2] /\ s[4 * c + 3] = w[3] /\ s[4 * c + 4] = w[4]
    BY <2>2
  <2>5. (4 * c + 1) + 1 = 4 * c + 2 /\ (4 * c + 3) + 1 = 4 * c + 4
    BY <2>1
  <2>6. /\ WordAt(s, 4 * c + 1) = 256 * Word(dod[c].sample)[1] + Word(dod[c].sample)[2]
        /\ WordAt(s, 4 * c + 3) = 256 * Word(dod[c].delta)[1] + Word(dod[c].delta)[2]
    BY <2>3, <2>4, <2>5, ZenonT(40) DEF WordAt
  <2> QED BY <2>6, <1>5, WordBack, ZenonT(40)
<1>19. /\ b \in Seq(Octet) /\ Len(b) = ResyncSize /\ b[1] = 255
       /\ s \in Seq(Octet)
  BY <1>1, <1>14, <1>15
<1> QED BY <1>17, <1>18, <1>19, Zenon DEF b, s

-----------------------------------------------------------------------------
(* Recursive functions. *)

(* Counting from 0 reaches every number. *)
LEMMA Counting ==
  ASSUME NEW n \in Nat, NEW T, 0 \in T, \A k \in 1..n : k - 1 \in T => k \in T
  PROVE  \A k \in 0..n : k \in T
<1> DEFINE Bad == {k \in 0..n : k \notin T}
<1>1. SUFFICES ASSUME Bad # {} PROVE FALSE
  BY Zenon
<1>2. PICK m \in Bad : \A l \in Bad : m <= l
  <2>1. Bad \in SUBSET Nat
    OBVIOUS
  <2> HIDE DEF Bad
  <2> QED BY <1>1, <2>1, Smallest
<1>3. m \in 0..n /\ m \notin T
  BY <1>2, Zenon
<1>4. m \in 1..n /\ m - 1 \in 0..n /\ ~ (m <= m - 1)
  BY <1>3
<1>5. m - 1 \in T
  BY <1>4, <1>2
<1> QED BY <1>3, <1>4, <1>5

(* There is a function that begins with base and goes on by step. *)
Recursive(f, S, base, step, n) ==
  /\ f \in [0..n -> S] /\ f[0] = base
  /\ \A k \in 1..n : f[k] = step[f[k - 1]][k]

LEMMA Recursion ==
  ASSUME NEW S, NEW base \in S, NEW n \in Nat, NEW step \in [S -> [1..n -> S]]
  PROVE  \E f : Recursive(f, S, base, step, n)
<1> DEFINE Runs(m, f) == /\ f \in [0..m -> S] /\ f[0] = base
                         /\ \A k \in 1..m : f[k] = step[f[k - 1]][k]
           T == {m \in 0..n : \E f : Runs(m, f)}
<1>1. 0 \in T
  <2> DEFINE f == [k \in 0..0 |-> base]
  <2>1. Runs(0, f)
    OBVIOUS
  <2> HIDE DEF f, Runs
  <2> QED BY <2>1
<1>2. ASSUME NEW m \in 1..n, m - 1 \in T PROVE m \in T
  <2>1. PICK g : Runs(m - 1, g)
    BY <1>2, Zenon
  <2> DEFINE f == [k \in 0..m |-> IF k < m THEN g[k] ELSE step[g[m - 1]][m]]
  <2>2. g[m - 1] \in S /\ \A k \in 0..m - 1 : g[k] \in S
    BY <2>1
  <2>3. step[g[m - 1]][m] \in S
    BY <2>2
  <2>4. f \in [0..m -> S]
    BY <2>2, <2>3
  <2>5. f[0] = base
    BY <2>1
  <2>6. ASSUME NEW k \in 1..m PROVE f[k] = step[f[k - 1]][k]
    <3>1. k - 1 \in 0..m /\ k - 1 < m /\ f[k - 1] = g[k - 1]
      OBVIOUS
    <3>2. CASE k = m
      <4>1. f[k] = step[g[m - 1]][m]
        BY <3>2
      <4> QED BY <4>1, <3>1, <3>2
    <3>3. CASE k # m
      <4>1. k \in 1 .. m - 1 /\ k < m
        BY <3>3
      <4>2. f[k] = g[k] /\ g[k] = step[g[k - 1]][k]
        BY <4>1, <2>1
      <4> QED BY <4>2, <3>1
    <3> QED BY <3>2, <3>3
  <2>7. Runs(m, f)
    <3> HIDE DEF f
    <3> QED BY <2>4, <2>5, <2>6
  <2>8. m \in 0..n
    OBVIOUS
  <2> HIDE DEF f, Runs
  <2> QED BY <2>7, <2>8
<1>3. n \in T
  <2>1. n \in 0..n
    OBVIOUS
  <2> HIDE DEF T
  <2> QED BY <1>1, <1>2, <2>1, Counting, Zenon
<1>4. PICK f : Runs(n, f)
  BY <1>3, Zenon
<1> QED BY <1>4, Zenon DEF Recursive

(* The codes one behind the other. *)
LEMMA JoinedIs ==
  ASSUME NEW codes \in Seq(Seq(Octet))
  PROVE  LET f == Joined(codes)
         IN  /\ f \in [0..Len(codes) -> Seq(Octet)]
             /\ f[0] = <<>>
             /\ \A k \in 1..Len(codes) : f[k] = f[k - 1] \o codes[k]
<1> DEFINE n == Len(codes)
           S == Seq(Octet)
           step == [x \in S |-> [k \in 1..n |-> x \o codes[k]]]
           Is(f) == f = [k \in 0..n |-> IF k = 0 THEN <<>> ELSE f[k - 1] \o codes[k]]
<1>1. n \in Nat /\ <<>> \in S
  OBVIOUS
<1>2. step \in [S -> [1..n -> S]]
  <2>1. ASSUME NEW x \in S, NEW k \in 1..n PROVE x \o codes[k] \in S
    <3>1. codes[k] \in S
      BY <1>1, ElementOfSeq
    <3> QED BY <3>1, Concatenated, Zenon
  <2> QED BY <2>1, Zenon
<1>3. \A x \in S : \A k \in 1..n : step[x][k] = x \o codes[k]
  BY Zenon
<1> HIDE DEF S, step
<1>4. PICK f : Recursive(f, S, <<>>, step, n)
  <2> HIDE DEF n
  <2> QED BY <1>1, <1>2, Recursion, Zenon
<1>5. Is(f)
  <2>1. ASSUME NEW k \in 0..n PROVE f[k] = IF k = 0 THEN <<>> ELSE f[k - 1] \o codes[k]
    <3>1. CASE k = 0
      BY <3>1, <1>4 DEF Recursive
    <3>2. CASE k # 0
      <4>1. k \in 1..n /\ k - 1 \in 0..n
        BY <3>2, <1>1
      <4>2. f[k - 1] \in S
        BY <4>1, <1>4, Zenon DEF Recursive
      <4>3. f[k] = f[k - 1] \o codes[k]
        BY <4>1, <4>2, <1>3, <1>4, Zenon DEF Recursive
      <4> QED BY <3>2, <4>3, Zenon
    <3> QED BY <3>1, <3>2
  <2> QED BY <2>1, <1>4, Zenon DEF Recursive
<1>6. Joined(codes) = CHOOSE g : Is(g)
  BY Zenon DEF Joined
<1> HIDE DEF Is
<1>7. Is(Joined(codes))
  BY <1>5, <1>6, Zenon
<1> DEFINE h == Joined(codes)
<1>8. h = [k \in 0..n |-> IF k = 0 THEN <<>> ELSE h[k - 1] \o codes[k]]
  BY <1>7, Zenon DEF Is
<1> HIDE DEF h
<1>9. h[0] = <<>> /\ \A k \in 1..n : h[k] = h[k - 1] \o codes[k]
  <2>1. 0 \in 0..n /\ \A k \in 1..n : k \in 0..n /\ k # 0
    BY <1>1
  <2> QED BY <1>8, <2>1, Zenon
<1>10. \A k \in 0..n : h[k] \in S
  <2> DEFINE T == {k \in 0..n : h[k] \in S}
  <2>1. 0 \in T
    BY <1>1, <1>9
  <2>2. ASSUME NEW k \in 1..n, k - 1 \in T PROVE k \in T
    <3>1. codes[k] \in Seq(Octet) /\ h[k - 1] \in Seq(Octet)
      BY <2>2, ElementOfSeq DEF S
    <3>2. h[k - 1] \o codes[k] \in S
      BY <3>1, Concatenated, Zenon DEF S
    <3>3. k \in 0..n
      BY <1>1
    <3> QED BY <3>2, <3>3, <1>9, Zenon
  <2>3. \A k \in 0..n : k \in T
    <3> HIDE DEF T
    <3> QED BY <2>1, <2>2, <1>1, Counting, Zenon
  <2> QED BY <2>3, Zenon
<1>11. h \in [0..n -> S]
  BY <1>8, <1>10, Zenon
<1> QED BY <1>9, <1>11, Zenon DEF h, S

LEMMA JoinedGrows ==
  ASSUME NEW codes \in Seq(Seq(Octet)), NEW c \in 0..Len(codes), NEW d \in c..Len(codes)
  PROVE  LET f == Joined(codes)
         IN  /\ Len(f[c]) \in Nat /\ Len(f[d]) \in Nat /\ Len(f[c]) <= Len(f[d])
             /\ \A k \in 1..Len(f[c]) : f[d][k] = f[c][k]
<1> DEFINE f == Joined(codes)
           n == Len(codes)
           Kept(m) == /\ Len(f[c]) <= Len(f[m])
                      /\ \A k \in 1..Len(f[c]) : f[m][k] = f[c][k]
           T == {m \in 0..n : m >= c => Kept(m)}
<1>1. n \in Nat /\ c \in 0..n /\ d \in c..n
  OBVIOUS
<1>2. /\ f \in [0..n -> Seq(Octet)]
      /\ \A k \in 1..n : f[k] = f[k - 1] \o codes[k]
  BY JoinedIs, Zenon
<1> HIDE DEF f
<1>3. \A k \in 0..n : f[k] \in Seq(Octet) /\ Len(f[k]) \in Nat
  BY <1>2
<1>4. 0 \in T
  BY <1>1, <1>3
<1>5. ASSUME NEW m \in 1..n, m - 1 \in T PROVE m \in T
  <2>1. m \in 0..n /\ m - 1 \in 0..n
    BY <1>1
  <2>2. SUFFICES ASSUME m >= c PROVE Kept(m)
    BY <2>1
  <2>3. CASE m = c
    BY <2>3, <1>3, <2>1
  <2>4. CASE m # c
    <3>1. m - 1 >= c
      BY <2>2, <2>4, <1>1
    <3>2. Kept(m - 1)
      BY <3>1, <1>5
    <3>3. codes[m] \in Seq(Octet) /\ f[m - 1] \in Seq(Octet)
      BY <1>1, <1>3, <2>1, ElementOfSeq
    <3>4. f[m] \in Seq(Octet) /\ Glued(f[m], f[m - 1], codes[m])
      BY <3>3, <1>2, Concatenated, Zenon
    <3>5. Len(f[m]) >= Len(f[m - 1]) /\ \A k \in 1..Len(f[m - 1]) : f[m][k] = f[m - 1][k]
      <4>1. Len(f[m]) = Len(f[m - 1]) + Len(codes[m])
        BY <3>4, Zenon DEF Glued
      <4>2. Len(f[m - 1]) \in Nat /\ Len(codes[m]) \in Nat
        BY <3>3
      <4>3. Len(f[m]) >= Len(f[m - 1])
        <5> DEFINE x == Len(f[m - 1])  y == Len(codes[m])  z == Len(f[m])
        <5>1. x \in Nat /\ y \in Nat /\ z = x + y
          BY <4>1, <4>2
        <5> HIDE DEF x, y, z
        <5>2. z >= x
          BY <5>1
        <5> QED BY <5>2 DEF x, z
      <4> QED BY <4>3, <3>4, Zenon DEF Glued
    <3>6. Len(f[c]) \in Nat /\ Len(f[m - 1]) \in Nat /\ Len(f[m]) \in Nat
      BY <1>1, <1>3, <2>1, Zenon
    <3> QED BY <3>2, <3>5, <3>6, SMTT(30)
  <2> QED BY <2>3, <2>4
<1>6. d \in T
  <2>1. d \in 0..n
    BY <1>1
  <2> HIDE DEF T, n
  <2> QED BY <1>1, <1>4, <1>5, <2>1, Counting, Zenon
<1>7. d >= c /\ d \in 0..n
  BY <1>1
<1> QED BY <1>6, <1>7, <1>3, <1>1 DEF f

(* Code c lies between what is joined before it and what is joined with it. *)
LEMMA JoinedHolds ==
  ASSUME NEW codes \in Seq(Seq(Octet)), NEW c \in 1..Len(codes)
  PROVE  LET f == Joined(codes)
             n == Len(codes)
         IN  /\ f[c - 1] \in Seq(Octet) /\ f[c] \in Seq(Octet) /\ f[n] \in Seq(Octet)
             /\ codes[c] \in Seq(Octet)
             /\ Len(f[c]) = Len(f[c - 1]) + Len(codes[c])
             /\ Len(f[c]) <= Len(f[n])
             /\ \A k \in 1..Len(codes[c]) : f[n][Len(f[c - 1]) + k] = codes[c][k]
<1> DEFINE f == Joined(codes)
           n == Len(codes)
<1>1. n \in Nat /\ c \in 0..n /\ c - 1 \in 0..n /\ n \in c..n /\ n \in 0..n
  OBVIOUS
<1>2. /\ f \in [0..n -> Seq(Octet)]
      /\ \A k \in 1..n : f[k] = f[k - 1] \o codes[k]
  BY JoinedIs, Zenon
<1>3. Len(f[c]) <= Len(f[n]) /\ \A k \in 1..Len(f[c]) : f[n][k] = f[c][k]
  BY <1>1, JoinedGrows, Zenon
<1> HIDE DEF f
<1>4. f[c - 1] \in Seq(Octet) /\ f[c] \in Seq(Octet) /\ f[n] \in Seq(Octet) /\ codes[c] \in Seq(Octet)
  <2>1. codes[c] \in Seq(Octet)
    BY ElementOfSeq
  <2> HIDE DEF n
  <2> QED BY <1>1, <1>2, <2>1
<1>5. Glued(f[c], f[c - 1], codes[c])
  BY <1>2, <1>4, Concatenated, Zenon
<1>6. Len(f[c]) = Len(f[c - 1]) + Len(codes[c])
  BY <1>5 DEF Glued
<1>7. ASSUME NEW k \in 1..Len(codes[c]) PROVE f[n][Len(f[c - 1]) + k] = codes[c][k]
  <2>1. Len(f[c - 1]) \in Nat /\ Len(codes[c]) \in Nat
    BY <1>4
  <2>2. Len(f[c - 1]) + k \in 1..Len(f[c])
    <3> DEFINE x == Len(f[c - 1])  y == Len(codes[c])  z == Len(f[c])
    <3>1. x \in Nat /\ y \in Nat /\ z = x + y /\ k \in 1..y
      BY <2>1, <1>6
    <3> HIDE DEF x, y, z
    <3>2. x + k \in 1..z
      BY <3>1
    <3> QED BY <3>2 DEF x, z
  <2>3. f[c][Len(f[c - 1]) + k] = codes[c][k]
    BY <1>5, Zenon DEF Glued
  <2> QED BY <2>2, <2>3, <1>3, Zenon
<1> QED BY <1>3, <1>4, <1>6, <1>7, Zenon DEF f

(* Codes of three bytes at most need room for three bytes each.            *)
LEMMA JoinedIsShort ==
  ASSUME NEW codes \in Seq(Seq(Octet)), \A c \in 1..Len(codes) : Len(codes[c]) <= 3
  PROVE  LET f == Joined(codes)
         IN  Len(f[Len(codes)]) \in Nat /\ Len(f[Len(codes)]) <= 3 * Len(codes)
<1> DEFINE f == Joined(codes)
           n == Len(codes)
           T == {m \in 0..n : Len(f[m]) <= 3 * m}
<1>1. n \in Nat
  OBVIOUS
<1>2. f \in [0..n -> Seq(Octet)] /\ f[0] = <<>>
  BY JoinedIs, Zenon
<1>3. ASSUME NEW c \in 1..n PROVE Len(f[c]) = Len(f[c - 1]) + Len(codes[c])
  BY JoinedHolds, Zenon
<1>4. \A c \in 1..n : Len(codes[c]) <= 3
  OBVIOUS
<1> HIDE DEF f
<1>5. \A k \in 0..n : Len(f[k]) \in Nat
  BY <1>2
<1>6. 0 \in T
  BY <1>1, <1>2
<1>7. ASSUME NEW m \in 1..n, m - 1 \in T PROVE m \in T
  <2>1. m - 1 \in 0..n /\ m \in 0..n
    BY <1>1
  <2>2. codes[m] \in Seq(Octet)
    BY ElementOfSeq
  <2>3. Len(codes[m]) \in Nat /\ Len(f[m - 1]) \in Nat /\ Len(f[m]) \in Nat
    BY <1>5, <2>1, <2>2
  <2>4. Len(f[m]) = Len(f[m - 1]) + Len(codes[m]) /\ Len(codes[m]) <= 3
    BY <1>3, <1>4, Zenon
  <2>5. Len(f[m - 1]) <= 3 * (m - 1)
    BY <1>7
  <2>6. Len(f[m]) <= 3 * m
    <3> DEFINE x == Len(f[m - 1])  y == Len(codes[m])  z == Len(f[m])
    <3>1. x \in Nat /\ y \in Nat /\ z = x + y /\ y <= 3 /\ x <= 3 * (m - 1) /\ m \in Int
      BY <2>3, <2>4, <2>5
    <3> HIDE DEF x, y, z
    <3>2. z <= 3 * m
      BY <3>1
    <3> QED BY <3>2 DEF z
  <2> QED BY <2>1, <2>6
<1>8. n \in T
  <2>1. n \in 0..n
    BY <1>1
  <2> HIDE DEF T, n
  <2> QED BY <1>1, <1>6, <1>7, <2>1, Counting, Zenon
<1>9. n \in 0..n
  BY <1>1
<1> QED BY <1>5, <1>8, <1>9 DEF f

-----------------------------------------------------------------------------
(* The reader, byte by byte. *)

LEMMA UnzigzagIs == ASSUME NEW v \in Int PROVE Unzigzag(v) \in Int
<1> DEFINE h == v \div 2
<1>1. h \in Int
  <2>1. 2 \in Nat \ {0}
    OBVIOUS
  <2> QED BY <2>1, DivisionOf
<1>2. Unzigzag(v) = IF v % 2 = 1 THEN -h - 1 ELSE h
  BY DEF Unzigzag
<1> HIDE DEF h
<1> QED BY <1>1, <1>2

(* The reader q is r, but for how far it is in a residual. *)
Waits(q, r) ==
  /\ q \in Readers
  /\ q.inSync = r.inSync /\ q.ready = r.ready /\ q.counter = r.counter
  /\ q.samples = r.samples /\ q.dod = r.dod /\ q.dods = r.dods

(* The state of a channel behind the residual d. *)
After(r, ds) ==
  [c \in Channel |->
    LET delta == Int16(ds[c] + r.dod[c].delta)
    IN  [sample |-> Int16(delta + r.dod[c].sample), delta |-> delta]]

(* The reader q is r with one more residual: the vector is whole with the  *)
(* last of its channels.                                                   *)
Takes(q, r, d) ==
  /\ q \in Readers /\ q.state = "DOD"
  /\ q.inSync = r.inSync /\ q.ready = r.ready /\ q.counter = r.counter
  /\ Len(r.dods) + 1 # Channels =>
       q.samples = r.samples /\ q.dod = r.dod /\ q.dods = Append(r.dods, d)
  /\ Len(r.dods) + 1 = Channels /\ Len(r.samples) < BlockCapacity =>
       LET dod == After(r, Append(r.dods, d))
       IN  /\ q.samples = Append(r.samples, [c \in Channel |-> dod[c].sample])
           /\ q.dod = dod /\ q.dods = <<>>

LEMMA AfterIs ==
  ASSUME NEW r \in Readers, NEW ds \in Seq(Int), Len(ds) = Channels
  PROVE  /\ After(r, ds) \in ChannelStates
         /\ [c \in Channel |-> After(r, ds)[c].sample] \in [Channel -> Int16Range]
<1>1. ASSUME NEW c \in Channel
      PROVE  LET delta == Int16(ds[c] + r.dod[c].delta)
             IN  delta \in Int16Range /\ Int16(delta + r.dod[c].sample) \in Int16Range
  <2>1. ds[c] \in Int
    <3>1. c \in 1..Len(ds)
      BY DEF Channel
    <3> QED BY <3>1
  <2>2. r.dod[c].delta \in Int /\ r.dod[c].sample \in Int
    <3>1. r.dod[c].delta \in Int16Range /\ r.dod[c].sample \in Int16Range
      BY DEF Readers, ChannelStates
    <3> QED BY <3>1, Int16RangeIs
  <2> DEFINE x == ds[c] + r.dod[c].delta  delta == Int16(x)  y == delta + r.dod[c].sample
  <2>3. x \in Int
    BY <2>1, <2>2
  <2> HIDE DEF x
  <2>4. delta \in Int16Range /\ delta \in Int
    BY <2>3, Int16Is, Zenon
  <2> HIDE DEF delta
  <2>5. y \in Int
    BY <2>4, <2>2
  <2> HIDE DEF y
  <2>6. Int16(y) \in Int16Range
    BY <2>5, Int16Is
  <2> QED BY <2>4, <2>6, Zenon DEF x, delta, y
<1>2. After(r, ds) \in ChannelStates
  BY <1>1, Zenon DEF After, ChannelStates
<1>3. [c \in Channel |-> After(r, ds)[c].sample] \in [Channel -> Int16Range]
  BY <1>2 DEF ChannelStates
<1> QED BY <1>2, <1>3

LEMMA EmitSampleIs ==
  ASSUME NEW r \in Readers, Len(r.dods) = Channels
  PROVE  LET q == EmitSample(r)
             dod == After(r, r.dods)
         IN  /\ q \in Readers /\ q.state = r.state
             /\ q.inSync = r.inSync /\ q.ready = r.ready /\ q.counter = r.counter
             /\ Len(r.samples) < BlockCapacity =>
                  /\ q.samples = Append(r.samples, [c \in Channel |-> dod[c].sample])
                  /\ q.dod = dod /\ q.dods = <<>>
<1> DEFINE dod == After(r, r.dods)
           s == [c \in Channel |-> dod[c].sample]
           q == EmitSample(r)
<1>1. dod \in ChannelStates /\ s \in [Channel -> Int16Range]
  <2>1. r.dods \in Seq(Int)
    BY DEF Readers
  <2> QED BY <2>1, AfterIs, Zenon
<1>2. q = IF Len(r.samples) >= BlockCapacity THEN r
          ELSE [r EXCEPT !.dod = dod, !.dods = <<>>, !.samples = Append(@, s)]
  BY Zenon DEF EmitSample, After
<1>3. Len(r.samples) \in Nat /\ BlockCapacity \in Nat
  BY DaqCodecAssumption DEF Readers
<1> HIDE DEF dod, s, q
<1>4. CASE Len(r.samples) >= BlockCapacity
  <2>1. q = r /\ ~ (Len(r.samples) < BlockCapacity)
    BY <1>2, <1>3, <1>4
  <2> QED BY <2>1, Zenon DEF q, dod
<1>5. CASE ~ (Len(r.samples) >= BlockCapacity)
  <2>1. q = [r EXCEPT !.dod = dod, !.dods = <<>>, !.samples = Append(@, s)]
    BY <1>2, <1>5
  <2>2. Append(r.samples, s) \in Seq([Channel -> Int16Range])
    <3>1. r.samples \in Seq([Channel -> Int16Range])
      BY DEF Readers
    <3> QED BY <3>1, <1>1, AppendProperties, Zenon
  <2>3. q \in Readers
    <3> DEFINE A == Seq(Octet)  B == Seq(Int)  C == Seq([Channel -> Int16Range])
    <3>1. /\ Readers = [state : {"DOD", "Sample", "WORD"}, inSync : BOOLEAN, scratch : A,
                        dods : B, dod : ChannelStates, ready : BOOLEAN, counter : Nat,
                        samples : C]
          /\ <<>> \in B /\ Append(r.samples, s) \in C
      BY <2>2 DEF Readers
    <3> HIDE DEF A, B, C
    <3> QED BY <3>1, <2>1, <1>1, Zenon
  <2>4. /\ q.state = r.state /\ q.inSync = r.inSync /\ q.ready = r.ready
        /\ q.counter = r.counter /\ q.samples = Append(r.samples, s)
        /\ q.dod = dod /\ q.dods = <<>>
    BY <2>1 DEF Readers
  <2> QED BY <2>3, <2>4, Zenon DEF q, dod, s
<1> QED BY <1>4, <1>5

(* A residual is complete. *)
LEMMA TakesIs ==
  ASSUME NEW r \in Readers, NEW d \in Int, NEW s \in Readers,
         s.state = "DOD", s.inSync = r.inSync, s.ready = r.ready, s.counter = r.counter,
         s.samples = r.samples, s.dod = r.dod, s.dods = Append(r.dods, d)
  PROVE  Takes(IF Len(s.dods) = Channels THEN EmitSample(s) ELSE s, r, d)
<1>1. Len(s.dods) = Len(r.dods) + 1
  BY DEF Readers
<1>2. CASE Len(s.dods) = Channels
  <2> DEFINE q == EmitSample(s)  dod == After(s, s.dods)
  <2>1. /\ q \in Readers /\ q.state = s.state
        /\ q.inSync = s.inSync /\ q.ready = s.ready /\ q.counter = s.counter
        /\ Len(s.samples) < BlockCapacity =>
             /\ q.samples = Append(s.samples, [c \in Channel |-> dod[c].sample])
             /\ q.dod = dod /\ q.dods = <<>>
    BY <1>2, EmitSampleIs, Zenon
  <2>2. dod = After(r, Append(r.dods, d))
    BY Zenon DEF After
  <2> HIDE DEF q, dod
  <2>3. Takes(q, r, d)
    BY <1>1, <1>2, <2>1, <2>2, Zenon DEF Takes
  <2> QED BY <2>3, <1>2, Zenon DEF q
<1>3. CASE Len(s.dods) # Channels
  <2>1. Takes(s, r, d)
    BY <1>1, <1>3, Zenon DEF Takes
  <2> QED BY <2>1, <1>3, Zenon
<1> QED BY <1>2, <1>3

LEMMA DecodeByteIs ==
  ASSUME NEW r \in Readers, NEW byte \in Octet, Len(r.dods) < Channels
  PROVE  LET q == DecodeByte(r, byte)
         IN  /\ r.state = "DOD" /\ byte \in 0..240 => Takes(q, r, Unzigzag(byte))
             /\ r.state = "DOD" /\ byte \in 241..247 =>
                  Waits(q, r) /\ q.state = "WORD" /\ q.scratch = <<byte - 240>>
             /\ r.state = "DOD" /\ byte = 254 =>
                  Waits(q, r) /\ q.state = "WORD" /\ q.scratch = <<>>
             /\ r.state = "WORD" /\ r.scratch = <<>> =>
                  Waits(q, r) /\ q.state = "WORD" /\ q.scratch = <<byte>>
             /\ \A h \in Octet : r.state = "WORD" /\ r.scratch = <<h>> =>
                  Takes(q, r, Unzigzag(256 * h + byte))
<1> DEFINE A == Seq(Octet)
           B == Seq(Int)
           C == Seq([Channel -> Int16Range])
           next == AcceptByte(r, byte)
           q == DecodeByte(r, byte)
           word == Append(r.scratch, byte)
<1>1. Readers = [state : {"DOD", "Sample", "WORD"}, inSync : BOOLEAN, scratch : A,
                 dods : B, dod : ChannelStates, ready : BOOLEAN, counter : Nat,
                 samples : C]
  BY DEF Readers
<1>2. byte \in Int
  BY DEF Octet
<1>3. q = IF Len(next.dods) = Channels THEN EmitSample(next) ELSE next
  BY Zenon DEF DecodeByte
<1>4. r.scratch \in A /\ r.dods \in B /\ \A d \in Int : Append(r.dods, d) \in B
  BY DEF Readers
<1>5. Len(r.dods) # Channels
  BY <1>4, ChannelsAre
<1>6. ASSUME r.state = "DOD", byte \in 0..240 PROVE Takes(q, r, Unzigzag(byte))
  <2> DEFINE d == Unzigzag(byte)
  <2>1. next = [r EXCEPT !.dods = Append(@, d)]
    BY <1>6 DEF AcceptByte
  <2>2. d \in Int
    BY <1>2, UnzigzagIs
  <2>3. Append(r.dods, d) \in B
    BY <1>4, <2>2
  <2> HIDE DEF A, B, C, d, next
  <2>4. next \in Readers
    BY <1>1, <2>1, <2>3, Zenon
  <2>5. /\ next.state = "DOD" /\ next.inSync = r.inSync /\ next.ready = r.ready
        /\ next.counter = r.counter /\ next.samples = r.samples /\ next.dod = r.dod
        /\ next.dods = Append(r.dods, d)
    BY <1>1, <1>6, <2>1
  <2> HIDE DEF q
  <2> QED BY <1>3, <2>2, <2>4, <2>5, TakesIs, Zenon DEF d
<1>7. ASSUME r.state = "DOD", byte \in 241..247
      PROVE  Waits(q, r) /\ q.state = "WORD" /\ q.scratch = <<byte - 240>>
  <2> DEFINE t == <<byte - 240>>
  <2>1. next = [r EXCEPT !.state = "WORD", !.scratch = t]
    <3>1. byte # 254 /\ byte \notin 0..240 /\ r.state # "WORD"
      BY <1>7
    <3> QED BY <3>1, <1>7 DEF AcceptByte
  <2>2. t \in A
    BY <1>7 DEF Octet
  <2> HIDE DEF A, B, C, t, next
  <2>3. next \in Readers
    BY <1>1, <2>1, <2>2, Zenon
  <2>4. /\ next.state = "WORD" /\ next.inSync = r.inSync /\ next.ready = r.ready
        /\ next.counter = r.counter /\ next.samples = r.samples /\ next.dod = r.dod
        /\ next.dods = r.dods /\ next.scratch = t
    BY <1>1, <2>1
  <2>5. q = next
    BY <1>3, <1>5, <2>4
  <2> HIDE DEF q
  <2> QED BY <2>3, <2>4, <2>5, Zenon DEF Waits, t
<1>8. ASSUME r.state = "DOD", byte = 254
      PROVE  Waits(q, r) /\ q.state = "WORD" /\ q.scratch = <<>>
  <2> DEFINE t == <<>>
  <2>1. next = [r EXCEPT !.state = "WORD", !.scratch = t]
    BY <1>8 DEF AcceptByte
  <2>2. t \in A
    OBVIOUS
  <2> HIDE DEF A, B, C, t, next
  <2>3. next \in Readers
    BY <1>1, <2>1, <2>2, Zenon
  <2>4. /\ next.state = "WORD" /\ next.inSync = r.inSync /\ next.ready = r.ready
        /\ next.counter = r.counter /\ next.samples = r.samples /\ next.dod = r.dod
        /\ next.dods = r.dods /\ next.scratch = t
    BY <1>1, <2>1
  <2>5. q = next
    BY <1>3, <1>5, <2>4
  <2> HIDE DEF q
  <2> QED BY <2>3, <2>4, <2>5, Zenon DEF Waits, t
<1>9. ASSUME r.state = "WORD", r.scratch = <<>>
      PROVE  Waits(q, r) /\ q.state = "WORD" /\ q.scratch = <<byte>>
  <2>1. word = <<byte>> /\ Len(word) = 1 /\ word \in A
    BY <1>9
  <2> HIDE DEF word
  <2>2. next = [r EXCEPT !.scratch = word]
    BY <1>9, <2>1 DEF AcceptByte, word
  <2> HIDE DEF A, B, C, next
  <2>3. next \in Readers
    BY <1>1, <2>1, <2>2
  <2>4. /\ next.state = "WORD" /\ next.inSync = r.inSync /\ next.ready = r.ready
        /\ next.counter = r.counter /\ next.samples = r.samples /\ next.dod = r.dod
        /\ next.dods = r.dods /\ next.scratch = word
    BY <1>1, <1>9, <2>2
  <2>5. q = next
    BY <1>3, <1>5, <2>4
  <2> HIDE DEF q
  <2> QED BY <2>1, <2>3, <2>4, <2>5, Zenon DEF Waits
<1>10. ASSUME NEW h \in Octet, r.state = "WORD", r.scratch = <<h>>
       PROVE  Takes(q, r, Unzigzag(256 * h + byte))
  <2> DEFINE v == 256 * h + byte  d == Unzigzag(v)
  <2>1. word = <<h, byte>>
    <3>1. Append(<<h>>, byte) = <<h, byte>>
      <4> DEFINE u == <<h>>  v2 == Append(u, byte)  w == <<h, byte>>
      <4>1. u \in Seq(Octet) /\ Len(u) = 1 /\ u[1] = h
        OBVIOUS
      <4>2. w \in Seq(Octet) /\ Len(w) = 2 /\ w[1] = h /\ w[2] = byte
        OBVIOUS
      <4> HIDE DEF u, w
      <4>3. v2 \in Seq(Octet) /\ Len(v2) = 2 /\ v2[1] = h /\ v2[2] = byte
        <5>1. v2 \in Seq(Octet) /\ Len(v2) = Len(u) + 1
          BY <4>1, AppendProperties, Zenon
        <5>2. ASSUME NEW k \in 1..Len(u) PROVE v2[k] = u[k]
          <6>1. u \in Seq(Octet) /\ byte \in Octet
            BY <4>1
          <6> QED BY <6>1
        <5>3. v2[Len(u) + 1] = byte
          BY <4>1, AppendProperties, Zenon
        <5> HIDE DEF v2
        <5>4. v2[1 + 1] = byte /\ Len(v2) = 1 + 1 /\ v2[1] = u[1]
          <6>1. 1 \in 1..1
            OBVIOUS
          <6> QED BY <4>1, <5>1, <5>2, <5>3, <6>1, Zenon
        <5> QED BY <4>1, <5>1, <5>4
      <4> HIDE DEF v2
      <4>4. \A k \in 1..Len(w) : v2[k] = w[k]
        BY <4>2, <4>3
      <4>5. v2 = w
        BY <4>2, <4>3, <4>4, SeqEqual
      <4> QED BY <4>5 DEF u, v2, w
    <3> QED BY <3>1, <1>10, Zenon
  <2>2. Len(word) = 2 /\ WordAt(word, 1) = v
    BY <2>1 DEF WordAt
  <2> HIDE DEF word, v
  <2>3. next = [r EXCEPT !.dods = Append(@, d), !.scratch = <<>>, !.state = "DOD"]
    <3>1. r.state # "DOD" /\ ~ (Len(word) < 2)
      BY <1>10, <2>2
    <3> QED BY <3>1, <1>10, <2>2, Zenon DEF AcceptByte, word
  <2>4. v \in Int
    BY <1>2 DEF Octet, v
  <2>5. d \in Int
    BY <2>4, UnzigzagIs
  <2>6. Append(r.dods, d) \in B /\ <<>> \in A
    BY <1>4, <2>5
  <2> HIDE DEF A, B, C, d, next
  <2>7. next \in Readers
    BY <1>1, <2>3, <2>6, Zenon
  <2>8. /\ next.state = "DOD" /\ next.inSync = r.inSync /\ next.ready = r.ready
        /\ next.counter = r.counter /\ next.samples = r.samples /\ next.dod = r.dod
        /\ next.dods = Append(r.dods, d)
    BY <1>1, <2>3
  <2> HIDE DEF q
  <2> QED BY <1>3, <2>5, <2>7, <2>8, TakesIs, Zenon DEF d, v
<1> HIDE DEF q
<1> QED BY <1>6, <1>7, <1>8, <1>9, <1>10, ZenonT(40) DEF q

-----------------------------------------------------------------------------
(* The vectors and their codes. *)

LEMMA StillIs == Still \in [Channel -> Int16Range]
<1>1. 0 \in Int16Range
  BY HalfIs, Int16RangeIs
<1> QED BY <1>1, Zenon DEF Still

LEMMA VectorIs ==
  ASSUME NEW fed \in Seq(Samples), NEW n \in Int, n < Len(fed)
  PROVE  /\ Vector(fed, n) \in Samples \union {Still}
         /\ n >= 0 => Vector(fed, n) \in Samples
         /\ Vector(fed, n) \in [Channel -> Int16Range]
<1>1. Samples \subseteq [Channel -> Int16Range]
  BY DaqCodecAssumption, Zenon
<1>2. CASE n >= 0
  <2>1. n + 1 \in 1..Len(fed) /\ Vector(fed, n) = fed[n + 1]
    BY <1>2 DEF Vector
  <2>2. fed[n + 1] \in Samples
    BY <2>1, ElementOfSeq
  <2> QED BY <1>1, <1>2, <2>1, <2>2
<1>3. CASE ~ (n >= 0)
  <2>1. Vector(fed, n) = Still
    BY <1>3 DEF Vector
  <2> QED BY <1>3, <2>1, StillIs
<1> QED BY <1>2, <1>3

(* The state behind a vector; its residuals lead to it from the one before. *)
LEMMA DodBehindIs ==
  ASSUME NEW fed \in Seq(Samples), NEW n \in Int, n < Len(fed)
  PROVE  /\ DodBehind(fed, n) \in ChannelStates
         /\ \A c \in Channel : LET d == DodBehind(fed, n)[c]
                                   b == DodBehind(fed, n - 1)[c]
              IN  /\ d.sample = Vector(fed, n)[c]
                  /\ Residual(fed, n, c) \in Int16Range
                  /\ Residual(fed, n, c) \in Int
                  /\ Int16(Residual(fed, n, c) + b.delta) = d.delta
                  /\ Int16(d.delta + b.sample) = d.sample
<1>1. n \in Int /\ n - 1 \in Int /\ n - 2 \in Int /\ n - 1 < Len(fed) /\ n - 2 < Len(fed)
      /\ (n - 1) - 1 = n - 2
  OBVIOUS
<1> DEFINE x == Vector(fed, n - 2)  y == Vector(fed, n - 1)  z == Vector(fed, n)
           D(c) == Int16(z[c] - y[c])
           B(c) == Int16(y[c] - x[c])
<1>2. x \in [Channel -> Int16Range] /\ y \in [Channel -> Int16Range] /\ z \in [Channel -> Int16Range]
  BY <1>1, VectorIs, Zenon
<1>3. /\ DodBehind(fed, n) = [c \in Channel |-> [sample |-> z[c], delta |-> D(c)]]
      /\ DodBehind(fed, n - 1) = [c \in Channel |-> [sample |-> y[c], delta |-> B(c)]]
  <2>1. Vector(fed, (n - 1) - 1) = x
    BY <1>1
  <2> HIDE DEF x, y, z
  <2> QED BY <2>1, Zenon DEF DodBehind, y, z
<1> HIDE DEF x, y, z
<1>4. ASSUME NEW c \in Channel
      PROVE  /\ D(c) \in Int16Range /\ B(c) \in Int16Range
             /\ Int16(D(c) - B(c)) \in Int16Range /\ Int16(D(c) - B(c)) \in Int
             /\ Int16(Int16(D(c) - B(c)) + B(c)) = D(c)
             /\ Int16(D(c) + y[c]) = z[c]
  <2>1. x[c] \in Int16Range /\ y[c] \in Int16Range /\ z[c] \in Int16Range
    BY <1>2
  <2>2. z[c] - y[c] \in Int /\ y[c] - x[c] \in Int
    BY <2>1, Int16RangeIs
  <2>3. D(c) \in Int16Range /\ B(c) \in Int16Range
    BY <2>2, Int16Is
  <2>4. Int16(D(c) + y[c]) = z[c]
    BY <2>1, Int16Back
  <2> HIDE DEF D, B
  <2>5. Int16(Int16(D(c) - B(c)) + B(c)) = D(c)
    BY <2>3, Int16Back
  <2>6. D(c) - B(c) \in Int
    BY <2>3, Int16RangeIs
  <2>7. Int16(D(c) - B(c)) \in Int16Range /\ Int16(D(c) - B(c)) \in Int
    BY <2>6, Int16Is
  <2> QED BY <2>3, <2>4, <2>5, <2>7
<1> HIDE DEF D, B
<1>5. DodBehind(fed, n) \in ChannelStates
  <2>1. \A c \in Channel : z[c] \in Int16Range /\ D(c) \in Int16Range
    BY <1>2, <1>4
  <2>2. [c \in Channel |-> [sample |-> z[c], delta |-> D(c)]]
          \in [Channel -> [sample : Int16Range, delta : Int16Range]]
    BY <2>1
  <2> QED BY <2>2, <1>3, Zenon DEF ChannelStates
<1>6. ASSUME NEW c \in Channel
      PROVE  /\ DodBehind(fed, n)[c].sample = z[c] /\ DodBehind(fed, n)[c].delta = D(c)
             /\ DodBehind(fed, n - 1)[c].sample = y[c]
             /\ DodBehind(fed, n - 1)[c].delta = B(c)
             /\ Residual(fed, n, c) = Int16(D(c) - B(c))
  <2>1. /\ DodBehind(fed, n)[c].sample = z[c] /\ DodBehind(fed, n)[c].delta = D(c)
        /\ DodBehind(fed, n - 1)[c].sample = y[c]
        /\ DodBehind(fed, n - 1)[c].delta = B(c)
    BY <1>3
  <2> QED BY <2>1, Zenon DEF Residual
<1> QED BY <1>4, <1>5, <1>6, Zenon DEF z

(* Each code has a byte, and no more than a resynchronisation. *)
LEMMA EntryBytes ==
  ASSUME NEW fed \in Seq(Samples), Len(fed) <= MaxSamples,
         NEW e \in Entries, NEW taken, NEW period, EntryIs(e, fed, taken, period)
  PROVE  /\ e.bytes \in Seq(Octet) /\ Len(e.bytes) \in Nat
         /\ 1 <= Len(e.bytes) /\ Len(e.bytes) <= ResyncSize
         /\ e.kind = "resync" => Len(e.bytes) = ResyncSize
<1>1. Channels \in Nat /\ 1 <= Channels /\ ResyncSize = 5 + 4 * Channels /\ ResyncSize \in Nat
  BY ChannelsAre
<1>2. /\ e.kind \in {"resync", "dod", "flush"} /\ e.n \in Int /\ e.block \in Nat
      /\ e.bytes \in Seq(Octet) /\ e.channel \in Channel
  BY DEF Entries
<1>3. e.n < Len(fed) /\ e.n \in Int
  <2>1. e.n \in -1 .. Len(fed) - 1
    BY DEF EntryIs
  <2> QED BY <2>1, <1>2
<1>4. CASE e.kind = "resync"
  <2>1. e.n \in Nat /\ e.n < 2 * Half
    <3>1. e.n = e.block /\ MaxSamples < 2 * Half /\ MaxSamples \in Nat
      BY <1>4, DaqCodecAssumption DEF EntryIs
    <3>2. Half \in Nat
      BY HalfIs
    <3> QED BY <3>1, <3>2, <1>2, <1>3
  <2>2. DodBehind(fed, e.n) \in ChannelStates
    BY <1>3, DodBehindIs
  <2>3. e.bytes = ResyncBytes(e.n, DodBehind(fed, e.n))
    BY <1>4 DEF EntryIs
  <2> DEFINE dod == DodBehind(fed, e.n)
  <2> HIDE DEF dod
  <2>4. Len(ResyncBytes(e.n, dod)) = ResyncSize
    BY <2>1, <2>2, ResyncBytesAre, Zenon DEF dod
  <2>5. Len(e.bytes) = ResyncSize
    BY <2>3, <2>4, Zenon DEF dod
  <2> QED BY <2>5, <1>1, <1>2
<1>5. CASE e.kind = "dod"
  <2> DEFINE d == Residual(fed, e.n, e.channel)
  <2>1. d \in Int16Range
    BY <1>2, <1>3, DodBehindIs, Zenon
  <2>2. e.bytes = EncodeDod(d)
    BY <1>5 DEF EntryIs
  <2> HIDE DEF d
  <2>3. Len(EncodeDod(d)) \in 1..3
    BY <2>1, EncodeDodIs, Zenon
  <2>4. Len(e.bytes) \in 1..3
    BY <2>2, <2>3, Zenon
  <2>5. \A len \in 1..3 : len \in Nat /\ 1 <= len /\ len <= ResyncSize
    BY <1>1
  <2>6. e.kind # "resync"
    BY <1>5
  <2> QED BY <2>4, <2>5, <2>6, <1>2, Zenon
<1>6. CASE e.kind = "flush"
  <2>1. e.bytes = <<254>>
    BY <1>6 DEF EntryIs
  <2> QED BY <2>1, <1>1, <1>2, <1>6
<1> QED BY <1>2, <1>4, <1>5, <1>6

(* r is s and one more element. *)
Longer(r, s, e) ==
  /\ Len(r) = Len(s) + 1
  /\ \A k \in 1..Len(s) : r[k] = s[k]
  /\ r[Len(s) + 1] = e

LEMMA Lengthened ==
  ASSUME NEW S, NEW s \in Seq(S), NEW e \in S
  PROVE  Append(s, e) \in Seq(S) /\ Longer(Append(s, e), s, e)
<1>1. Append(s, e) \in Seq(S) /\ Len(Append(s, e)) = Len(s) + 1
  BY AppendProperties, Zenon
<1>2. ASSUME NEW k \in 1..Len(s) PROVE Append(s, e)[k] = s[k]
  OBVIOUS
<1>3. Append(s, e)[Len(s) + 1] = e
  BY AppendProperties, Zenon
<1> QED BY <1>1, <1>2, <1>3, Zenon DEF Longer

LEMMA CountedSeq ==
  ASSUME NEW S, NEW n \in Nat, NEW g \in [1..n -> S]
  PROVE  g \in Seq(S) /\ Len(g) = n
OBVIOUS

LEMMA AppendNext ==
  ASSUME NEW S, NEW n \in Nat, NEW f \in [1..n -> S], NEW g \in [1 .. n + 1 -> S],
         \A k \in 1..n : f[k] = g[k]
  PROVE  Append(f, g[n + 1]) = g
<1> DEFINE m == n + 1  e == g[m]  r == Append(f, e)
<1>1. m \in Nat /\ m \in 1..m /\ e \in S
  OBVIOUS
<1>2. f \in Seq(S) /\ Len(f) = n
  BY CountedSeq, Zenon
<1>3. g \in Seq(S) /\ Len(g) = m
  <2>1. g \in [1..m -> S]
    OBVIOUS
  <2> HIDE DEF m
  <2> QED BY <1>1, <2>1, CountedSeq, Zenon
<1> HIDE DEF e
<1>4. r \in Seq(S) /\ Longer(r, f, e)
  BY <1>1, <1>2, Lengthened, Zenon
<1> HIDE DEF r
<1>5. Len(r) = m /\ r[m] = g[m] /\ \A k \in 1..n : r[k] = g[k]
  BY <1>2, <1>4, Zenon DEF Longer, e, m
<1>6. ASSUME NEW k \in 1..m PROVE r[k] = g[k]
  <2>1. k \in 1..n \/ k = m
    OBVIOUS
  <2> HIDE DEF m
  <2> QED BY <2>1, <1>5, Zenon
<1> HIDE DEF m
<1>7. r = g
  BY <1>3, <1>4, <1>5, <1>6, SeqEqual, Zenon
<1> QED BY <1>7, Zenon DEF r, e, m

-----------------------------------------------------------------------------
(* The places of the codes. *)

LEMMA Places ==
  ASSUME NEW fed \in Seq(Samples), Len(fed) <= MaxSamples,
         NEW codes \in Seq(Entries), NEW taken, NEW period,
         LogIs(codes, fed, taken, period)
  PROVE  /\ \A j \in 1..Len(codes) :
              /\ codes[j] \in Entries
              /\ codes[j].at \in Nat /\ EndOf(codes[j]) \in Nat
              /\ codes[j].at < EndOf(codes[j])
              /\ Behind(codes, j) = EndOf(codes[j])
              /\ codes[j].at = Behind(codes, j - 1)
         /\ \A j \in 0..Len(codes) :
              /\ Behind(codes, j) \in Nat
              /\ \A l \in 1..Len(codes) :
                   /\ l <= j => EndOf(codes[l]) <= Behind(codes, j)
                   /\ j < l => Behind(codes, j) <= codes[l].at
         /\ \A j, l \in 1..Len(codes) : j < l => EndOf(codes[j]) <= codes[l].at
<1>1. ASSUME NEW j \in 1..Len(codes)
      PROVE  /\ codes[j] \in Entries
             /\ codes[j].at \in Nat /\ EndOf(codes[j]) \in Nat
             /\ codes[j].at < EndOf(codes[j])
  <2>1. codes[j] \in Entries
    BY ElementOfSeq
  <2> DEFINE e == codes[j]
  <2>2. EntryIs(e, fed, taken, period)
    BY DEF LogIs
  <2> HIDE DEF e
  <2>3. e \in Entries
    BY <2>1 DEF e
  <2>4. Len(e.bytes) \in Nat /\ 1 <= Len(e.bytes)
    BY <2>2, <2>3, EntryBytes
  <2>5. e.at \in Nat
    BY <2>3 DEF Entries
  <2>6. EndOf(e) \in Nat /\ e.at < EndOf(e)
    <3> DEFINE x == e.at  y == Len(e.bytes)
    <3>1. x \in Nat /\ y \in Nat /\ 1 <= y /\ EndOf(e) = x + y
      BY <2>4, <2>5 DEF EndOf
    <3> HIDE DEF x, y
    <3> QED BY <3>1 DEF x
  <2> QED BY <2>3, <2>5, <2>6 DEF e
<1>2. ASSUME NEW j \in 1..Len(codes)
      PROVE  Behind(codes, j) = EndOf(codes[j]) /\ codes[j].at = Behind(codes, j - 1)
  <2>1. Behind(codes, j) = EndOf(codes[j])
    BY DEF Behind
  <2>2. CASE j = 1
    <3>1. codes # <<>> /\ j - 1 = 0
      BY <2>2
    <3> QED BY <2>1, <2>2, <3>1 DEF Behind, LogIs
  <2>3. CASE j # 1
    <3>1. j \in 2..Len(codes) /\ j - 1 # 0
      BY <2>3
    <3>2. codes[j].at = EndOf(codes[j - 1])
      BY <3>1 DEF LogIs, Consecutive
    <3> QED BY <2>1, <3>1, <3>2 DEF Behind
  <2> QED BY <2>2, <2>3
<1>3. \A j, l \in 1..Len(codes) : j < l => EndOf(codes[j]) <= codes[l].at
  BY DEF LogIs
<1>4. ASSUME NEW j \in 0..Len(codes)
      PROVE  /\ Behind(codes, j) \in Nat
             /\ \A l \in 1..Len(codes) :
                  /\ l <= j => EndOf(codes[l]) <= Behind(codes, j)
                  /\ j < l => Behind(codes, j) <= codes[l].at
  <2>1. CASE j = 0
    <3>1. Behind(codes, j) = 0
      BY <2>1 DEF Behind
    <3> QED BY <2>1, <3>1, <1>1
  <2>2. CASE j # 0
    <3>1. j \in 1..Len(codes)
      BY <2>2
    <3>2. Behind(codes, j) = EndOf(codes[j]) /\ EndOf(codes[j]) \in Nat
      BY <3>1, <1>1, <1>2
    <3>3. ASSUME NEW l \in 1..Len(codes), l <= j PROVE EndOf(codes[l]) <= EndOf(codes[j])
      <4>1. CASE l = j
        BY <4>1, <3>2
      <4>2. CASE l < j
        <5>1. EndOf(codes[l]) <= codes[j].at
          BY <1>3, <3>1, <4>2
        <5>2. EndOf(codes[l]) \in Nat /\ codes[j].at \in Nat /\ codes[j].at < EndOf(codes[j])
          BY <1>1, <3>1
        <5> QED BY <5>1, <5>2, <3>2
      <4> QED BY <4>1, <4>2, <3>3, <3>1
    <3> QED BY <1>3, <3>1, <3>2, <3>3
  <2> QED BY <2>1, <2>2
<1> QED BY <1>1, <1>2, <1>3, <1>4

-----------------------------------------------------------------------------
(* The reader follows the codes. *)

LEMMA Entry ==
  ASSUME NEW fed \in Seq(Samples), NEW codes \in Seq(Entries), NEW taken, NEW period,
         LogIs(codes, fed, taken, period), NEW j \in 1..Len(codes)
  PROVE  LET e == codes[j]
         IN  /\ EntryIs(e, fed, taken, period)
             /\ e.n \in Int /\ e.n >= -1 /\ e.n < Len(fed) /\ e.block \in Nat
             /\ e.channel \in Nat /\ 1 <= e.channel /\ e.channel <= Channels
             /\ e.channel \in Channel
             /\ e.n >= 0 => e.block <= e.n /\ e.n - e.block <= period
             /\ e.kind \in {"resync", "dod", "flush"}
<1> DEFINE e == codes[j]
<1>1. e \in Entries /\ EntryIs(e, fed, taken, period)
  BY ElementOfSeq DEF LogIs
<1> HIDE DEF e
<1>2. /\ e.n \in Int /\ e.block \in Nat /\ e.channel \in Channel
      /\ e.kind \in {"resync", "dod", "flush"}
  BY <1>1 DEF Entries
<1>3. Len(fed) \in Nat
  OBVIOUS
<1>4. e.n >= -1 /\ e.n < Len(fed)
  BY <1>1, <1>2, <1>3 DEF EntryIs
<1>5. e.channel \in Nat /\ 1 <= e.channel /\ e.channel <= Channels
  BY <1>2, ChannelsAre DEF Channel
<1>6. ASSUME e.n >= 0 PROVE e.block <= e.n /\ e.n - e.block <= period
  <2>1. e.block \in 0 .. e.n /\ e.n - e.block <= period
    BY <1>1, <1>6 DEF EntryIs
  <2> QED BY <2>1, <1>2
<1> QED BY <1>1, <1>2, <1>4, <1>5, <1>6 DEF e

(* Before a residual e, the reader has the vectors and the residuals before *)
(* it.                                                                     *)
ReadyFor(r, e, fed) ==
  /\ r.inSync /\ r.counter = e.block /\ 0 <= e.block /\ e.block < e.n
  /\ r.samples = [k \in 1 .. e.n - e.block |-> Vector(fed, e.block + k - 1)]
  /\ r.dod = DodBehind(fed, e.n - 1)
  /\ r.dods = [c \in 1 .. e.channel - 1 |-> Residual(fed, e.n, c)]

LEMMA BeforeResidual ==
  ASSUME NEW fed \in Seq(Samples), NEW codes \in Seq(Entries), NEW taken, NEW period,
         LogIs(codes, fed, taken, period),
         NEW j \in 0..Len(codes), j < Len(codes), ~Control(codes[j + 1]),
         NEW r, ReaderHas(r, codes, j, fed)
  PROVE  ReadyFor(r, codes[j + 1], fed)
<1> DEFINE e == codes[j + 1]  d == codes[j]
<1>1. j + 1 \in 1..Len(codes) /\ j # 0
  <2>1. j + 1 \in 1..Len(codes)
    OBVIOUS
  <2>2. ASSUME j = 0 PROVE FALSE
    <3>1. j + 1 = 1 /\ codes # <<>>
      BY <2>1, <2>2
    <3> QED BY <3>1 DEF LogIs
  <2> QED BY <2>1, <2>2
<1>2. j + 1 \in 2..Len(codes) /\ j \in 1..Len(codes) /\ (j + 1) - 1 = j /\ j > 0
  BY <1>1
<1>3. Consecutive(d, e)
  BY <1>2, Zenon DEF LogIs
<1>4. /\ EntryIs(e, fed, taken, period) /\ e.n \in Int /\ e.block \in Nat
      /\ e.channel \in Nat /\ 1 <= e.channel /\ e.channel <= Channels
      /\ e.kind \in {"resync", "dod", "flush"}
  BY <1>1, Entry
<1>5. /\ d.n \in Int /\ d.block \in Nat /\ d.channel \in Nat /\ 1 <= d.channel
      /\ d.channel <= Channels /\ d.channel \in Nat
  BY <1>2, Entry, Zenon
<1>c. Channels \in Nat
  BY ChannelsAre
<1>6. e.kind = "dod"
  BY <1>4, Zenon DEF Control
<1> HIDE DEF e, d
<1>7. /\ d.n >= 0 /\ e.block = d.block /\ e.n > e.block
      /\ e.channel = 1 => d.channel = Channels /\ d.n = e.n - 1
      /\ e.channel > 1 => d.channel = e.channel - 1 /\ d.n = e.n
  BY <1>3, <1>4, <1>6 DEF Consecutive, EntryIs
<1>8. /\ r.inSync /\ r.counter = d.block /\ r.samples = Rebuilt(d, fed)
      /\ r.dod = DodBehind(fed, LastWhole(d)) /\ r.dods = Pending(d, fed)
  <2>1. r.inSync
    BY <1>2, <1>7, Zenon DEF ReaderHas, d
  <2> QED BY <2>1, Zenon DEF ReaderHas, d
<1>9. LastWhole(d) = e.n - 1 /\ Pending(d, fed) = [c \in 1 .. e.channel - 1 |-> Residual(fed, e.n, c)]
  <2>1. CASE e.channel = 1
    <3>1. LastWhole(d) = e.n - 1
      BY <1>7, <2>1 DEF LastWhole
    <3>2. 1 .. (IF d.channel = Channels THEN 0 ELSE d.channel) = 1 .. e.channel - 1
          /\ 1 .. e.channel - 1 = {}
      BY <1>7, <2>1
    <3>3. Pending(d, fed) = [c \in {} |-> Residual(fed, d.n, c)]
      BY <3>2, Zenon DEF Pending
    <3>4. [c \in {} |-> Residual(fed, d.n, c)] = [c \in {} |-> Residual(fed, e.n, c)]
      OBVIOUS
    <3> QED BY <3>1, <3>2, <3>3, <3>4, Zenon
  <2>2. CASE e.channel # 1
    <3>1. /\ d.channel = e.channel - 1 /\ d.n = e.n /\ d.channel # Channels
      BY <1>4, <1>5, <1>7, <1>c, <2>2
    <3>2. LastWhole(d) = e.n - 1
      BY <3>1, Zenon DEF LastWhole
    <3>3. (IF d.channel = Channels THEN 0 ELSE d.channel) = e.channel - 1
      BY <3>1, Zenon
    <3>4. Pending(d, fed) = [c \in 1 .. e.channel - 1 |-> Residual(fed, e.n, c)]
      BY <3>1, <3>3, Zenon DEF Pending
    <3> QED BY <3>2, <3>4
  <2> QED BY <2>1, <2>2
<1>10. Rebuilt(d, fed) = [k \in 1 .. e.n - e.block |-> Vector(fed, e.block + k - 1)]
  <2>1. LastWhole(d) - d.block + 1 = e.n - e.block
    BY <1>4, <1>7, <1>9
  <2> QED BY <2>1, <1>7, Zenon DEF Rebuilt
<1>11. 0 <= e.block /\ e.block < e.n
  BY <1>4, <1>7
<1>12. ReadyFor(r, e, fed)
  BY <1>7, <1>8, <1>9, <1>10, <1>11, Zenon DEF ReadyFor
<1> QED BY <1>12, Zenon DEF e

LEMMA BehindResidual ==
  ASSUME BlockSuffices, NEW fed \in Seq(Samples), NEW codes \in Seq(Entries), NEW taken,
         NEW period \in SyncPeriods, LogIs(codes, fed, taken, period),
         NEW j \in 0..Len(codes), j < Len(codes), ~Control(codes[j + 1]),
         NEW r, ReaderHas(r, codes, j, fed),
         NEW q, Takes(q, r, Residual(fed, codes[j + 1].n, codes[j + 1].channel))
  PROVE  /\ ReaderHas(q, codes, j + 1, fed) /\ q.state = "DOD"
         /\ q.inSync = r.inSync /\ q.counter = r.counter
<1> DEFINE e == codes[j + 1]
           n == e.n
           m == e.channel - 1
           sofar == [c \in 1..m |-> Residual(fed, n, c)]
           ds == [c \in 1 .. m + 1 |-> Residual(fed, n, c)]
           len == n - e.block
           had == [k \in 1..len |-> Vector(fed, e.block + k - 1)]
           has == [k \in 1 .. len + 1 |-> Vector(fed, e.block + k - 1)]
           V == [Channel -> Int16Range]
<1>1. j + 1 \in 1..Len(codes) /\ j + 1 > 0
  OBVIOUS
<1>2. /\ n \in Int /\ n < Len(fed) /\ e.block \in Nat
      /\ e.channel \in Nat /\ 1 <= e.channel /\ e.channel <= Channels
      /\ e.channel \in Channel
      /\ (n >= 0 => n - e.block <= period)
  BY <1>1, Entry
<1>3. /\ r.inSync /\ r.counter = e.block /\ 0 <= e.block /\ e.block < n
      /\ r.samples = had /\ r.dod = DodBehind(fed, n - 1) /\ r.dods = sofar
  <2>1. ReadyFor(r, e, fed)
    BY BeforeResidual, Zenon
  <2> HIDE DEF e
  <2> QED BY <2>1, Zenon DEF ReadyFor
<1>c. Channels \in Nat /\ 1 <= Channels
  BY ChannelsAre
<1>4. /\ Takes(q, r, Residual(fed, n, e.channel)) /\ e.channel = m + 1 /\ m \in Nat
      /\ len \in Nat /\ n >= 0
  BY <1>2, <1>3, SMTT(30)
<1>5. \A c \in Channel : Residual(fed, n, c) \in Int
  BY <1>2, DodBehindIs, Zenon
<1>6. sofar \in [1..m -> Int] /\ ds \in [1 .. m + 1 -> Int]
      /\ ds[m + 1] = Residual(fed, n, e.channel)
      /\ (\A c \in 1..m : sofar[c] = ds[c]) /\ (\A c \in 1 .. m + 1 : ds[c] = Residual(fed, n, c))
  <2>1. \A c \in 1..m : c \in Channel /\ c \in 1 .. m + 1
    BY <1>2, <1>c DEF Channel
  <2>2. \A c \in 1 .. m + 1 : c \in Channel
    BY <1>2, <1>c DEF Channel
  <2>3. m + 1 \in 1 .. m + 1
    BY <1>4
  <2> QED BY <2>1, <2>2, <2>3, <1>4, <1>5, Zenon
<1>7. ASSUME NEW k \in 1 .. len + 1 PROVE Vector(fed, e.block + k - 1) \in V
  <2>1. n \in Int /\ n < Len(fed) /\ e.block \in Nat /\ len = n - e.block /\ Len(fed) \in Nat
        /\ k \in 1 .. len + 1
    BY <1>2
  <2> DEFINE b == e.block  total == Len(fed)
  <2> HIDE DEF n, b, len, total
  <2>2. b + k - 1 \in Int /\ b + k - 1 < total
    BY <2>1, SMTT(30) DEF b, total
  <2> QED BY <2>2, VectorIs, Zenon DEF b, total
<1>8. had \in [1..len -> V] /\ has \in [1 .. len + 1 -> V]
      /\ has[len + 1] = Vector(fed, n) /\ \A k \in 1..len : had[k] = has[k]
  <2>1. len + 1 \in 1 .. len + 1 /\ e.block + (len + 1) - 1 = n /\ \A k \in 1..len : k \in 1 .. len + 1
    BY <1>2, <1>4, SMTT(30)
  <2> HIDE DEF len, V
  <2> QED BY <2>1, <1>7
<1>9. /\ q \in Readers /\ q.state = "DOD" /\ q.inSync = r.inSync /\ q.ready = r.ready
      /\ q.counter = r.counter /\ ~r.ready
  BY Zenon DEF Takes, ReaderHas
<1>10. Append(r.dods, Residual(fed, n, e.channel)) = ds /\ Len(r.dods) = m
  <2> HIDE DEF sofar, ds, m, n
  <2>1. Append(sofar, ds[m + 1]) = ds
    BY <1>4, <1>6, AppendNext, ZenonT(40)
  <2>2. Len(sofar) = m
    BY <1>4, <1>6, CountedSeq, Zenon
  <2> QED BY <2>1, <2>2, <1>3, <1>6, Zenon
<1>11. Append(r.samples, Vector(fed, n)) = has /\ Len(r.samples) = len
  <2> HIDE DEF had, has, len, n, V
  <2>1. Append(had, has[len + 1]) = has
    BY <1>4, <1>8, AppendNext, ZenonT(40)
  <2>2. Len(had) = len
    BY <1>4, <1>8, CountedSeq, Zenon
  <2> QED BY <2>1, <2>2, <1>3, <1>8, Zenon
<1>12. Len(r.dods) + 1 = e.channel
  BY <1>10, <1>4
<1>13. CASE e.channel # Channels
  <2>1. q.samples = r.samples /\ q.dod = r.dod /\ q.dods = ds
    <3>1. Len(r.dods) + 1 # Channels
      BY <1>12, <1>13
    <3> HIDE DEF ds
    <3> QED BY <3>1, <1>4, <1>10, Zenon DEF Takes
  <2>2. LastWhole(e) = n - 1 /\ LastWhole(e) - e.block + 1 = len
    BY <1>2, <1>13 DEF LastWhole
  <2>3. q.samples = Rebuilt(e, fed)
    BY <2>1, <2>2, <1>3, Zenon DEF Rebuilt
  <2>4. q.dods = Pending(e, fed)
    <3>1. (IF e.channel = Channels THEN 0 ELSE e.channel) = m + 1
      BY <1>4, <1>13, Zenon
    <3> QED BY <3>1, <2>1, Zenon DEF Pending
  <2>5. q.dod = DodBehind(fed, LastWhole(e))
    BY <2>1, <2>2, <1>3, Zenon
  <2> HIDE DEF ds, n, len
  <2> QED BY <1>1, <1>3, <1>4, <1>9, <2>3, <2>4, <2>5, Zenon DEF ReaderHas, n
<1>14. CASE e.channel = Channels
  <2>1. Len(r.samples) < BlockCapacity
    <3>1. period < BlockCapacity /\ period \in Int /\ BlockCapacity \in Int
      BY DaqCodecAssumption DEF BlockSuffices
    <3>2. len <= period
      BY <1>2, <1>4
    <3> QED BY <3>1, <3>2, <1>4, <1>11
  <2> DEFINE dod == After(r, ds)
  <2>2. /\ q.samples = Append(r.samples, [c \in Channel |-> dod[c].sample])
        /\ q.dod = dod /\ q.dods = <<>>
    <3>1. Len(r.dods) + 1 = Channels
      BY <1>12, <1>14
    <3> HIDE DEF ds
    <3> QED BY <2>1, <3>1, <1>4, <1>10, Zenon DEF Takes
  <2>3. dod = DodBehind(fed, n) /\ [c \in Channel |-> dod[c].sample] = Vector(fed, n)
    <3> DEFINE b == DodBehind(fed, n - 1)  d == DodBehind(fed, n)
    <3>1. ASSUME NEW c \in Channel
          PROVE  /\ d[c].sample = Vector(fed, n)[c]
                 /\ Int16(ds[c] + b[c].delta) = d[c].delta
                 /\ Int16(d[c].delta + b[c].sample) = d[c].sample
      <4>1. c \in 1 .. m + 1
        BY <1>2, <1>4, <1>14 DEF Channel
      <4>2. ds[c] = Residual(fed, n, c)
        BY <4>1
      <4> HIDE DEF ds, n
      <4>3. LET f == DodBehind(fed, n)[c]
                g == DodBehind(fed, n - 1)[c]
            IN  /\ f.sample = Vector(fed, n)[c]
                /\ Int16(Residual(fed, n, c) + g.delta) = f.delta
                /\ Int16(f.delta + g.sample) = f.sample
        BY <1>2, DodBehindIs, Zenon
      <4> QED BY <4>2, <4>3, Zenon
    <3>2. d \in ChannelStates
      BY <1>2, DodBehindIs, Zenon
    <3>3. Vector(fed, n) \in V
      BY <1>2, VectorIs, Zenon
    <3> HIDE DEF ds, n, m, V
    <3>4. dod = [c \in Channel |-> LET delta == Int16(ds[c] + b[c].delta)
                                   IN  [sample |-> Int16(delta + b[c].sample), delta |-> delta]]
      BY <1>3, Zenon DEF After
    <3> HIDE DEF b
    <3>5. d = [c \in Channel |-> [sample |-> d[c].sample, delta |-> d[c].delta]]
      <4> HIDE DEF d
      <4> QED BY <3>2 DEF ChannelStates
    <3> HIDE DEF d, dod
    <3>6. dod = d
      BY <3>1, <3>4, <3>5, Zenon
    <3>7. [c \in Channel |-> dod[c].sample] = Vector(fed, n)
      <4>1. [c \in Channel |-> dod[c].sample] = [c \in Channel |-> Vector(fed, n)[c]]
        BY <3>1, <3>6, Zenon
      <4>2. Vector(fed, n) = [c \in Channel |-> Vector(fed, n)[c]]
        BY <3>3, Zenon DEF V
      <4> QED BY <4>1, <4>2, Zenon
    <3> QED BY <3>6, <3>7, Zenon DEF d
  <2>4. LastWhole(e) = n /\ LastWhole(e) - e.block + 1 = len + 1
    BY <1>2, <1>14 DEF LastWhole
  <2>5. q.samples = Rebuilt(e, fed)
    <3>1. has = Rebuilt(e, fed)
      BY <2>4, Zenon DEF Rebuilt
    <3> HIDE DEF has
    <3> QED BY <3>1, <2>2, <2>3, <1>11, Zenon
  <2>6. q.dods = Pending(e, fed)
    <3>1. (IF e.channel = Channels THEN 0 ELSE e.channel) = 0
      BY <1>14, Zenon
    <3>2. 1..0 = {}
      OBVIOUS
    <3>3. Pending(e, fed) = [c \in {} |-> Residual(fed, e.n, c)]
      BY <3>1, <3>2, Zenon DEF Pending
    <3>4. [c \in {} |-> Residual(fed, e.n, c)] = <<>>
      OBVIOUS
    <3> QED BY <2>2, <3>3, <3>4
  <2>7. q.dod = DodBehind(fed, LastWhole(e))
    BY <2>2, <2>3, <2>4, Zenon
  <2> HIDE DEF ds, dod, n, len
  <2> QED BY <1>1, <1>3, <1>4, <1>9, <2>5, <2>6, <2>7, Zenon DEF ReaderHas, n
<1> QED BY <1>13, <1>14

(* With each byte of its code, the reader takes the residual or goes on    *)
(* waiting for the rest.                                                   *)
LEMMA ByteOfResidual ==
  ASSUME NEW r \in Readers, Len(r.dods) < Channels,
         NEW e, ~Control(e), NEW d \in Int16Range, d \notin Misread,
         e.bytes = EncodeDod(d),
         NEW k \in 0..2, k < Len(e.bytes),
         k = 0 => r.state = "DOD", k > 0 => ReaderWithin(r, e, k)
  PROVE  LET q == DecodeByte(r, e.bytes[k + 1])
         IN  \/ Takes(q, r, d) /\ k + 1 = Len(e.bytes)
             \/ Waits(q, r) /\ ReaderWithin(q, e, k + 1)
<1> DEFINE b == e.bytes
           byte == b[k + 1]
           q == DecodeByte(r, byte)
<1>1. /\ b \in Seq(Octet) /\ Len(b) \in 1..3
      /\ \/ Len(b) = 1 /\ b[1] \in 0..240 /\ Unzigzag(b[1]) = d
         \/ /\ Len(b) = 2 /\ b[1] \in 241..247
            /\ Unzigzag(256 * (b[1] - 240) + b[2]) = d
         \/ Len(b) = 3 /\ b[1] = 254 /\ Unzigzag(256 * b[2] + b[3]) = d
  <2> DEFINE c == EncodeDod(d)
  <2>1. /\ c \in Seq(Octet) /\ Len(c) \in 1..3
        /\ \/ Len(c) = 1 /\ c[1] \in 0..240 /\ Unzigzag(c[1]) = d
           \/ /\ Len(c) = 2 /\ c[1] \in 241..247
              /\ Unzigzag(256 * (c[1] - 240) + c[2]) = d
           \/ Len(c) = 3 /\ c[1] = 254 /\ Unzigzag(256 * c[2] + c[3]) = d
    BY EncodeDodIs, ZenonT(40)
  <2>2. b = c
    OBVIOUS
  <2> HIDE DEF b, c
  <2> QED BY <2>1, <2>2, ZenonT(40)
<1>2. /\ k = 0 => r.state = "DOD"
      /\ k > 0 => /\ r.state = "WORD"
                  /\ r.scratch = IF Len(b) = 2 THEN <<b[1] - 240>>
                                 ELSE IF k = 1 THEN <<>> ELSE <<b[2]>>
  BY Zenon DEF ReaderWithin
<1>3. k < Len(b)
  OBVIOUS
<1>4. ASSUME NEW x, x.state = "WORD"
      PROVE  /\ k = 0 /\ Len(b) = 2 /\ x.scratch = <<b[1] - 240>> => ReaderWithin(x, e, k + 1)
             /\ k = 0 /\ Len(b) = 3 /\ x.scratch = <<>> => ReaderWithin(x, e, k + 1)
             /\ k = 1 /\ Len(b) = 3 /\ x.scratch = <<b[2]>> => ReaderWithin(x, e, k + 1)
  <2>1. ASSUME k = 0, Len(b) = 2, x.scratch = <<b[1] - 240>> PROVE ReaderWithin(x, e, k + 1)
    <3>1. k + 1 < Len(b)
      BY <2>1
    <3> QED BY <2>1, <3>1, <1>4, Zenon DEF ReaderWithin
  <2>2. ASSUME k = 0, Len(b) = 3, x.scratch = <<>> PROVE ReaderWithin(x, e, k + 1)
    <3>1. k + 1 < Len(b) /\ Len(b) # 2 /\ k + 1 = 1
      BY <2>2
    <3> QED BY <2>2, <3>1, <1>4, Zenon DEF ReaderWithin
  <2>3. ASSUME k = 1, Len(b) = 3, x.scratch = <<b[2]>> PROVE ReaderWithin(x, e, k + 1)
    <3>1. k + 1 < Len(b) /\ Len(b) # 2 /\ k + 1 # 1
      BY <2>3
    <3> QED BY <2>3, <3>1, <1>4, Zenon DEF ReaderWithin
  <2> QED BY <2>1, <2>2, <2>3, Zenon
<1> HIDE DEF b
<1>5. byte \in Octet
  <2>1. k + 1 \in 1..Len(b)
    BY <1>1, <1>3
  <2> QED BY <2>1, <1>1, ElementOfSeq
<1> HIDE DEF byte
<1>6. /\ r.state = "DOD" /\ byte \in 0..240 => Takes(q, r, Unzigzag(byte))
      /\ r.state = "DOD" /\ byte \in 241..247 =>
           Waits(q, r) /\ q.state = "WORD" /\ q.scratch = <<byte - 240>>
      /\ r.state = "DOD" /\ byte = 254 =>
           Waits(q, r) /\ q.state = "WORD" /\ q.scratch = <<>>
      /\ r.state = "WORD" /\ r.scratch = <<>> =>
           Waits(q, r) /\ q.state = "WORD" /\ q.scratch = <<byte>>
      /\ \A h \in Octet : r.state = "WORD" /\ r.scratch = <<h>> =>
           Takes(q, r, Unzigzag(256 * h + byte))
  BY <1>5, DecodeByteIs, ZenonT(40)
<1> HIDE DEF q
<1>7. (Takes(q, r, d) /\ k + 1 = Len(b)) \/ (Waits(q, r) /\ ReaderWithin(q, e, k + 1))
  <2>1. CASE k = 0
    <3>1. byte = b[1] /\ k + 1 = 1 /\ r.state = "DOD"
      BY <2>1, <1>2 DEF byte
    <3>2. CASE Len(b) = 1
      <4>1. b[1] \in 0..240 /\ Unzigzag(b[1]) = d
        BY <1>1, <3>2
      <4> QED BY <4>1, <3>1, <3>2, <1>6, Zenon
    <3>3. CASE Len(b) = 2
      <4>1. b[1] \in 241..247 /\ 1 < Len(b)
        BY <1>1, <3>3
      <4>2. Waits(q, r) /\ q.state = "WORD" /\ q.scratch = <<b[1] - 240>>
        BY <4>1, <3>1, <1>6, Zenon
      <4> QED BY <4>2, <2>1, <3>3, <1>4, Zenon
    <3>4. CASE Len(b) = 3
      <4>1. b[1] = 254 /\ 1 < Len(b) /\ Len(b) # 2
        BY <1>1, <3>4
      <4>2. Waits(q, r) /\ q.state = "WORD" /\ q.scratch = <<>>
        BY <4>1, <3>1, <1>6, Zenon
      <4> QED BY <4>2, <2>1, <3>4, <1>4, Zenon
    <3> QED BY <3>2, <3>3, <3>4, <1>1
  <2>2. CASE k = 1
    <3>1. byte = b[2] /\ k + 1 = 2 /\ k > 0
      BY <2>2 DEF byte
    <3>2. CASE Len(b) = 2
      <4>1. b[1] \in 241..247 /\ Unzigzag(256 * (b[1] - 240) + b[2]) = d
        BY <1>1, <3>2
      <4>2. b[1] - 240 \in Octet
        BY <4>1 DEF Octet
      <4>3. r.state = "WORD" /\ r.scratch = <<b[1] - 240>>
        BY <3>1, <3>2, <1>2, Zenon
      <4>4. Takes(q, r, Unzigzag(256 * (b[1] - 240) + byte))
        BY <4>2, <4>3, <1>6, ZenonT(40)
      <4> QED BY <4>1, <4>4, <3>1, <3>2, ZenonT(40)
    <3>3. CASE Len(b) = 3
      <4>1. 2 < Len(b) /\ Len(b) # 2 /\ 2 # 1
        BY <3>3
      <4>2. r.state = "WORD" /\ r.scratch = <<>>
        BY <4>1, <2>2, <3>1, <1>2, Zenon
      <4>3. Waits(q, r) /\ q.state = "WORD" /\ q.scratch = <<b[2]>>
        BY <4>2, <3>1, <1>6, Zenon
      <4> QED BY <4>3, <2>2, <3>3, <1>4, Zenon
    <3>4. Len(b) # 1
      <4>1. \A x \in 1..3 : k < x => x # 1
        BY <2>2
      <4> QED BY <4>1, <1>1, <1>3, Zenon
    <3> QED BY <3>2, <3>3, <3>4, <1>1
  <2>3. CASE k = 2
    <3>0. Len(b) = 3
      <4>1. \A x \in 1..3 : k < x => x = 3
        BY <2>3
      <4> QED BY <4>1, <1>1, <1>3, Zenon
    <3>1. byte = b[3] /\ k + 1 = 3 /\ k > 0 /\ Len(b) = 3 /\ k # 1 /\ Len(b) # 2
      BY <2>3, <3>0 DEF byte
    <3>2. Unzigzag(256 * b[2] + b[3]) = d /\ b[2] \in Octet
      <4>1. 2 \in 1..Len(b) /\ Len(b) # 1
        BY <3>1
      <4>2. b[2] \in Octet
        <5>1. b \in Seq(Octet)
          BY <1>1
        <5> QED BY <4>1, <5>1, ElementOfSeq
      <4>3. Unzigzag(256 * b[2] + b[3]) = d
        BY <4>1, <3>1, <1>1, Zenon
      <4> QED BY <4>2, <4>3
    <3>3. r.state = "WORD" /\ r.scratch = <<b[2]>>
      BY <3>1, <1>2, Zenon
    <3> QED BY <3>1, <3>2, <3>3, <1>6, ZenonT(40)
  <2> QED BY <2>1, <2>2, <2>3
<1> QED BY <1>7, Zenon DEF q, byte, b

(* The byte behind a place is that of the codes, and no control code.      *)
HasByte(codes, place, byte) ==
  \A j \in 1..Len(codes) :
    /\ Control(codes[j]) => codes[j].at # place
    /\ \A k \in 1..Len(codes[j].bytes) :
         codes[j].at + k = place + 1 => byte = codes[j].bytes[k]

(* The reader goes from r to q in the same block, and has come to a place. *)
Follows(q, r, codes, fed, place) ==
  ReaderAt(q, place, codes, fed) /\ q.inSync = r.inSync /\ q.counter = r.counter

(* The reader takes any byte of a residual. *)
LEMMA ByteRead ==
  ASSUME BlockSuffices,
         NEW fed \in Seq(Samples), Len(fed) <= MaxSamples,
         NEW codes \in Seq(Entries), NEW taken, NEW period \in SyncPeriods,
         LogIs(codes, fed, taken, period), AgreedOn(codes, fed),
         NEW r, NEW place \in Nat, ReaderAt(r, place, codes, fed),
         place < Behind(codes, Len(codes)),
         NEW byte, HasByte(codes, place, byte)
  PROVE  Follows(DecodeByte(r, byte), r, codes, fed, place + 1)
<1> DEFINE q == DecodeByte(r, byte)
<1>1. PICK j \in 0..Len(codes), k \in 0..2 :
        /\ ReaderHas(r, codes, j, fed)
        /\ place = Behind(codes, j) + k
        /\ k = 0 => r.state = "DOD"
        /\ k > 0 => j < Len(codes) /\ ReaderWithin(r, codes[j + 1], k)
  BY Zenon DEF ReaderAt
<1> DEFINE e == codes[j + 1]  d == Residual(fed, e.n, e.channel)
<1>2. j < Len(codes) /\ Len(codes) \in Nat
  <2>1. CASE k = 0
    <3>1. Behind(codes, j) = place /\ place # Behind(codes, Len(codes))
      <4>1. Behind(codes, j) \in Nat /\ Behind(codes, Len(codes)) \in Nat
        BY Places
      <4> QED BY <4>1, <1>1, <2>1
    <3>2. j # Len(codes)
      BY <3>1
    <3> QED BY <3>2
  <2>2. CASE k # 0
    BY <2>2, <1>1
  <2> QED BY <2>1, <2>2
<1>3. j + 1 \in 1..Len(codes) /\ (j + 1) - 1 = j
  BY <1>2
<1>4. /\ e \in Entries /\ e.at \in Nat /\ e.at = Behind(codes, j)
      /\ EndOf(e) = Behind(codes, j + 1)
  <2>1. codes[j + 1].at = Behind(codes, (j + 1) - 1)
    BY <1>3, Places, Zenon
  <2> QED BY <2>1, <1>3, Places
<1>5. /\ EntryIs(e, fed, taken, period) /\ e.n \in Int /\ e.n < Len(fed) /\ e.block \in Nat
      /\ e.channel \in Channel /\ e.channel \in Nat /\ e.channel <= Channels
      /\ e.kind \in {"resync", "dod", "flush"}
  BY <1>3, Entry
<1>6. Len(e.bytes) \in Nat /\ 1 <= Len(e.bytes) /\ EndOf(e) = e.at + Len(e.bytes)
  <2> HIDE DEF e
  <2> QED BY <1>4, <1>5, EntryBytes, Zenon DEF EndOf
<1>7. ~Control(e)
  <2>1. CASE k = 0
    <3>1. place = e.at
      BY <2>1, <1>1, <1>4
    <3> QED BY <3>1, <1>3, Zenon DEF HasByte
  <2>2. CASE k # 0
    <3>1. ReaderWithin(r, e, k)
      BY <2>2, <1>1
    <3> HIDE DEF e
    <3> QED BY <3>1, Zenon DEF ReaderWithin
  <2> QED BY <2>1, <2>2
<1>8. k < Len(e.bytes)
  <2>1. CASE k = 0
    BY <2>1, <1>6
  <2>2. CASE k # 0
    <3>1. ReaderWithin(r, e, k)
      BY <2>2, <1>1
    <3> HIDE DEF e
    <3> QED BY <3>1, Zenon DEF ReaderWithin
  <2> QED BY <2>1, <2>2
<1>9. ReadyFor(r, e, fed)
  BY <1>1, <1>2, <1>7, BeforeResidual, Zenon
<1>10. byte = e.bytes[k + 1]
  <2>1. k + 1 \in 1..Len(e.bytes)
    BY <1>6, <1>8
  <2>2. e.at + (k + 1) = place + 1
    BY <1>1, <1>4
  <2> QED BY <2>1, <2>2, <1>3, Zenon DEF HasByte
<1>11. /\ d \in Int16Range /\ d \notin Misread /\ e.bytes = EncodeDod(d) /\ d \in Int
       /\ e.n \in Nat \ {0}
  <2>0. e.kind = "dod" => d \notin Misread
    <3> SUFFICES ASSUME codes[j + 1].kind = "dod"
                 PROVE  Residual(fed, codes[j + 1].n, codes[j + 1].channel) \notin Misread
      OBVIOUS
    <3> QED BY <1>3, Zenon DEF AgreedOn
  <2> HIDE DEF e
  <2>1. e.kind = "dod"
    BY <1>5, <1>7, Zenon DEF Control
  <2>2. e.n > e.block /\ e.bytes = EncodeDod(d)
    BY <2>1, <1>5, Zenon DEF EntryIs
  <2>3. e.n \in Nat \ {0}
    BY <2>2, <1>5
  <2>4. d \in Int16Range /\ d \in Int
    BY <1>5, DodBehindIs, Zenon
  <2>5. d \notin Misread
    BY <2>0, <2>1
  <2> QED BY <2>2, <2>3, <2>4, <2>5
<1>12. r \in Readers /\ Len(r.dods) < Channels
  <2>1. r \in Readers
    BY <1>1, Zenon DEF ReaderHas
  <2> DEFINE m == e.channel - 1
  <2>2. r.dods = [c \in 1..m |-> Residual(fed, e.n, c)]
    <3> HIDE DEF e
    <3> QED BY <1>9, Zenon DEF ReadyFor
  <2>3. m \in Nat /\ m < Channels
    <3>1. e.channel \in Nat /\ 1 <= e.channel /\ Channels \in Nat
      BY <1>3, Entry, ChannelsAre
    <3> QED BY <3>1, <1>5, SMTT(30)
  <2> HIDE DEF m, e
  <2>4. Len(r.dods) = m
    BY <2>2, <2>3
  <2> QED BY <2>1, <2>3, <2>4
<1>13. (Takes(q, r, d) /\ k + 1 = Len(e.bytes)) \/ (Waits(q, r) /\ ReaderWithin(q, e, k + 1))
  <2> HIDE DEF e, d
  <2>1. k > 0 => ReaderWithin(r, e, k)
    BY <1>1 DEF e
  <2> QED BY <2>1, <1>1, <1>7, <1>8, <1>10, <1>11, <1>12, ByteOfResidual, Zenon
<1>14. CASE Takes(q, r, d) /\ k + 1 = Len(e.bytes)
  <2>1. /\ ReaderHas(q, codes, j + 1, fed) /\ q.state = "DOD"
        /\ q.inSync = r.inSync /\ q.counter = r.counter
    <3> HIDE DEF q
    <3>1. ReaderHas(r, codes, j, fed) /\ j < Len(codes) /\ ~Control(codes[j + 1])
      BY <1>1, <1>2, <1>7
    <3>2. Takes(q, r, Residual(fed, codes[j + 1].n, codes[j + 1].channel))
      BY <1>14
    <3> QED BY <3>1, <3>2, BehindResidual
  <2>2. place + 1 = Behind(codes, j + 1) + 0 /\ j + 1 \in 0..Len(codes) /\ 0 \in 0..2 /\ ~ (0 > 0)
    <3> DEFINE x == e.at  y == Len(e.bytes)  z == Behind(codes, j + 1)
    <3>1. x \in Nat /\ z = x + y /\ place = x + k /\ k + 1 = y
      BY <1>1, <1>4, <1>6, <1>14, Zenon
    <3> HIDE DEF x, y, z
    <3>2. place + 1 = z + 0 /\ 0 \in 0..2 /\ ~ (0 > 0)
      BY <3>1
    <3>3. j + 1 \in 0..Len(codes)
      BY <1>3
    <3> QED BY <3>2, <3>3, Zenon DEF z
  <2> HIDE DEF q
  <2>3. ReaderAt(q, place + 1, codes, fed)
    BY <2>1, <2>2, Zenon DEF ReaderAt
  <2> QED BY <2>1, <2>3, Zenon DEF q, Follows
<1>15. CASE Waits(q, r) /\ ReaderWithin(q, e, k + 1)
  <2> HIDE DEF q
  <2>1. /\ ReaderHas(q, codes, j, fed) /\ q.inSync = r.inSync /\ q.counter = r.counter
    BY <1>1, <1>15, Zenon DEF Waits, ReaderHas
  <2>2. k + 1 < Len(e.bytes)
    <3> HIDE DEF e
    <3> QED BY <1>15, Zenon DEF ReaderWithin
  <2>3. k + 1 \in 0..2 /\ k + 1 # 0
    <3>1. Len(e.bytes) \in 1..3
      <4> HIDE DEF e, d
      <4> QED BY <1>11, EncodeDodIs, Zenon
    <3>2. \A x \in 1..3 : k + 1 < x => k + 1 \in 0..2 /\ k + 1 # 0
      OBVIOUS
    <3> HIDE DEF e
    <3> QED BY <3>1, <3>2, <2>2, Zenon
  <2>4. place + 1 = Behind(codes, j) + (k + 1)
    <3>1. Behind(codes, j) \in Nat
      BY <1>4
    <3> QED BY <3>1, <1>1
  <2>5. ReaderAt(q, place + 1, codes, fed)
    BY <2>1, <2>3, <2>4, <1>2, <1>15, Zenon DEF ReaderAt
  <2> QED BY <2>1, <2>5, Zenon DEF q, Follows
<1> QED BY <1>13, <1>14, <1>15

(* The reader takes any piece of residuals. *)
LEMMA BytesRead ==
  ASSUME BlockSuffices,
         NEW fed \in Seq(Samples), Len(fed) <= MaxSamples,
         NEW codes \in Seq(Entries), NEW taken, NEW period \in SyncPeriods,
         LogIs(codes, fed, taken, period), AgreedOn(codes, fed),
         NEW r, NEW place \in Nat, ReaderAt(r, place, codes, fed),
         NEW bytes \in Seq(Octet), place + Len(bytes) <= Behind(codes, Len(codes)),
         Shows(bytes, codes, place),
         \A j \in 1..Len(codes) :
           Control(codes[j]) => codes[j].at < place \/ codes[j].at >= place + Len(bytes)
  PROVE  Follows(DecodeBytes(r, bytes), r, codes, fed, place + Len(bytes))
<1> DEFINE n == Len(bytes)
           Come(s, k) == Follows(s, r, codes, fed, place + k)
           Steps(g, k) == g[k] = DecodeByte(g[k - 1], bytes[k])
           Is(g) == g = [k \in 0..n |-> IF k = 0 THEN r ELSE DecodeByte(g[k - 1], bytes[k])]
<1>1. n \in Nat
  OBVIOUS
<1>2. \A s : ReaderAt(s, place, codes, fed) => s \in Readers
  BY Zenon DEF ReaderAt, ReaderHas
<1>3. ASSUME NEW s, NEW k \in 1..n, Come(s, k - 1)
      PROVE  Come(DecodeByte(s, bytes[k]), k) /\ DecodeByte(s, bytes[k]) \in Readers
  <2> DEFINE here == place + (k - 1)  byte == bytes[k]  all == Behind(codes, Len(codes))
             s2 == DecodeByte(s, byte)
  <2>0. all \in Nat
    <3>1. Len(codes) \in 0..Len(codes)
      OBVIOUS
    <3> QED BY <3>1, Places
  <2>1. here \in Nat /\ here + 1 = place + k /\ here < all
    <3> HIDE DEF all
    <3>1. place + n <= all
      BY DEF all
    <3> QED BY <3>1, <2>0, <1>1
  <2>2. ASSUME NEW j \in 1..Len(codes), Control(codes[j]) PROVE codes[j].at # here
    <3>1. codes[j].at < place \/ codes[j].at >= place + n
      BY <2>2
    <3>2. codes[j].at \in Nat
      BY Places
    <3> DEFINE at == codes[j].at
    <3> HIDE DEF at, n
    <3>3. at # here
      BY <3>1, <3>2, <1>1 DEF at
    <3> QED BY <3>3 DEF at
  <2>3. ASSUME NEW j \in 1..Len(codes), NEW m \in 1..Len(codes[j].bytes),
               codes[j].at + m = here + 1
        PROVE  byte = codes[j].bytes[m]
    <3>1. codes[j].at + m = place + k
      BY <2>3, <2>1
    <3>2. place + k \in place + 1 .. place + n /\ (place + k) - place = k
      BY <1>1
    <3>3. bytes[(codes[j].at + m) - place] = codes[j].bytes[m]
      BY <3>1, <3>2, Zenon DEF Shows
    <3> DEFINE w == codes[j].at + m
    <3>4. w = place + k /\ bytes[w - place] = codes[j].bytes[m]
      BY <3>1, <3>3
    <3> HIDE DEF w
    <3>5. w - place = k
      BY <3>4, <1>1
    <3> QED BY <3>4, <3>5, Zenon
  <2>4. HasByte(codes, here, byte)
    BY <2>2, <2>3, Zenon DEF HasByte
  <2>5. Follows(s, r, codes, fed, here)
    BY <1>3
  <2> HIDE DEF byte, here
  <2>6. Follows(s2, s, codes, fed, here + 1)
    <3>1. ReaderAt(s, here, codes, fed)
      BY <2>5, Zenon DEF Follows
    <3>2. here < Behind(codes, Len(codes)) /\ here \in Nat
      BY <2>1
    <3> QED BY <2>4, <3>1, <3>2, ByteRead
  <2> HIDE DEF s2
  <2>7. Follows(s2, r, codes, fed, here + 1)
    BY <2>5, <2>6, Zenon DEF Follows
  <2>8. Come(s2, k)
    BY <2>1, <2>7, Zenon
  <2>9. s2 \in Readers
    BY <2>7, Zenon DEF Follows, ReaderAt, ReaderHas
  <2> QED BY <2>8, <2>9, Zenon DEF s2, byte
<1>4. Come(r, 0) /\ r \in Readers
  <2>1. place + 0 = place
    OBVIOUS
  <2> QED BY <2>1, <1>2, Zenon DEF Follows
<1> HIDE DEF Come
<1>5. ASSUME NEW g, g[0] = r,
             \A k \in 1..n : DecodeByte(g[k - 1], bytes[k]) \in Readers => Steps(g, k)
      PROVE  (\A k \in 0..n : Come(g[k], k)) /\ \A k \in 1..n : Steps(g, k)
  <2> DEFINE T == {k \in 0..n : Come(g[k], k)}
  <2>1. 0 \in T
    <3>1. 0 \in 0..n
      BY <1>1
    <3> QED BY <3>1, <1>4, <1>5, Zenon
  <2>2. ASSUME NEW k \in 1..n, k - 1 \in T PROVE k \in T
    <3>1. k \in 0..n
      BY <1>1
    <3>2. Come(g[k - 1], k - 1)
      BY <2>2
    <3>3. Come(DecodeByte(g[k - 1], bytes[k]), k) /\ DecodeByte(g[k - 1], bytes[k]) \in Readers
      BY <3>2, <1>3, Zenon
    <3>4. g[k] = DecodeByte(g[k - 1], bytes[k])
      BY <3>3, <1>5, Zenon
    <3> QED BY <3>1, <3>3, <3>4, Zenon
  <2>3. \A k \in 0..n : k \in T
    <3> HIDE DEF T, n
    <3> QED BY <2>1, <2>2, <1>1, Counting, Zenon
  <2>4. \A k \in 0..n : Come(g[k], k)
    BY <2>3, Zenon
  <2>5. ASSUME NEW k \in 1..n PROVE Steps(g, k)
    <3>1. k - 1 \in 0..n
      BY <1>1
    <3>2. DecodeByte(g[k - 1], bytes[k]) \in Readers
      BY <3>1, <2>4, <1>3, Zenon
    <3> QED BY <3>2, <1>5, Zenon
  <2> QED BY <2>4, <2>5, Zenon
<1>6. \E f : Is(f)
  <2> DEFINE next(s, k) == DecodeByte(s, bytes[k])
             step == [s \in Readers |-> [k \in 1..n |->
                        IF next(s, k) \in Readers THEN next(s, k) ELSE r]]
  <2> HIDE DEF next
  <2>1. step \in [Readers -> [1..n -> Readers]]
    BY <1>4, Zenon
  <2>2. ASSUME NEW s \in Readers, NEW k \in 1..n, next(s, k) \in Readers
        PROVE  step[s][k] = next(s, k)
    BY <2>2, Zenon
  <2> HIDE DEF step, n
  <2>3. PICK f : Recursive(f, Readers, r, step, n)
    BY <1>1, <1>4, <2>1, Recursion, Zenon
  <2>4. f[0] = r /\ f \in [0..n -> Readers]
    BY <2>3, Zenon DEF Recursive
  <2>5. ASSUME NEW k \in 1..n, DecodeByte(f[k - 1], bytes[k]) \in Readers PROVE Steps(f, k)
    <3>1. k - 1 \in 0..n
      BY <1>1
    <3>2. f[k - 1] \in Readers
      BY <3>1, <2>4, Zenon
    <3>3. f[k] = step[f[k - 1]][k]
      BY <2>3, Zenon DEF Recursive
    <3> QED BY <3>2, <3>3, <2>2, <2>5, Zenon DEF next
  <2>6. \A k \in 1..n : Steps(f, k)
    BY <2>4, <2>5, <1>5, Zenon
  <2>7. ASSUME NEW k \in 0..n
        PROVE  f[k] = IF k = 0 THEN r ELSE DecodeByte(f[k - 1], bytes[k])
    <3>1. CASE k = 0
      BY <3>1, <2>4, Zenon
    <3>2. CASE k # 0
      <4>1. k \in 1..n
        BY <3>2, <1>1
      <4> QED BY <4>1, <2>6, <3>2, Zenon
    <3> QED BY <3>1, <3>2, Zenon
  <2>8. Is(f)
    BY <2>4, <2>7, Zenon
  <2> QED BY <2>8, Zenon
<1> DEFINE h == CHOOSE g : Is(g)
<1>7. DecodeBytes(r, bytes) = h[n]
  BY Zenon DEF DecodeBytes
<1>8. Is(h)
  <2> HIDE DEF Is
  <2> QED BY <1>6, Zenon
<1> HIDE DEF h
<1>9. h[0] = r /\ \A k \in 1..n : Steps(h, k)
  <2>1. 0 \in 0..n /\ \A k \in 1..n : k \in 0..n /\ k # 0
    BY <1>1
  <2> HIDE DEF n
  <2> QED BY <1>8, <2>1, Zenon
<1>10. Come(h[n], n)
  <2>1. n \in 0..n
    BY <1>1
  <2> HIDE DEF n
  <2> QED BY <2>1, <1>5, <1>9, Zenon
<1> QED BY <1>7, <1>10, Zenon DEF Come

(* Where a control code begins, the reader has all that is before it. *)
LEMMA AtControl ==
  ASSUME NEW fed \in Seq(Samples), Len(fed) <= MaxSamples,
         NEW codes \in Seq(Entries), NEW taken, NEW period,
         LogIs(codes, fed, taken, period),
         NEW r, NEW place \in Nat, ReaderAt(r, place, codes, fed),
         NEW l \in 1..Len(codes), Control(codes[l]), codes[l].at = place
  PROVE  ReaderHas(r, codes, l - 1, fed) /\ r.state = "DOD" /\ r.dods = <<>>
<1>1. PICK j \in 0..Len(codes), k \in 0..2 :
        /\ ReaderHas(r, codes, j, fed)
        /\ place = Behind(codes, j) + k
        /\ k = 0 => r.state = "DOD"
        /\ k > 0 => j < Len(codes) /\ ReaderWithin(r, codes[j + 1], k)
  BY Zenon DEF ReaderAt
<1>2. Behind(codes, j) \in Nat /\ EndOf(codes[l]) \in Nat /\ codes[l].at < EndOf(codes[l])
  BY Places
<1>3. ~ (l <= j)
  <2>1. SUFFICES ASSUME l <= j PROVE FALSE
    OBVIOUS
  <2>2. EndOf(codes[l]) <= Behind(codes, j)
    BY <2>1, Places
  <2> DEFINE x == EndOf(codes[l])  y == Behind(codes, j)
  <2>3. x \in Nat /\ y \in Nat /\ place < x /\ x <= y /\ place = y + k
    BY <1>1, <1>2, <2>2
  <2> HIDE DEF x, y
  <2> QED BY <2>3
<1>4. j + 1 \in 1..Len(codes) /\ (j + 1) - 1 = j
  BY <1>3
<1>5. /\ codes[j + 1].at = Behind(codes, j) /\ EndOf(codes[j + 1]) \in Nat
      /\ codes[j + 1].at < EndOf(codes[j + 1])
      /\ j + 1 < l => EndOf(codes[j + 1]) <= codes[l].at
  <2>1. codes[j + 1].at = Behind(codes, (j + 1) - 1)
    BY <1>4, Places, Zenon
  <2> QED BY <2>1, <1>4, Places, Zenon
<1>6. k = 0
  <2>1. SUFFICES ASSUME k # 0 PROVE FALSE
    OBVIOUS
  <2>2. ReaderWithin(r, codes[j + 1], k)
    BY <1>1, <2>1
  <2> DEFINE e == codes[j + 1]  x == Behind(codes, j)  y == Len(e.bytes)  z == EndOf(e)
  <2>3. ~Control(e) /\ k < y
    BY <2>2, Zenon DEF ReaderWithin
  <2>4. j + 1 < l
    <3>1. j + 1 # l
      BY <2>3
    <3> QED BY <3>1, <1>3
  <2>5. y \in Nat
    <3>1. e \in Entries
      BY <1>4, ElementOfSeq
    <3> HIDE DEF e
    <3> QED BY <3>1 DEF Entries
  <2>6. x \in Nat /\ z = x + y /\ place = x + k /\ z <= place
    BY <1>1, <1>2, <1>5, <2>4, Zenon DEF EndOf
  <2> HIDE DEF e, x, y, z
  <2> QED BY <2>3, <2>5, <2>6
<1>7. j + 1 = l
  <2>1. SUFFICES ASSUME j + 1 < l PROVE FALSE
    BY <1>3
  <2> DEFINE x == Behind(codes, j)  z == EndOf(codes[j + 1])
  <2>2. x \in Nat /\ z \in Nat /\ x < z /\ z <= place /\ place = x
    BY <1>1, <1>2, <1>5, <1>6, <2>1
  <2> HIDE DEF x, z
  <2> QED BY <2>2
<1>8. l - 1 = j
  BY <1>7
<1>9. r.dods = <<>>
  <2>1. CASE ~r.inSync
    BY <2>1, <1>1, Zenon DEF ReaderHas
  <2>2. CASE r.inSync
    <3>1. j > 0 /\ r.dods = Pending(codes[j], fed)
      BY <2>2, <1>1, Zenon DEF ReaderHas
    <3>2. codes[j].channel = Channels
      <4>1. l \in 2..Len(codes)
        BY <3>1, <1>7
      <4>2. Consecutive(codes[l - 1], codes[l])
        BY <4>1 DEF LogIs
      <4> QED BY <4>2, <1>8, Zenon DEF Consecutive
    <3>3. (IF codes[j].channel = Channels THEN 0 ELSE codes[j].channel) = 0 /\ 1..0 = {}
      BY <3>2
    <3>4. Pending(codes[j], fed) = [c \in {} |-> Residual(fed, codes[j].n, c)]
      BY <3>3, Zenon DEF Pending
    <3>5. [c \in {} |-> Residual(fed, codes[j].n, c)] = <<>>
      OBVIOUS
    <3> QED BY <3>1, <3>4, <3>5
  <2> QED BY <2>1, <2>2
<1> QED BY <1>1, <1>6, <1>8, <1>9

(* The reader q is y, but for the block being ready. *)
Handed(q, y) ==
  /\ q \in Readers /\ ~q.ready
  /\ q.state = y.state /\ q.inSync = y.inSync /\ q.scratch = y.scratch /\ q.dods = y.dods
  /\ q.dod = y.dod /\ q.counter = y.counter /\ q.samples = y.samples

LEMMA HandedIs ==
  ASSUME NEW y \in Readers
  PROVE  Handed(Taken(y), y) /\ (~y.ready => Handed(y, y))
<1> DEFINE A == Seq(Octet)  B == Seq(Int)  C == Seq([Channel -> Int16Range])
<1>1. Readers = [state : {"DOD", "Sample", "WORD"}, inSync : BOOLEAN, scratch : A,
                 dods : B, dod : ChannelStates, ready : BOOLEAN, counter : Nat,
                 samples : C]
  BY DEF Readers
<1> HIDE DEF A, B, C
<1>2. Handed(Taken(y), y)
  <2> DEFINE q == [y EXCEPT !.ready = FALSE]
  <2>1. q \in Readers
    BY <1>1, Zenon
  <2>2. /\ ~q.ready
        /\ q.state = y.state /\ q.inSync = y.inSync /\ q.scratch = y.scratch /\ q.dods = y.dods
        /\ q.dod = y.dod /\ q.counter = y.counter /\ q.samples = y.samples
    BY <1>1
  <2>3. Taken(y) = q
    BY DEF Taken
  <2> HIDE DEF q
  <2> QED BY <2>1, <2>2, <2>3, Zenon DEF Handed
<1>3. ~y.ready => Handed(y, y)
  BY Zenon DEF Handed
<1> QED BY <1>2, <1>3

(* The reader y is r behind a control code, which closes the block. *)
Closes(y, r, bytes) ==
  /\ y \in Readers /\ y.ready = r.inSync /\ y.counter = r.counter
  /\ y.samples = r.samples /\ y.dod = r.dod /\ y.dods = r.dods
  /\ bytes[1] = 254 =>
       y.state = r.state /\ y.inSync = r.inSync /\ y.scratch = r.scratch
  /\ bytes[1] = 255 =>
       y.state = "Sample" /\ y.inSync /\ y.scratch = Tail(bytes)

LEMMA ControlCloses ==
  ASSUME NEW r \in Readers, ~r.ready, NEW bytes \in Seq(Octet), bytes # <<>>,
         bytes[1] = 254 \/ (bytes[1] = 255 /\ Len(bytes) = ResyncSize)
  PROVE  Closes(DecodeControl(r, bytes), r, bytes)
<1> DEFINE A == Seq(Octet)  B == Seq(Int)  C == Seq([Channel -> Int16Range])
           y == DecodeControl(r, bytes)
<1>1. Readers = [state : {"DOD", "Sample", "WORD"}, inSync : BOOLEAN, scratch : A,
                 dods : B, dod : ChannelStates, ready : BOOLEAN, counter : Nat,
                 samples : C]
  BY DEF Readers
<1>2. Tail(bytes) \in A
  BY HeadTailProperties
<1>3. r.inSync \in BOOLEAN /\ (r.ready \/ r.inSync) = r.inSync
  <2>1. r.inSync \in BOOLEAN
    BY DEF Readers
  <2> QED BY <2>1
<1> HIDE DEF A, B, C
<1>4. CASE bytes[1] = 254
  <2> DEFINE q == [r EXCEPT !.ready = r.inSync]
  <2>1. y = q
    <3>1. bytes[1] # 255
      BY <1>4
    <3>2. y = [r EXCEPT !.ready = @ \/ r.inSync]
      BY <1>4, <3>1, Zenon DEF DecodeControl
    <3> QED BY <3>2, <1>3
  <2>2. q \in Readers
    BY <1>1, <1>3
  <2>3. /\ q.ready = r.inSync /\ q.counter = r.counter
        /\ q.samples = r.samples /\ q.dod = r.dod /\ q.dods = r.dods
        /\ q.state = r.state /\ q.inSync = r.inSync /\ q.scratch = r.scratch
    BY <1>1
  <2>4. bytes[1] # 255
    BY <1>4
  <2> HIDE DEF q, y
  <2> QED BY <2>1, <2>2, <2>3, <2>4, Zenon DEF y, Closes
<1>5. CASE bytes[1] = 255 /\ Len(bytes) = ResyncSize
  <2> DEFINE q == [r EXCEPT !.scratch = Tail(bytes), !.ready = r.inSync,
                            !.inSync = TRUE, !.state = "Sample"]
  <2>1. y = q
    <3>1. bytes[1] = 255 /\ Len(bytes) = 5 + 4 * Channels /\ bytes[1] # 254
      BY <1>5 DEF ResyncSize
    <3>2. y = [r EXCEPT !.scratch = Tail(bytes), !.ready = @ \/ r.inSync,
                        !.inSync = TRUE, !.state = "Sample"]
      BY <3>1 DEF DecodeControl
    <3> QED BY <3>2, <1>3, Zenon
  <2>2. q \in Readers
    BY <1>1, <1>2, <1>3, Zenon
  <2>3. /\ q.ready = r.inSync /\ q.counter = r.counter
        /\ q.samples = r.samples /\ q.dod = r.dod /\ q.dods = r.dods
        /\ q.state = "Sample" /\ q.inSync /\ q.scratch = Tail(bytes)
    BY <1>1
  <2>4. bytes[1] # 254
    BY <1>5
  <2> HIDE DEF q, y
  <2> QED BY <2>1, <2>2, <2>3, <2>4, Zenon DEF y, Closes
<1> QED BY <1>4, <1>5

(* Behind a resynchronisation, the reader begins with the vector in it. *)
LEMMA BlockBegins ==
  ASSUME NEW n \in Nat, n < 2 * Half, NEW dod \in ChannelStates,
         NEW q \in Readers, ~q.ready, q.state = "Sample", q.inSync,
         q.scratch = Tail(ResyncBytes(n, dod))
  PROVE  LET b == BlockBegun(q)
         IN  /\ b \in Readers /\ ~b.ready /\ b.state = "DOD" /\ b.inSync /\ b.counter = n
             /\ b.samples = <<[c \in Channel |-> dod[c].sample]>> /\ b.dod = dod
             /\ b.dods = q.dods
<1> DEFINE A == Seq(Octet)  B == Seq(Int)  C == Seq([Channel -> Int16Range])
           s == q.scratch
           v == [c \in Channel |-> dod[c].sample]
           b == BlockBegun(q)
           x == [q EXCEPT !.counter = n, !.samples = <<v>>, !.dod = dod,
                          !.ready = FALSE, !.state = "DOD"]
<1>1. Readers = [state : {"DOD", "Sample", "WORD"}, inSync : BOOLEAN, scratch : A,
                 dods : B, dod : ChannelStates, ready : BOOLEAN, counter : Nat,
                 samples : C]
  BY DEF Readers
<1>2. /\ 2 * Half * WordAt(s, 1) + WordAt(s, 3) = n
      /\ \A c \in Channel : /\ Int16(WordAt(s, 4 * c + 1)) = dod[c].sample
                            /\ Int16(WordAt(s, 4 * c + 3)) = dod[c].delta
  <2> DEFINE t == Tail(ResyncBytes(n, dod))
  <2>1. /\ 2 * Half * WordAt(t, 1) + WordAt(t, 3) = n
        /\ \A c \in Channel : /\ Int16(WordAt(t, 4 * c + 1)) = dod[c].sample
                              /\ Int16(WordAt(t, 4 * c + 3)) = dod[c].delta
    BY ResyncBytesAre
  <2>2. s = t
    OBVIOUS
  <2> HIDE DEF t, s
  <2> QED BY <2>1, <2>2, Zenon
<1>3. SentCounter(q) = n
  BY <1>2, Zenon DEF SentCounter
<1>4. SentDod(q) = dod
  <2>1. SentDod(q) = [c \in Channel |-> [sample |-> dod[c].sample, delta |-> dod[c].delta]]
    BY <1>2, Zenon DEF SentDod
  <2>2. dod = [c \in Channel |-> [sample |-> dod[c].sample, delta |-> dod[c].delta]]
    BY DEF ChannelStates
  <2> QED BY <2>1, <2>2, Zenon
<1>5. b = x
  <2>1. b = SyncUpdate(q)
    BY Zenon DEF BlockBegun
  <2>2. SyncUpdate(q) = [q EXCEPT !.counter = SentCounter(q),
                            !.samples = <<[c \in Channel |-> SentDod(q)[c].sample]>>,
                            !.dod = SentDod(q), !.ready = FALSE, !.state = "DOD"]
    BY Zenon DEF SyncUpdate
  <2> QED BY <2>1, <2>2, <1>3, <1>4, Zenon
<1>6. v \in [Channel -> Int16Range]
  BY DEF ChannelStates
<1>7. <<v>> \in C
  <2> HIDE DEF v
  <2> QED BY <1>6
<1> HIDE DEF A, B, C, v, b
<1>8. x \in Readers
  BY <1>1, <1>7, Zenon
<1>9. /\ ~x.ready /\ x.state = "DOD" /\ x.inSync /\ x.counter = n
      /\ x.samples = <<v>> /\ x.dod = dod /\ x.dods = q.dods
  BY <1>1
<1> HIDE DEF x
<1> QED BY <1>5, <1>8, <1>9, Zenon DEF v, b

(* The reader takes a control code: a resynchronisation begins a block     *)
(* with its vector, and behind the flush nothing has changed.              *)
LEMMA ControlRead ==
  ASSUME NEW fed \in Seq(Samples), Len(fed) <= MaxSamples,
         NEW codes \in Seq(Entries), NEW taken, NEW period,
         LogIs(codes, fed, taken, period),
         NEW r, NEW place \in Nat, ReaderAt(r, place, codes, fed),
         NEW l \in 1..Len(codes), Control(codes[l]), codes[l].at = place,
         NEW q, Handed(q, DecodeControl(r, codes[l].bytes))
  PROVE  LET y == DecodeControl(r, codes[l].bytes)
         IN  /\ y \in Readers /\ y.ready = r.inSync /\ y.counter = r.counter
             /\ y.samples = r.samples
             /\ ReaderAt(BlockBegun(q), EndOf(codes[l]), codes, fed)
             /\ codes[l].kind = "resync" =>
                  BlockBegun(q).inSync /\ BlockBegun(q).counter = codes[l].n
<1> DEFINE e == codes[l]  y == DecodeControl(r, e.bytes)  b == BlockBegun(q)
<1>1. ReaderHas(r, codes, l - 1, fed) /\ r.state = "DOD" /\ r.dods = <<>>
  BY AtControl, Zenon
<1>2. r \in Readers /\ ~r.ready
  BY <1>1, Zenon DEF ReaderHas
<1>3. /\ EntryIs(e, fed, taken, period) /\ e.n \in Int /\ e.n >= -1 /\ e.n < Len(fed)
      /\ e.block \in Nat /\ e.kind \in {"resync", "dod", "flush"} /\ e.kind # "dod"
  BY Entry DEF Control
<1>4. e \in Entries /\ Behind(codes, l) = EndOf(e)
  BY Places
<1>5. l - 1 = 0 \/ (l \in 2..Len(codes) /\ Consecutive(codes[l - 1], e))
  BY DEF LogIs
<1>k. l \in 0..Len(codes) /\ l > 0 /\ 0 \in 0..2 /\ ~ (0 > 0) /\ 1 \in 1..Len(codes)
      /\ (l - 1 = 0 => l = 1)
  OBVIOUS
<1>z. EndOf(e) = Behind(codes, l) + 0
  <2>1. EndOf(e) \in Nat
    BY Places
  <2> HIDE DEF e
  <2> QED BY <2>1, <1>4
<1>6. CASE e.kind = "resync"
  <2> DEFINE dod == DodBehind(fed, e.n)  bytes == ResyncBytes(e.n, dod)
  <2> HIDE DEF e
  <2>1. e.n = e.block /\ e.channel = Channels /\ e.bytes = bytes
    BY <1>3, <1>6, Zenon DEF EntryIs
  <2>2. e.n \in Nat /\ e.n < 2 * Half /\ e.n >= 0
    <3>1. MaxSamples < 2 * Half /\ MaxSamples \in Nat /\ Len(fed) \in Nat
      BY DaqCodecAssumption
    <3>2. Half \in Nat
      BY HalfIs
    <3> QED BY <3>1, <3>2, <2>1, <1>3
  <2>3. dod \in ChannelStates /\ \A c \in Channel : dod[c].sample = Vector(fed, e.n)[c]
    BY <1>3, DodBehindIs, Zenon
  <2> HIDE DEF dod
  <2>4. bytes \in Seq(Octet) /\ Len(bytes) = ResyncSize /\ bytes[1] = 255
    BY <2>2, <2>3, ResyncBytesAre
  <2>5. bytes # <<>>
    BY <2>4, ChannelsAre
  <2> HIDE DEF bytes
  <2>6. /\ y \in Readers /\ y.ready = r.inSync /\ y.counter = r.counter
        /\ y.samples = r.samples /\ y.dods = r.dods
        /\ y.state = "Sample" /\ y.inSync /\ y.scratch = Tail(bytes)
    <3>1. Closes(DecodeControl(r, bytes), r, bytes)
      BY <1>2, <2>4, <2>5, ControlCloses
    <3> QED BY <3>1, <2>1, <2>4, Zenon DEF Closes
  <2>7. /\ q \in Readers /\ ~q.ready /\ q.state = "Sample" /\ q.inSync
        /\ q.scratch = Tail(bytes) /\ q.dods = r.dods
    <3>1. Handed(q, y)
      BY DEF e
    <3> QED BY <2>6, <3>1, Zenon DEF Handed
  <2>8. /\ b \in Readers /\ ~b.ready /\ b.state = "DOD" /\ b.inSync /\ b.counter = e.n
        /\ b.samples = <<[c \in Channel |-> dod[c].sample]>> /\ b.dod = dod
        /\ b.dods = q.dods
    BY <2>2, <2>3, <2>7, BlockBegins, Zenon DEF bytes
  <2>9. [c \in Channel |-> dod[c].sample] = Vector(fed, e.n)
    <3>1. [c \in Channel |-> dod[c].sample] = [c \in Channel |-> Vector(fed, e.n)[c]]
      BY <2>3, Zenon
    <3>2. Vector(fed, e.n) \in [Channel -> Int16Range]
      BY <1>3, VectorIs, Zenon
    <3>3. Vector(fed, e.n) = [c \in Channel |-> Vector(fed, e.n)[c]]
      BY <3>2, Zenon
    <3> QED BY <3>1, <3>3, Zenon
  <2>10. LastWhole(e) = e.n
    BY <2>1, Zenon DEF LastWhole
  <2>11. <<Vector(fed, e.n)>> = Rebuilt(e, fed)
    <3>1. LastWhole(e) - e.block + 1 = 1 /\ e.block + 1 - 1 = e.n
      BY <2>1, <2>2, <2>10
    <3>2. Rebuilt(e, fed) = [m \in 1..1 |-> Vector(fed, e.block + m - 1)]
      BY <3>1, Zenon DEF Rebuilt
    <3>3. \A m \in 1..1 : e.block + m - 1 = e.n
      BY <3>1
    <3>4. Rebuilt(e, fed) = [m \in 1..1 |-> Vector(fed, e.n)]
      BY <3>2, <3>3, Zenon
    <3> DEFINE v == Vector(fed, e.n)
    <3> HIDE DEF v
    <3>5. [m \in 1..1 |-> v] = <<v>>
      OBVIOUS
    <3> QED BY <3>4, <3>5, Zenon DEF v
  <2>12. <<>> = Pending(e, fed)
    <3>3. (IF e.channel = Channels THEN 0 ELSE e.channel) = 0 /\ 1..0 = {}
      BY <2>1
    <3>4. Pending(e, fed) = [c \in {} |-> Residual(fed, e.n, c)]
      BY <3>3, Zenon DEF Pending
    <3>5. [c \in {} |-> Residual(fed, e.n, c)] = <<>>
      OBVIOUS
    <3> QED BY <3>4, <3>5
  <2>13. ReaderHas(b, codes, l, fed)
    <3> HIDE DEF b
    <3>1. /\ b.counter = e.block /\ b.samples = Rebuilt(e, fed)
          /\ b.dod = DodBehind(fed, LastWhole(e)) /\ b.dods = Pending(e, fed)
      BY <1>1, <2>1, <2>7, <2>8, <2>9, <2>10, <2>11, <2>12, Zenon DEF dod
    <3> QED BY <1>k, <2>2, <2>8, <3>1, Zenon DEF ReaderHas, e
  <2>14. ReaderAt(b, EndOf(e), codes, fed)
    <3> HIDE DEF b
    <3> QED BY <1>k, <1>z, <2>8, <2>13, Zenon DEF ReaderAt
  <2> HIDE DEF b, y
  <2> QED BY <2>6, <2>8, <2>14, Zenon DEF b, y, e
<1>7. CASE e.kind = "flush"
  <2>1. e.n >= 0 <=> r.inSync
    <3>1. CASE l - 1 = 0
      <4>1. codes # <<>> /\ e.kind = "flush" /\ e = codes[1]
        BY <3>1, <1>7
      <4>2. e.n = -1
        BY <4>1 DEF LogIs
      <4>3. ~r.inSync
        <5>1. ~ (l - 1 > 0)
          BY <3>1
        <5> QED BY <5>1, <1>1, Zenon DEF ReaderHas
      <4> QED BY <4>2, <4>3
    <3>2. CASE l - 1 # 0
      <4>1. e.n = codes[l - 1].n /\ l - 1 > 0
        BY <1>5, <1>7, <3>2 DEF Consecutive
      <4> HIDE DEF e
      <4> QED BY <4>1, <1>1, Zenon DEF ReaderHas
    <3> QED BY <3>1, <3>2
  <2>2. ASSUME r.inSync
        PROVE  /\ r.counter = e.block /\ r.samples = Rebuilt(e, fed)
               /\ r.dod = DodBehind(fed, LastWhole(e)) /\ r.dods = Pending(e, fed)
    <3> DEFINE d == codes[l - 1]
    <3>1. l - 1 > 0 /\ r.counter = d.block /\ r.samples = Rebuilt(d, fed)
          /\ r.dod = DodBehind(fed, LastWhole(d)) /\ r.dods = Pending(d, fed)
      BY <2>2, <1>1, Zenon DEF ReaderHas
    <3>2. Consecutive(d, e)
      BY <3>1, <1>5
    <3> HIDE DEF d, e
    <3>3. e.n = d.n /\ e.block = d.block /\ d.channel = Channels /\ e.channel = Channels
      BY <3>2, <1>3, <1>7, Zenon DEF Consecutive, EntryIs, Control
    <3>4. LastWhole(e) = LastWhole(d) /\ Rebuilt(e, fed) = Rebuilt(d, fed)
      <4>1. LastWhole(e) = LastWhole(d)
        BY <3>3, Zenon DEF LastWhole
      <4> QED BY <3>3, <4>1, Zenon DEF Rebuilt
    <3>5. Pending(e, fed) = Pending(d, fed)
      BY <3>3, Zenon DEF Pending
    <3> QED BY <3>1, <3>3, <3>4, <3>5, Zenon
  <2> HIDE DEF e
  <2>3. e.bytes = <<254>>
    BY <1>3, <1>7, Zenon DEF EntryIs
  <2>4. e.bytes \in Seq(Octet) /\ e.bytes # <<>> /\ e.bytes[1] = 254
    <3>1. <<254>> \in Seq(Octet) /\ <<254>> # <<>> /\ <<254>>[1] = 254
      BY DEF Octet
    <3> QED BY <3>1, <2>3, Zenon
  <2>5. /\ y \in Readers /\ y.ready = r.inSync /\ y.counter = r.counter
        /\ y.samples = r.samples /\ y.dods = r.dods /\ y.dod = r.dod
        /\ y.state = r.state /\ y.inSync = r.inSync /\ y.scratch = r.scratch
    <3>1. Closes(DecodeControl(r, e.bytes), r, e.bytes)
      BY <1>2, <2>4, ControlCloses
    <3> QED BY <3>1, <2>4, Zenon DEF Closes
  <2>6. Handed(q, y)
    BY DEF e
  <2>7. /\ q \in Readers /\ ~q.ready /\ q.state = "DOD" /\ q.inSync = r.inSync
        /\ q.dods = r.dods /\ q.counter = r.counter /\ q.samples = r.samples /\ q.dod = r.dod
    BY <1>1, <2>5, <2>6, Zenon DEF Handed
  <2>8. b = q
    <3>1. q.state # "Sample"
      BY <2>7
    <3> QED BY <3>1, Zenon DEF BlockBegun
  <2>9. ReaderHas(q, codes, l, fed)
    BY <1>1, <1>k, <2>1, <2>2, <2>7, Zenon DEF ReaderHas, e
  <2>10. ReaderAt(q, EndOf(e), codes, fed)
    BY <1>k, <1>z, <2>7, <2>9, Zenon DEF ReaderAt
  <2>11. e.kind # "resync"
    BY <1>7
  <2> HIDE DEF b, y
  <2> QED BY <2>5, <2>8, <2>10, <2>11, Zenon DEF b, y, e
<1> QED BY <1>3, <1>6, <1>7

(* The block that is closed holds vectors that were taken, up to the last  *)
(* one before the control code.                                            *)
LEMMA ClosedBlock ==
  ASSUME NEW fed \in Seq(Samples), Len(fed) <= MaxSamples,
         NEW codes \in Seq(Entries), NEW taken, NEW period,
         LogIs(codes, fed, taken, period),
         NEW l \in 1..Len(codes), Control(codes[l]),
         NEW r, ReaderHas(r, codes, l - 1, fed), r.inSync
  PROVE  /\ l - 1 \in 1..Len(codes) /\ r.counter \in Nat
         /\ Len(r.samples) = codes[l - 1].n - r.counter + 1
         /\ r.counter <= codes[l - 1].n
         /\ \A m \in DOMAIN r.samples : LET at == r.counter + m - 1
              IN  at \in taken /\ r.samples[m] = fed[at + 1]
<1> DEFINE d == codes[l - 1]  n == d.n - d.block + 1
           s == [m \in 1..n |-> Vector(fed, d.block + m - 1)]
<1>1. /\ l - 1 > 0 /\ d.n >= 0 /\ r.counter = d.block /\ r.samples = Rebuilt(d, fed)
      /\ r \in Readers
  BY Zenon DEF ReaderHas
<1>2. l - 1 \in 1..Len(codes) /\ l \in 2..Len(codes)
  BY <1>1
<1>3. /\ EntryIs(d, fed, taken, period) /\ d.n \in Int /\ d.block \in Nat
      /\ d.block <= d.n /\ d.n < Len(fed)
  BY <1>1, <1>2, Entry
<1>4. Consecutive(d, codes[l])
  BY <1>2 DEF LogIs
<1> HIDE DEF d
<1>5. d.channel = Channels
  BY <1>4, Zenon DEF Consecutive
<1>6. d.block .. d.n \subseteq taken
  BY <1>1, <1>3, Zenon DEF EntryIs
<1>7. LastWhole(d) = d.n
  BY <1>5, Zenon DEF LastWhole
<1>8. r.samples = s
  BY <1>1, <1>7, Zenon DEF Rebuilt
<1>9. DOMAIN s = 1..n /\ n \in Nat
  BY <1>3
<1>10. Len(r.samples) = n
  <2>1. r.samples \in Seq([Channel -> Int16Range])
    BY <1>1 DEF Readers
  <2> DEFINE k == Len(r.samples)
  <2>2. k \in Nat /\ DOMAIN r.samples = 1..k
    BY <2>1, LenProperties, Zenon
  <2> HIDE DEF k, n, s
  <2>3. 1..k = 1..n
    BY <2>2, <1>8, <1>9
  <2>4. k = n
    <3>1. \A x, y \in Nat : x < y => y \in 1..y /\ y \notin 1..x
      OBVIOUS
    <3>2. ~ (k < n) /\ ~ (n < k)
      BY <2>2, <2>3, <1>9, <3>1, Zenon
    <3> QED BY <2>2, <1>9, <3>2
  <2> QED BY <2>4 DEF k
<1>11. ASSUME NEW m \in 1..n
       PROVE  LET at == d.block + m - 1
              IN  at \in taken /\ s[m] = fed[at + 1]
  <2> DEFINE at == d.block + m - 1
  <2>1. at \in d.block .. d.n /\ at \in Int /\ at >= 0
    <3> DEFINE x == d.n  y == d.block
    <3>1. x \in Int /\ y \in Nat /\ m \in 1 .. x - y + 1
      BY <1>3
    <3> HIDE DEF x, y
    <3>2. y + m - 1 \in y .. x /\ y + m - 1 \in Int /\ y + m - 1 >= 0
      BY <3>1
    <3> QED BY <3>2, Zenon DEF x, y
  <2>2. s[m] = Vector(fed, at)
    OBVIOUS
  <2> HIDE DEF at, s
  <2>3. at \in taken
    BY <2>1, <1>6
  <2>4. Vector(fed, at) = fed[at + 1]
    BY <2>1 DEF Vector
  <2> QED BY <2>2, <2>3, <2>4, Zenon DEF at
<1> HIDE DEF s
<1>12. \A m \in DOMAIN r.samples : LET at == r.counter + m - 1
              IN  at \in taken /\ r.samples[m] = fed[at + 1]
  BY <1>1, <1>8, <1>9, <1>11, Zenon
<1>13. /\ l - 1 \in 1..Len(codes) /\ r.counter \in Nat
       /\ Len(r.samples) = d.n - r.counter + 1 /\ r.counter <= d.n
  BY <1>1, <1>2, <1>3, <1>10
<1> QED BY <1>12, <1>13, Zenon DEF d

-----------------------------------------------------------------------------
(* The writer's side. *)

Mark == [at : Nat, size : Nat \ {0}]

LEMMA FitsLonger ==
  ASSUME NEW len \in Nat, NEW len2 \in Nat, len <= len2, NEW places, MarksFit(places, len)
  PROVE  MarksFit(places, len2)
<1>1. ASSUME NEW k \in 1..Len(places) PROVE places[k].at + places[k].size <= len2
  <2>1. places[k] \in Mark
    BY ElementOfSeq, Zenon DEF MarksFit, Mark
  <2> DEFINE x == places[k].at  y == places[k].size
  <2>2. x \in Nat /\ y \in Nat /\ x + y <= len
    BY <2>1 DEF MarksFit, Mark
  <2> HIDE DEF x, y
  <2>3. x + y <= len2
    BY <2>2
  <2> QED BY <2>3 DEF x, y
<1> QED BY <1>1, Zenon DEF MarksFit

LEMMA FitsOneMore ==
  ASSUME NEW len \in Nat, NEW size \in Nat \ {0}, NEW len2 \in Nat, len + size <= len2,
         NEW places, MarksFit(places, len)
  PROVE  MarksFit(Append(places, [at |-> len, size |-> size]), len2)
<1> DEFINE mark == [at |-> len, size |-> size]
           all == Append(places, mark)
           n == Len(places)
<1>1. mark \in Mark /\ mark.at = len /\ mark.size = size
  BY DEF Mark
<1>2. places \in Seq(Mark) /\ n \in Nat
  BY DEF MarksFit, Mark
<1> HIDE DEF mark
<1>3. all \in Seq(Mark) /\ Longer(all, places, mark)
  BY <1>1, <1>2, Lengthened
<1> HIDE DEF all
<1>4. Len(all) = n + 1 /\ all[n + 1] = mark /\ \A k \in 1..n : all[k] = places[k]
  BY <1>3, Zenon DEF Longer
<1>5. MarksFit(places, len)
  OBVIOUS
<1>6. ASSUME NEW k \in 1..n
      PROVE  /\ all[k].at \in Nat /\ all[k].size \in Nat
             /\ all[k].at + all[k].size <= len /\ all[k].at + all[k].size <= len2
  <2>1. places[k] \in Mark
    BY <1>2, ElementOfSeq
  <2> DEFINE x == all[k].at  y == all[k].size
  <2>2. x \in Nat /\ y \in Nat
    BY <2>1, <1>4 DEF Mark
  <2>3. x + y <= len
    BY <1>4, <1>5, Zenon DEF MarksFit
  <2> HIDE DEF x, y
  <2>4. x + y <= len2
    BY <2>2, <2>3
  <2> QED BY <2>2, <2>3, <2>4 DEF x, y
<1>7. ASSUME NEW k \in 1..Len(all) PROVE all[k].at + all[k].size <= len2
  <2>1. k \in 1..n \/ k = n + 1
    BY <1>2, <1>4
  <2> QED BY <2>1, <1>1, <1>4, <1>6
<1>8. ASSUME NEW k \in 1..Len(all), NEW l \in 1..Len(all), k < l
      PROVE  all[k].at + all[k].size <= all[l].at
  <2>1. k \in 1..n /\ (l \in 1..n \/ l = n + 1)
    BY <1>2, <1>4, <1>8
  <2>2. CASE l \in 1..n
    <3>1. places[k].at + places[k].size <= places[l].at
      BY <2>1, <2>2, <1>5, <1>8 DEF MarksFit
    <3> QED BY <2>1, <2>2, <3>1, <1>4, Zenon
  <2>3. CASE l = n + 1
    BY <2>1, <2>3, <1>1, <1>4, <1>6, Zenon
  <2> QED BY <2>1, <2>2, <2>3
<1>9. MarksFit(all, len2)
  BY <1>3, <1>7, <1>8, Zenon DEF MarksFit, Mark
<1> QED BY <1>9, Zenon DEF all, mark

(* The marks when n bytes have left the stream. *)
MovedUp(places, n) == [k \in DOMAIN places |-> [places[k] EXCEPT !.at = @ - n]]

LEMMA FitsMovedUp ==
  ASSUME NEW len \in Nat, NEW n \in 0..len, NEW places, MarksFit(places, len),
         \A k \in 1..Len(places) : n <= places[k].at
  PROVE  LET all == MovedUp(places, n)
         IN  /\ MarksFit(all, len - n) /\ Len(all) = Len(places)
             /\ \A k \in 1..Len(places) :
                  all[k].at = places[k].at - n /\ all[k].size = places[k].size
<1> DEFINE all == MovedUp(places, n)
           total == Len(places)
           moved(k) == [places[k] EXCEPT !.at = @ - n]
<1>1. places \in Seq(Mark) /\ total \in Nat /\ DOMAIN places = 1..total
  BY DEF MarksFit, Mark
<1>2. ASSUME NEW k \in 1..total
      PROVE  /\ moved(k) \in Mark
             /\ moved(k).at = places[k].at - n /\ moved(k).size = places[k].size
             /\ places[k].at \in Nat /\ places[k].size \in Nat /\ n <= places[k].at
  <2>1. places[k] \in Mark
    BY <1>1, ElementOfSeq
  <2>2. n <= places[k].at
    OBVIOUS
  <2> DEFINE p == places[k]
  <2> HIDE DEF p
  <2>3. p \in Mark /\ n <= p.at
    BY <2>1, <2>2 DEF p
  <2>4. /\ [p EXCEPT !.at = @ - n] \in Mark
        /\ [p EXCEPT !.at = @ - n].at = p.at - n /\ [p EXCEPT !.at = @ - n].size = p.size
        /\ p.at \in Nat /\ p.size \in Nat
    BY <2>3 DEF Mark
  <2> QED BY <2>3, <2>4 DEF p
<1>3. all = [k \in 1..total |-> moved(k)]
  BY <1>1, Zenon DEF MovedUp
<1> HIDE DEF moved
<1>4. all \in [1..total -> Mark] /\ \A k \in 1..total : all[k] = moved(k)
  BY <1>2, <1>3, Zenon
<1> HIDE DEF all
<1>5. all \in Seq(Mark) /\ Len(all) = total
  <2> HIDE DEF total
  <2> QED BY <1>1, <1>4, CountedSeq
<1>6. ASSUME NEW k \in 1..total
      PROVE  /\ all[k].at = places[k].at - n /\ all[k].size = places[k].size
             /\ places[k].at \in Nat /\ places[k].size \in Nat /\ n <= places[k].at
  BY <1>2, <1>4, Zenon
<1>7. ASSUME NEW k \in 1..total PROVE all[k].at + all[k].size <= len - n
  <2>1. places[k].at + places[k].size <= len
    BY DEF MarksFit
  <2> DEFINE x == places[k].at  y == places[k].size
  <2>2. x \in Nat /\ y \in Nat /\ x + y <= len /\ all[k].at = x - n /\ all[k].size = y
    BY <2>1, <1>6
  <2> HIDE DEF x, y
  <2>3. (x - n) + y <= len - n
    BY <2>2
  <2> QED BY <2>2, <2>3, Zenon
<1>8. ASSUME NEW k \in 1..total, NEW l \in 1..total, k < l
      PROVE  all[k].at + all[k].size <= all[l].at
  <2>1. places[k].at + places[k].size <= places[l].at
    BY <1>8, Zenon DEF MarksFit
  <2> DEFINE x == places[k].at  y == places[k].size  z == places[l].at
  <2>2. /\ x \in Nat /\ y \in Nat /\ z \in Nat /\ x + y <= z
        /\ all[k].at = x - n /\ all[k].size = y /\ all[l].at = z - n
    BY <2>1, <1>6
  <2> HIDE DEF x, y, z
  <2>3. (x - n) + y <= z - n
    BY <2>2
  <2> QED BY <2>2, <2>3, Zenon
<1>9. MarksFit(all, len - n)
  BY <1>5, <1>7, <1>8, Zenon DEF MarksFit, Mark
<1> QED BY <1>5, <1>6, <1>9, Zenon DEF all

LEMMA FitsTail ==
  ASSUME NEW len \in Nat, NEW places, MarksFit(places, len), places # <<>>
  PROVE  /\ MarksFit(Tail(places), len) /\ Len(Tail(places)) = Len(places) - 1
         /\ \A k \in 1 .. Len(places) - 1 :
              /\ Tail(places)[k] = places[k + 1]
              /\ places[1].at + places[1].size <= Tail(places)[k].at
         /\ 1 \in 1..Len(places) /\ places[1] \in Mark /\ Head(places) = places[1]
<1> DEFINE t == Tail(places)  n == Len(places)
<1>1. places \in Seq(Mark)
  BY DEF MarksFit, Mark
<1>2. /\ t \in Seq(Mark) /\ Len(t) = n - 1 /\ n \in Nat /\ n >= 1
      /\ \A k \in 1..Len(t) : t[k] = places[k + 1]
  <2>1. t \in Seq(Mark) /\ Len(t) = n - 1 /\ \A k \in 1..Len(t) : t[k] = places[k + 1]
    BY <1>1, HeadTailProperties
  <2>2. n \in Nat /\ n # 0
    BY <1>1
  <2> QED BY <2>1, <2>2
<1>3. 1 \in 1..n /\ Head(places) = places[1]
  BY <1>1, <1>2
<1>4. places[1] \in Mark
  BY <1>1, <1>3, ElementOfSeq
<1> HIDE DEF t
<1>5. \A k \in 1 .. n - 1 : k + 1 \in 1..n /\ 1 < k + 1 /\ t[k] = places[k + 1]
  BY <1>2
<1>6. MarksFit(places, len)
  OBVIOUS
<1>7. \A k \in 1 .. n - 1 : places[1].at + places[1].size <= t[k].at
  BY <1>3, <1>5, <1>6, Zenon DEF MarksFit
<1>8. \A k \in 1 .. n - 1 : t[k].at + t[k].size <= len
  BY <1>5, <1>6, Zenon DEF MarksFit
<1>9. ASSUME NEW k \in 1 .. n - 1, NEW l \in 1 .. n - 1, k < l
      PROVE  t[k].at + t[k].size <= t[l].at
  <2>1. k + 1 \in 1..n /\ l + 1 \in 1..n /\ k + 1 < l + 1
    BY <1>2, <1>9
  <2>2. places[k + 1].at + places[k + 1].size <= places[l + 1].at
    BY <2>1, <1>6 DEF MarksFit
  <2> QED BY <2>2, <1>5, Zenon
<1>10. MarksFit(t, len)
  BY <1>2, <1>8, <1>9, Zenon DEF MarksFit, Mark
<1> QED BY <1>2, <1>3, <1>4, <1>5, <1>7, <1>10, Zenon DEF t

LEMMA NextDodIs ==
  ASSUME RoomInv, NEW x \in Samples
  PROVE  /\ NextDod(x) \in ChannelStates
         /\ \A c \in Channel : Residuals(x)[c] \in Int16Range
<1>1. writer.dod \in ChannelStates /\ x \in [Channel -> Int16Range]
  BY DaqCodecAssumption DEF RoomInv
<1>2. ASSUME NEW c \in Channel
      PROVE  /\ x[c] \in Int16Range
             /\ Int16(x[c] - writer.dod[c].sample) \in Int16Range
             /\ Int16(x[c] - writer.dod[c].sample) \in Int
             /\ writer.dod[c].delta \in Int
  <2>1. x[c] \in Int16Range /\ writer.dod[c].sample \in Int16Range
        /\ writer.dod[c].delta \in Int16Range
    BY <1>1 DEF ChannelStates
  <2> DEFINE d == x[c] - writer.dod[c].sample
  <2>2. d \in Int /\ writer.dod[c].delta \in Int
    BY <2>1, Int16RangeIs
  <2> HIDE DEF d
  <2>3. Int16(d) \in Int16Range /\ Int16(d) \in Int
    BY <2>2, Int16Is
  <2> QED BY <2>1, <2>2, <2>3, Zenon DEF d
<1>3. NextDod(x) \in ChannelStates
  <2> DEFINE delta(c) == Int16(x[c] - writer.dod[c].sample)
  <2>1. \A c \in Channel : x[c] \in Int16Range /\ delta(c) \in Int16Range
    BY <1>2, Zenon
  <2>2. NextDod(x) = [c \in Channel |-> [sample |-> x[c], delta |-> delta(c)]]
    BY Zenon DEF NextDod
  <2> HIDE DEF delta
  <2>3. [c \in Channel |-> [sample |-> x[c], delta |-> delta(c)]]
          \in [Channel -> [sample : Int16Range, delta : Int16Range]]
    BY <2>1
  <2> QED BY <2>2, <2>3, Zenon DEF ChannelStates
<1>4. ASSUME NEW c \in Channel PROVE Residuals(x)[c] \in Int16Range
  <2> DEFINE a == NextDod(x)[c].delta  b == writer.dod[c].delta
  <2>1. a \in Int16Range /\ b \in Int16Range
    BY <1>1, <1>3 DEF ChannelStates
  <2>2. Residuals(x)[c] = Int16(a - b)
    BY Zenon DEF Residuals
  <2> HIDE DEF a, b
  <2>3. a - b \in Int
    BY <2>1, Int16RangeIs
  <2> QED BY <2>2, <2>3, Int16Is
<1> QED BY <1>3, <1>4

(* The codes of the residuals of a vector. *)
Codes(x) == [c \in Channel |-> EncodeDod(Residuals(x)[c])]

LEMMA CodesAre ==
  ASSUME RoomInv, NEW x \in Samples
  PROVE  /\ Codes(x) \in Seq(Seq(Octet)) /\ Len(Codes(x)) = Channels
         /\ \A c \in 1..Channels : Len(Codes(x)[c]) \in 1..3
<1>1. ASSUME NEW c \in Channel
      PROVE  EncodeDod(Residuals(x)[c]) \in Seq(Octet) /\ Len(EncodeDod(Residuals(x)[c])) \in 1..3
  <2> DEFINE d == Residuals(x)[c]
  <2>1. d \in Int16Range
    BY NextDodIs
  <2> HIDE DEF d
  <2>2. EncodeDod(d) \in Seq(Octet) /\ Len(EncodeDod(d)) \in 1..3
    BY <2>1, EncodeDodIs
  <2> QED BY <2>2 DEF d
<1>2. Channel = 1..Channels
  BY DEF Channel
<1>3. Codes(x) \in [1..Channels -> Seq(Octet)]
  BY <1>1, <1>2, Zenon DEF Codes
<1>4. Codes(x) \in Seq(Seq(Octet)) /\ Len(Codes(x)) = Channels
  BY <1>3, ChannelsAre, CountedSeq, Zenon
<1>5. \A c \in 1..Channels : Len(Codes(x)[c]) \in 1..3
  BY <1>1, <1>2, Zenon DEF Codes
<1> QED BY <1>4, <1>5

LEMMA StreamFree ==
  ASSUME RoomInv
  PROVE  /\ Len(stream) \in Nat /\ Capacity \in Nat
         /\ Free > Reserve => Len(stream) + 16 * Channels < Capacity - 1
         /\ Free > 16 => Len(stream) + 16 < Capacity - 1
<1> DEFINE n == Len(stream)
<1>1. n \in Nat /\ Capacity \in Nat /\ Channels \in Nat /\ Reserve = 16 * Channels
  BY ChannelsAre, DaqCodecAssumption DEF RoomInv
<1>2. Free = Capacity - 1 - n
  BY DEF Free
<1> HIDE DEF n
<1>3. Free > Reserve => n + 16 * Channels < Capacity - 1
  BY <1>1, <1>2
<1>4. Free > 16 => n + 16 < Capacity - 1
  BY <1>1, <1>2
<1> QED BY <1>1, <1>3, <1>4 DEF n

(* The pushes put their codes behind the stream. *)
LEMMA Pushes ==
  ASSUME RoomInv, NEW x \in Samples, Len(input) < MaxSamples
  PROVE  /\ ResyncBlock(x) \in Seq(Octet) /\ Len(ResyncBlock(x)) = ResyncSize
         /\ Joined(Codes(x))[Channels] \in Seq(Octet)
         /\ Len(Joined(Codes(x))[Channels]) \in Nat
         /\ Len(Joined(Codes(x))[Channels]) <= 3 * Channels
<1>1. Len(input) \in Nat /\ Len(input) < 2 * Half
  <2>1. Len(input) \in Nat /\ MaxSamples \in Nat /\ MaxSamples < 2 * Half /\ Half \in Nat
    BY HalfIs, DaqCodecAssumption DEF RoomInv
  <2> QED BY <2>1
<1>2. NextDod(x) \in ChannelStates
  BY NextDodIs
<1>3. ResyncBlock(x) \in Seq(Octet) /\ Len(ResyncBlock(x)) = ResyncSize
  <2> DEFINE n == Len(input)  dod == NextDod(x)
  <2>1. ResyncBlock(x) = ResyncBytes(n, dod)
    BY Zenon DEF ResyncBlock
  <2> HIDE DEF n, dod
  <2>2. ResyncBytes(n, dod) \in Seq(Octet) /\ Len(ResyncBytes(n, dod)) = ResyncSize
    BY <1>1, <1>2, ResyncBytesAre DEF n, dod
  <2> QED BY <2>1, <2>2, Zenon
<1> DEFINE codes == Codes(x)
<1>4. /\ codes \in Seq(Seq(Octet)) /\ Len(codes) = Channels
      /\ \A c \in 1..Channels : Len(codes[c]) \in 1..3
  BY CodesAre
<1> HIDE DEF codes
<1>5. Channels \in Nat /\ Channels \in 0..Channels /\ \A y \in 1..3 : y <= 3
  BY ChannelsAre
<1>6. Joined(codes)[Channels] \in Seq(Octet)
  BY <1>4, <1>5, JoinedIs, Zenon
<1>7. \A c \in 1..Len(codes) : Len(codes[c]) <= 3
  BY <1>4, <1>5, Zenon
<1>8. Len(Joined(codes)[Channels]) \in Nat /\ Len(Joined(codes)[Channels]) <= 3 * Channels
  <2>1. LET f == Joined(codes)
        IN  Len(f[Len(codes)]) \in Nat /\ Len(f[Len(codes)]) <= 3 * Len(codes)
    BY <1>4, <1>7, JoinedIsShort, Zenon
  <2> QED BY <2>1, <1>4, Zenon
<1> QED BY <1>3, <1>6, <1>8, Zenon DEF codes

LEMMA MarkedFits ==
  ASSUME RoomInv, NEW size \in Nat \ {0}, NEW len \in Nat, Len(stream) + size <= len
  PROVE  MarksFit(Marked([at |-> Len(stream), size |-> size]), len)
<1> DEFINE mark == [at |-> Len(stream), size |-> size]
<1>1. MarksFit(marks, Len(stream)) /\ Len(stream) \in Nat
  BY DEF RoomInv
<1>2. MarksFit(Append(marks, mark), len)
  BY <1>1, FitsOneMore
<1>3. MarksFit(marks, len)
  <2> DEFINE n == Len(stream)
  <2>1. n \in Nat /\ n + size <= len /\ MarksFit(marks, n)
    BY <1>1
  <2> HIDE DEF n
  <2>2. n <= len
    BY <2>1
  <2> QED BY <2>1, <2>2, FitsLonger
<1>4. Marked(mark) = Append(marks, mark) \/ Marked(mark) = marks
  BY DEF Marked
<1> HIDE DEF mark
<1>5. MarksFit(Marked(mark), len)
  BY <1>2, <1>3, <1>4, Zenon
<1> QED BY <1>5, Zenon DEF mark

(* A sequence is cut behind its first n elements. *)
Cut(piece, rest, s, n) ==
  /\ Len(piece) = n /\ \A k \in 1..n : piece[k] = s[k]
  /\ Len(rest) = Len(s) - n /\ \A k \in 1 .. Len(s) - n : rest[k] = s[n + k]

LEMMA Cutting ==
  ASSUME NEW S, NEW s \in Seq(S), NEW n \in 0..Len(s)
  PROVE  /\ SubSeq(s, 1, n) \in Seq(S) /\ SubSeq(s, n + 1, Len(s)) \in Seq(S)
         /\ Cut(SubSeq(s, 1, n), SubSeq(s, n + 1, Len(s)), s, n)
<1> DEFINE p == SubSeq(s, 1, n)  r == SubSeq(s, n + 1, Len(s))  len == Len(s)
<1>1. len \in Nat /\ n \in Nat /\ n <= len
  OBVIOUS
<1>2. p \in Seq(S) /\ Len(p) = n /\ \A k \in 1..n : p[k] = s[k]
  <2>1. \A k \in 1..n : s[k] \in S
    BY <1>1, ElementOfSeq
  <2> QED BY <1>1, <2>1
<1>3. r \in Seq(S) /\ Len(r) = len - n /\ \A k \in 1 .. len - n : r[k] = s[n + k]
  <2>1. \A k \in n + 1 .. len : s[k] \in S
    BY <1>1, ElementOfSeq
  <2>2. Len(r) = len - n
    BY <1>1
  <2>3. \A k \in 1 .. len - n : r[k] = s[n + k]
    BY <1>1
  <2>4. r \in Seq(S)
    BY <1>1, <2>1
  <2> QED BY <2>2, <2>3, <2>4
<1> QED BY <1>2, <1>3, Zenon DEF Cut

(* What readNext leaves of the marks before it moves them up. *)
ReadMarks(type, n, places, left) ==
  /\ type = "Sample" => left = places
  /\ type = "Control" => /\ places # <<>> /\ left = Tail(places)
                         /\ places[1].at = 0 /\ n = places[1].size
  /\ \A k \in 1..Len(left) : n <= left[k].at

LEMMA ReadIs ==
  ASSUME RoomInv, ReadNext
  PROVE  \E n \in 1..Len(stream), type \in {"Control", "Sample"}, left \in Seq(Mark) :
           /\ ReadMarks(type, n, marks, left) /\ marks' = MovedUp(left, n)
           /\ MarksFit(left, Len(stream))
           /\ chunk = None /\ chunk' = [type |-> type, bytes |-> SubSeq(stream, 1, n)]
           /\ stream' = SubSeq(stream, n + 1, Len(stream))
           /\ \E b \in {FALSE, writer.backpressure} :
                writer' = [writer EXCEPT !.backpressure = b]
<1> DEFINE len == Len(stream)
           distance == IF marks = <<>> THEN Len(stream) ELSE Head(marks).at
           control  == marks # <<>> /\ distance = 0
           wanted   == IF control THEN Head(marks).size ELSE distance
           n        == IF wanted > BufSize THEN BufSize ELSE wanted
           rest     == SubSeq(stream, n + 1, Len(stream))
           type     == IF control THEN "Control" ELSE "Sample"
           left     == IF control THEN Tail(marks) ELSE marks
<1>1. /\ chunk = None /\ stream # <<>> /\ (control => wanted <= BufSize)
      /\ chunk' = [type |-> type, bytes |-> SubSeq(stream, 1, n)]
      /\ stream' = rest
      /\ marks' = MovedUp(left, n)
      /\ writer' = [writer EXCEPT !.backpressure = Relieved(rest, type)]
  BY Zenon DEF ReadNext, MovedUp
<1>2. /\ len \in Nat /\ len >= 1 /\ BufSize \in Nat /\ BufSize >= 1 /\ MarksFit(marks, len)
  <2>1. stream \in Seq(Octet) /\ MarksFit(marks, len)
    BY Zenon DEF RoomInv
  <2>2. Channels \in Nat
    BY ChannelsAre
  <2> QED BY <1>1, <2>1, <2>2, DaqCodecAssumption, SMTT(30)
<1>3. marks # <<>> => /\ MarksFit(Tail(marks), len) /\ Len(Tail(marks)) = Len(marks) - 1
                      /\ \A k \in 1 .. Len(marks) - 1 :
                           marks[1].at + marks[1].size <= Tail(marks)[k].at
                      /\ 1 \in 1..Len(marks) /\ marks[1] \in Mark /\ Head(marks) = marks[1]
  BY <1>2, FitsTail, Zenon
<1>4. marks # <<>> => /\ marks[1].at \in Nat /\ marks[1].size \in Nat /\ marks[1].size >= 1
                      /\ marks[1].at + marks[1].size <= len
  BY <1>2, <1>3 DEF Mark, MarksFit
<1> HIDE DEF len
<1>5. CASE control
  <2>1. /\ marks # <<>> /\ marks[1].at = 0 /\ wanted = marks[1].size /\ type = "Control"
        /\ left = Tail(marks)
    BY <1>3, <1>5
  <2>2. n = marks[1].size
    BY <1>1, <1>2, <1>4, <1>5, <2>1
  <2>3. n \in 1..len
    BY <1>2, <1>4, <2>1, <2>2
  <2>4. \A k \in 1..Len(left) : n <= left[k].at
    <3>1. marks[1].at + marks[1].size = n
      BY <2>1, <2>2, <1>4
    <3> QED BY <3>1, <1>3, <2>1, Zenon
  <2>5. ReadMarks(type, n, marks, left) /\ MarksFit(left, len)
    <3> HIDE DEF n, left, type
    <3>1. type # "Sample"
      BY <2>1
    <3> QED BY <3>1, <2>1, <2>2, <2>4, <1>3, Zenon DEF ReadMarks
  <2>6. Relieved(rest, type) \in {FALSE, writer.backpressure}
    BY Zenon DEF Relieved, RoomInv
  <2> HIDE DEF n, left, type, rest
  <2>7. type \in {"Control", "Sample"}
    BY <2>1
  <2>8. left \in Seq(Mark)
    BY <2>5, Zenon DEF MarksFit, Mark
  <2> QED BY <1>1, <2>3, <2>5, <2>6, <2>7, <2>8, Zenon DEF rest, len
<1>6. CASE ~control
  <2>1. type = "Sample" /\ left = marks /\ wanted = distance /\ (marks # <<>> => distance # 0)
    BY <1>6
  <2>2. distance \in 1..len
    <3>1. CASE marks = <<>>
      BY <3>1, <1>2 DEF len
    <3>2. CASE marks # <<>>
      <4>1. distance = marks[1].at
        BY <3>2, <1>3
      <4> QED BY <4>1, <2>1, <3>2, <1>2, <1>4
    <3> QED BY <3>1, <3>2
  <2>3. n \in 1..len /\ n <= distance
    <3> HIDE DEF distance
    <3> QED BY <1>2, <2>1, <2>2
  <2>4. \A k \in 1..Len(marks) : n <= marks[k].at
    <3> SUFFICES ASSUME NEW k \in 1..Len(marks) PROVE n <= marks[k].at
      OBVIOUS
    <3>1. Len(marks) \in Nat /\ marks[k] \in Mark
      <4>1. marks \in Seq(Mark)
        BY <1>2, Zenon DEF MarksFit, Mark
      <4> QED BY <4>1, ElementOfSeq
    <3>2. marks # <<>>
      <4>1. marks = <<>> => Len(marks) = 0
        OBVIOUS
      <4> QED BY <3>1, <4>1
    <3>3. distance = marks[1].at
      BY <3>2, <1>3
    <3>4. k # 1 => marks[1].at + marks[1].size <= marks[k].at
      <4>1. k # 1 => 1 \in 1..Len(marks) /\ 1 < k
        BY <3>1
      <4> QED BY <4>1, <1>2, Zenon DEF MarksFit
    <3> DEFINE x == marks[k].at  y == marks[1].at  z == marks[1].size
    <3>5. x \in Nat /\ y \in Nat /\ z \in Nat
      BY <3>1, <3>2, <1>4 DEF Mark
    <3>6. n \in Nat /\ n <= y
      BY <2>3, <3>3, <1>2
    <3>7. k = 1 => x = y
      OBVIOUS
    <3>8. k # 1 => y + z <= x
      BY <3>4
    <3> HIDE DEF x, y, z, n
    <3>9. n <= x
      BY <3>5, <3>6, <3>7, <3>8
    <3> QED BY <3>9 DEF x
  <2>5. ReadMarks(type, n, marks, left) /\ MarksFit(left, len)
    <3> HIDE DEF n, left, type
    <3>1. type # "Control"
      BY <2>1
    <3> QED BY <3>1, <2>1, <2>4, <1>2, Zenon DEF ReadMarks
  <2>6. Relieved(rest, type) \in {FALSE, writer.backpressure}
    BY Zenon DEF Relieved, RoomInv
  <2> HIDE DEF n, left, type, rest
  <2>7. type \in {"Control", "Sample"}
    BY <2>1
  <2>8. left \in Seq(Mark)
    BY <2>5, Zenon DEF MarksFit, Mark
  <2> QED BY <1>1, <2>3, <2>5, <2>6, <2>7, <2>8, Zenon DEF rest, len
<1> QED BY <1>5, <1>6, Zenon

LEMMA WriterStays ==
  ASSUME RoomInv, NEW dod \in ChannelStates, NEW till \in Nat, NEW b \in BOOLEAN
  PROVE  LET Writers == [dod : ChannelStates, syncPeriod : SyncPeriods, tillSync : Nat,
                         backpressure : BOOLEAN]
         IN  /\ writer.tillSync \in Nat /\ writer.syncPeriod \in SyncPeriods
             /\ writer.syncPeriod \in Nat /\ writer.backpressure \in BOOLEAN
             /\ writer.dod \in ChannelStates
             /\ [writer EXCEPT !.dod = dod, !.backpressure = b, !.tillSync = till] \in Writers
             /\ [writer EXCEPT !.dod = dod, !.tillSync = till] \in Writers
             /\ [writer EXCEPT !.backpressure = b] \in Writers
             /\ [writer EXCEPT !.tillSync = till] \in Writers
<1> DEFINE D == ChannelStates
<1>1. writer \in [dod : D, syncPeriod : SyncPeriods, tillSync : Nat, backpressure : BOOLEAN]
  BY DEF RoomInv
<1>2. dod \in D /\ \A p \in SyncPeriods : p \in Nat
  BY DaqCodecAssumption
<1> HIDE DEF D
<1> QED BY <1>1, <1>2, Zenon DEF D

(* Each push grows the stream by what there is room for. *)
LEMMA RoomPush ==
  ASSUME RoomInv, PushSample
  PROVE  RoomInv'
<1> DEFINE Writers == [dod : ChannelStates, syncPeriod : SyncPeriods, tillSync : Nat,
                       backpressure : BOOLEAN]
           len == Len(stream)
<1>1. PICK x \in Samples : /\ PushRefused(x) \/ PushResync(x) \/ PushDods(x)
                           /\ input' = Append(input, x)
  BY Zenon DEF PushSample
<1>2. input' \in Seq(Samples) /\ Len(input') <= MaxSamples /\ Len(input) < MaxSamples
  <2>1. Len(input) < MaxSamples /\ input \in Seq(Samples) /\ MaxSamples \in Nat
    BY DaqCodecAssumption DEF PushSample, RoomInv
  <2>2. Len(Append(input, x)) = Len(input) + 1 /\ Append(input, x) \in Seq(Samples)
    BY <2>1, AppendProperties
  <2> QED BY <1>1, <2>1, <2>2
<1>3. NextDod(x) \in ChannelStates
  BY NextDodIs
<1>4. /\ len \in Nat /\ Capacity \in Nat /\ stream \in Seq(Octet) /\ MarksFit(marks, len)
      /\ Channels \in Nat /\ 1 <= Channels /\ ResyncSize = 5 + 4 * Channels
      /\ (Free > Reserve => len + 16 * Channels < Capacity - 1)
  BY StreamFree, ChannelsAre DEF RoomInv
<1>5. CASE PushRefused(x)
  <2>1. writer' \in Writers
    <3> DEFINE till == IF writer.backpressure THEN writer.tillSync ELSE 0
    <3>1. till \in Nat
      BY WriterStays, <1>3, Zenon
    <3>2. writer' = [writer EXCEPT !.dod = NextDod(x), !.backpressure = TRUE, !.tillSync = till]
      BY <1>5 DEF PushRefused
    <3> HIDE DEF till
    <3> QED BY <3>1, <3>2, <1>3, WriterStays, Zenon
  <2>2. stream' = stream /\ marks' = marks
    BY <1>5 DEF PushRefused
  <2> QED BY <2>1, <2>2, <1>2 DEF RoomInv
<1>6. CASE PushResync(x)
  <2>1. writer' \in Writers
    <3>1. writer' = [writer EXCEPT !.dod = NextDod(x), !.tillSync = writer.syncPeriod]
      BY <1>6 DEF PushResync
    <3>2. writer.syncPeriod \in Nat
      BY WriterStays, <1>3, Zenon
    <3> QED BY <3>1, <3>2, <1>3, WriterStays, Zenon
  <2> DEFINE block == ResyncBlock(x)
  <2>2. block \in Seq(Octet) /\ Len(block) = ResyncSize
    BY <1>2, Pushes
  <2>3. stream' = stream \o block
    BY <1>6 DEF PushResync
  <2> HIDE DEF block
  <2>4. stream' \in Seq(Octet) /\ Len(stream') = len + ResyncSize
    BY <1>4, <2>2, <2>3, Concatenated, Zenon DEF Glued
  <2>5. len + 16 * Channels < Capacity - 1
    BY <1>4, <1>6 DEF PushResync
  <2>6. marks' = Marked([at |-> len, size |-> ResyncSize])
    BY <1>6, Zenon DEF PushResync, ResyncSize
  <2>7. ResyncSize \in Nat \ {0} /\ len + ResyncSize \in Nat /\ Len(stream') <= Capacity - 1
    <3> HIDE DEF len
    <3> QED BY <1>4, <2>4, <2>5
  <2>8. MarksFit(marks', len + ResyncSize)
    <3>1. len + ResyncSize <= len + ResyncSize
      BY <2>7
    <3>2. MarksFit(Marked([at |-> len, size |-> ResyncSize]), len + ResyncSize)
      BY <2>7, <3>1, MarkedFits
    <3> QED BY <2>6, <3>2, Zenon
  <2>9. MarksFit(marks, Len(stream))'
    BY <2>4, <2>8, Zenon
  <2> QED BY <2>1, <2>4, <2>7, <2>9, <1>2 DEF RoomInv
<1>7. CASE PushDods(x)
  <2>1. writer' \in Writers
    <3> DEFINE till == writer.tillSync - 1
    <3>1. till \in Nat
      <4>1. writer.tillSync \in Nat /\ writer.tillSync > 0
        BY <1>3, <1>7, WriterStays, Zenon DEF PushDods
      <4> QED BY <4>1
    <3>2. writer' = [writer EXCEPT !.dod = NextDod(x), !.tillSync = till]
      BY <1>7 DEF PushDods
    <3> HIDE DEF till
    <3> QED BY <3>1, <3>2, <1>3, WriterStays, Zenon
  <2> DEFINE block == Joined(Codes(x))[Channels]
  <2>2. block \in Seq(Octet) /\ Len(block) \in Nat /\ Len(block) <= 3 * Channels
    BY <1>2, Pushes
  <2>3. stream' = stream \o block /\ marks' = marks
    BY <1>7, Zenon DEF PushDods, Codes
  <2> HIDE DEF block
  <2>4. stream' \in Seq(Octet) /\ Len(stream') = len + Len(block)
    BY <1>4, <2>2, <2>3, Concatenated DEF Glued
  <2>5. len + 16 * Channels < Capacity - 1
    BY <1>4, <1>7 DEF PushDods
  <2>6. len + Len(block) \in Nat /\ len <= len + Len(block) /\ Len(stream') <= Capacity - 1
    <3> DEFINE m == Len(block)
    <3> HIDE DEF len, m
    <3>1. m \in Nat /\ m <= 3 * Channels /\ Len(stream') = len + m
      BY <2>2, <2>4 DEF m
    <3>2. len + m \in Nat /\ len <= len + m /\ len + m <= Capacity - 1
      BY <1>4, <2>5, <3>1
    <3> QED BY <3>1, <3>2 DEF m
  <2>7. MarksFit(marks, len + Len(block))
    BY <1>4, <2>6, FitsLonger
  <2>8. MarksFit(marks, Len(stream))'
    BY <2>3, <2>4, <2>7, Zenon
  <2> QED BY <2>1, <2>4, <2>6, <2>8, <1>2 DEF RoomInv
<1> QED BY <1>1, <1>5, <1>6, <1>7

LEMMA RoomFlush ==
  ASSUME RoomInv, Flush
  PROVE  RoomInv'
<1>full. CASE ~(Free > 16)
  <2>1. UNCHANGED <<marks, stream, writer, input>>
    BY <1>full, Zenon DEF Flush
  <2> QED BY <2>1, Zenon DEF RoomInv
<1>room. CASE Free > 16
  <2> DEFINE len == Len(stream)
  <2>1. /\ len \in Nat /\ Capacity \in Nat /\ stream \in Seq(Octet)
        /\ len + 16 < Capacity - 1
    BY <1>room, StreamFree DEF RoomInv
  <2>2. /\ writer' \in [dod : ChannelStates, syncPeriod : SyncPeriods, tillSync : Nat,
                        backpressure : BOOLEAN]
    <3>1. writer.dod \in ChannelStates
      BY DEF RoomInv
    <3>2. writer' = [writer EXCEPT !.tillSync = 0] /\ 0 \in Nat
      BY <1>room DEF Flush
    <3> QED BY <3>1, <3>2, WriterStays, Zenon
  <2>3. stream' \in Seq(Octet) /\ Len(stream') = len + 1
    <3>1. stream' = Append(stream, 254) /\ 254 \in Octet
      BY <1>room DEF Flush, Octet
    <3> QED BY <2>1, <3>1, AppendProperties
  <2>4. MarksFit(marks, Len(stream))'
    <3>1. marks' = Marked([at |-> len, size |-> 1])
      BY <1>room, Zenon DEF Flush
    <3>2. 1 \in Nat \ {0} /\ len + 1 \in Nat /\ len + 1 <= len + 1
      BY <2>1
    <3>3. MarksFit(Marked([at |-> len, size |-> 1]), len + 1)
      BY <3>2, MarkedFits
    <3> QED BY <2>3, <3>1, <3>3, Zenon
  <2>5. input' = input /\ Len(stream') <= Capacity - 1
    <3>1. input' = input
      BY <1>room DEF Flush
    <3> HIDE DEF len
    <3>2. len + 1 <= Capacity - 1
      BY <2>1
    <3> QED BY <3>1, <3>2, <2>3
  <2> QED BY <2>2, <2>3, <2>4, <2>5 DEF RoomInv
<1> QED BY <1>full, <1>room

LEMMA RoomRead ==
  ASSUME RoomInv, ReadNext
  PROVE  RoomInv'
<1> DEFINE len == Len(stream)
<1>1. PICK n \in 1..len, type \in {"Control", "Sample"}, left \in Seq(Mark) :
           /\ ReadMarks(type, n, marks, left) /\ marks' = MovedUp(left, n)
           /\ MarksFit(left, len)
           /\ stream' = SubSeq(stream, n + 1, len)
           /\ \E b \in {FALSE, writer.backpressure} :
                writer' = [writer EXCEPT !.backpressure = b]
  BY ReadIs, Zenon
<1>2. stream \in Seq(Octet) /\ len \in Nat /\ Capacity \in Nat /\ len <= Capacity - 1
  BY DaqCodecAssumption DEF RoomInv
<1>3. n \in 0..len
  BY <1>2
<1>4. stream' \in Seq(Octet) /\ Len(stream') = len - n
  BY <1>1, <1>2, <1>3, Cutting DEF Cut
<1>5. MarksFit(marks, Len(stream))'
  <2>1. MarksFit(MovedUp(left, n), len - n)
    <3>1. \A k \in 1..Len(left) : n <= left[k].at
      BY <1>1, Zenon DEF ReadMarks
    <3> QED BY <1>1, <1>2, <1>3, <3>1, FitsMovedUp, Zenon
  <2> QED BY <1>1, <1>4, <2>1, Zenon
<1>6. writer' \in [dod : ChannelStates, syncPeriod : SyncPeriods, tillSync : Nat,
                   backpressure : BOOLEAN]
  <2>1. writer.dod \in ChannelStates /\ writer.tillSync \in Nat
        /\ writer.backpressure \in BOOLEAN
    BY DEF RoomInv
  <2>2. PICK b \in {FALSE, writer.backpressure} : writer' = [writer EXCEPT !.backpressure = b]
    BY <1>1, Zenon
  <2>3. b \in BOOLEAN
    BY <2>1, Zenon
  <2> QED BY <2>1, <2>2, <2>3, WriterStays, Zenon
<1>7. input' = input
  BY DEF ReadNext
<1>8. Len(stream') <= Capacity - 1
  <2> HIDE DEF len
  <2> QED BY <1>2, <1>3, <1>4
<1> QED BY <1>4, <1>5, <1>6, <1>7, <1>8 DEF RoomInv

LEMMA RoomInit == CodecInit => RoomInv
<1> SUFFICES ASSUME CodecInit PROVE RoomInv
  OBVIOUS
<1>1. 0 \in Int16Range
  BY Int16RangeIs, HalfIs
<1>2. writer.dod \in ChannelStates
  <2>1. writer.dod = [c \in Channel |-> [sample |-> 0, delta |-> 0]]
    BY DEF CodecInit
  <2> QED BY <1>1, <2>1 DEF ChannelStates
<1>3. writer \in [dod : ChannelStates, syncPeriod : SyncPeriods, tillSync : Nat,
                  backpressure : BOOLEAN]
  <2> DEFINE still == [c \in Channel |-> [sample |-> 0, delta |-> 0]]  D == ChannelStates
  <2>1. writer \in [dod : {still}, syncPeriod : SyncPeriods, tillSync : {0},
                    backpressure : {FALSE}]
    BY Zenon DEF CodecInit
  <2>2. writer.dod \in D
    BY <1>2
  <2> HIDE DEF still, D
  <2>3. still \in D
    BY <2>1, <2>2
  <2>4. PICK p \in SyncPeriods : writer = [dod |-> still, syncPeriod |-> p, tillSync |-> 0,
                                           backpressure |-> FALSE]
    <3>1. /\ writer = [dod |-> writer.dod, syncPeriod |-> writer.syncPeriod,
                       tillSync |-> writer.tillSync, backpressure |-> writer.backpressure]
          /\ writer.dod = still /\ writer.syncPeriod \in SyncPeriods
          /\ writer.tillSync = 0 /\ writer.backpressure = FALSE
      BY <2>1, Zenon
    <3> QED BY <3>1, Zenon
  <2>5. writer \in [dod : D, syncPeriod : SyncPeriods, tillSync : Nat, backpressure : BOOLEAN]
    BY <2>3, <2>4
  <2> QED BY <2>5 DEF D
<1>4. stream = <<>> /\ marks = <<>> /\ input = <<>>
  BY DEF CodecInit
<1>5. Len(stream) = 0 /\ stream \in Seq(Octet) /\ input \in Seq(Samples) /\ Len(input) = 0
  BY <1>4
<1>6. MarksFit(marks, Len(stream))
  BY <1>4 DEF MarksFit
<1>7. 0 <= Capacity - 1 /\ 0 <= MaxSamples
  BY DaqCodecAssumption
<1> QED BY <1>3, <1>5, <1>6, <1>7 DEF RoomInv

LEMMA RoomStep ==
  ASSUME RoomInv, [CodecNext]_codecVars
  PROVE  RoomInv'
<1>1. CASE PushSample
  BY <1>1, RoomPush
<1>2. CASE Flush
  BY <1>2, RoomFlush
<1>3. CASE ReadNext
  BY <1>3, RoomRead
<1>4. CASE Decode
  <2>1. writer' = writer /\ stream' = stream /\ marks' = marks /\ input' = input
    BY <1>4 DEF Decode
  <2> QED BY <2>1 DEF RoomInv
<1>5. CASE UNCHANGED codecVars
  <2>1. writer' = writer /\ stream' = stream /\ marks' = marks /\ input' = input
    BY <1>5 DEF codecVars
  <2> QED BY <2>1 DEF RoomInv
<1> QED BY <1>1, <1>2, <1>3, <1>4, <1>5 DEF CodecNext

(* The reserve that pushSample and flush ask for is enough: the stream     *)
(* never holds more bytes than its ring has room for, whatever the sizes   *)
(* of the samples, the residuals and the buffers (DAQCodec.h:79, 194).     *)
THEOREM ReserveNeverOverrun == CodecSpec => []ReserveSuffices
<1>1. CodecInit => RoomInv
  BY RoomInit
<1>2. RoomInv /\ [CodecNext]_codecVars => RoomInv'
  BY RoomStep
<1>3. RoomInv => ReserveSuffices
  BY DEF RoomInv, ReserveSuffices
<1> QED BY <1>1, <1>2, <1>3, PTL DEF CodecSpec

-----------------------------------------------------------------------------
(* What has been put into the stream stays as it is when more is put there. *)

(* One sequence begins with the other. *)
Extends(all, first) ==
  Len(first) <= Len(all) /\ \A k \in 1..Len(first) : all[k] = first[k]

LEMMA FedMore ==
  ASSUME NEW fed \in Seq(Samples), NEW fed2, Extends(fed2, fed), NEW n \in Int, n < Len(fed)
  PROVE  /\ Vector(fed2, n) = Vector(fed, n) /\ DodBehind(fed2, n) = DodBehind(fed, n)
         /\ \A c : Residual(fed2, n, c) = Residual(fed, n, c)
<1> DEFINE len == Len(fed)
<1>1. len \in Nat
  OBVIOUS
<1>2. ASSUME NEW m \in Int, m < len PROVE Vector(fed2, m) = Vector(fed, m)
  <2>1. m >= 0 => m + 1 \in 1..len
    BY <1>1, <1>2
  <2>2. m >= 0 => fed2[m + 1] = fed[m + 1]
    BY <2>1, Zenon DEF Extends
  <2> QED BY <2>2, Zenon DEF Vector
<1>3. n - 1 \in Int /\ n - 2 \in Int /\ (n - 1) - 1 = n - 2 /\ n < len /\ n - 1 < len /\ n - 2 < len
  BY <1>1
<1> HIDE DEF len
<1>4. /\ Vector(fed2, n) = Vector(fed, n) /\ Vector(fed2, n - 1) = Vector(fed, n - 1)
      /\ Vector(fed2, (n - 1) - 1) = Vector(fed, (n - 1) - 1)
  BY <1>2, <1>3, Zenon
<1>5. DodBehind(fed2, n) = DodBehind(fed, n) /\ DodBehind(fed2, n - 1) = DodBehind(fed, n - 1)
  BY <1>4, Zenon DEF DodBehind
<1>6. \A c : Residual(fed2, n, c) = Residual(fed, n, c)
  BY <1>5, Zenon DEF Residual
<1> QED BY <1>4, <1>5, <1>6

LEMMA EntryStays ==
  ASSUME NEW fed \in Seq(Samples), NEW fed2, Extends(fed2, fed), Len(fed2) \in Nat,
         NEW taken, NEW taken2, taken \subseteq taken2,
         NEW e \in Entries, NEW period, EntryIs(e, fed, taken, period)
  PROVE  EntryIs(e, fed2, taken2, period)
<1> DEFINE n == e.n
<1>1. n \in Int /\ Len(fed) \in Nat /\ Len(fed) <= Len(fed2)
  BY DEF Entries, Extends
<1>2. n \in -1 .. Len(fed) - 1 /\ EntryIs(e, fed, taken, period)
  BY DEF EntryIs
<1> HIDE DEF n
<1>3. n < Len(fed) /\ n \in -1 .. Len(fed2) - 1
  BY <1>1, <1>2
<1>4. DodBehind(fed2, n) = DodBehind(fed, n) /\ \A c : Residual(fed2, n, c) = Residual(fed, n, c)
  BY <1>1, <1>3, FedMore
<1>5. n >= 0 => e.block .. n \subseteq taken2
  <2>1. n >= 0 => e.block .. n \subseteq taken
    BY <1>2, Zenon DEF n, EntryIs
  <2> QED BY <2>1, Zenon
<1> QED BY <1>2, <1>3, <1>4, <1>5, Zenon DEF n, EntryIs

(* The log goes on with more entries. *)
LEMMA LogGoesOn ==
  ASSUME NEW fed \in Seq(Samples), Len(fed) <= MaxSamples,
         NEW fed2, Extends(fed2, fed), Len(fed2) \in Nat,
         NEW taken, NEW taken2, taken \subseteq taken2,
         NEW codes \in Seq(Entries), NEW period, LogIs(codes, fed, taken, period),
         NEW all \in Seq(Entries), Extends(all, codes),
         codes = <<>> /\ all # <<>> =>
           /\ all[1].at = 0 /\ Control(all[1]) /\ (all[1].kind = "flush" => all[1].n = -1),
         \A j \in Len(codes) + 1 .. Len(all) :
           /\ EntryIs(all[j], fed2, taken2, period)
           /\ Behind(codes, Len(codes)) <= all[j].at
           /\ j > 1 => Consecutive(all[j - 1], all[j])
           /\ \A k \in j + 1 .. Len(all) : EndOf(all[j]) <= all[k].at
  PROVE  LogIs(all, fed2, taken2, period)
<1> DEFINE m == Len(codes)  n == Len(all)
<1>1. m \in Nat /\ n \in Nat /\ m <= n /\ \A j \in 1..m : all[j] = codes[j]
  BY DEF Extends
<1>2. \A j \in 1..m : codes[j] \in Entries
  BY ElementOfSeq
<1>3. LogIs(codes, fed, taken, period)
  OBVIOUS
<1>4. ASSUME NEW j \in 1..n PROVE EntryIs(all[j], fed2, taken2, period)
  <2>1. CASE j \in 1..m
    <3>1. EntryIs(codes[j], fed, taken, period) /\ codes[j] \in Entries
      BY <2>1, <1>2, <1>3 DEF LogIs
    <3>2. EntryIs(codes[j], fed2, taken2, period)
      BY <3>1, EntryStays
    <3> QED BY <3>2, <2>1, <1>1
  <2>2. CASE j \in m + 1 .. n
    BY <2>2
  <2> QED BY <2>1, <2>2, <1>1
<1>5. all # <<>> => /\ all[1].at = 0 /\ Control(all[1])
                    /\ all[1].kind = "flush" => all[1].n = -1
  <2>1. CASE codes = <<>>
    BY <2>1
  <2>2. CASE codes # <<>>
    <3>1. 1 \in 1..m
      BY <2>2
    <3> QED BY <3>1, <2>2, <1>1, <1>3, Zenon DEF LogIs
  <2> QED BY <2>1, <2>2
<1>6. ASSUME NEW j \in 2..n PROVE Consecutive(all[j - 1], all[j])
  <2>1. CASE j \in 2..m
    <3>1. j - 1 \in 1..m /\ j \in 1..m
      BY <2>1, <1>1
    <3>2. Consecutive(codes[j - 1], codes[j])
      BY <2>1, <1>3 DEF LogIs
    <3> QED BY <3>1, <3>2, <1>1, Zenon
  <2>2. CASE j \in m + 1 .. n
    <3>1. j > 1
      BY <1>1
    <3> QED BY <3>1, <2>2
  <2> QED BY <2>1, <2>2, <1>1
<1>7. ASSUME NEW j \in 1..n, NEW k \in 1..n, j < k PROVE EndOf(all[j]) <= all[k].at
  <2>1. CASE k \in 1..m
    <3>1. j \in 1..m
      BY <2>1, <1>1, <1>7
    <3>2. EndOf(codes[j]) <= codes[k].at
      BY <2>1, <3>1, <1>3, <1>7 DEF LogIs
    <3> QED BY <3>1, <3>2, <2>1, <1>1, Zenon
  <2>2. CASE j \in 1..m /\ k \in m + 1 .. n
    <3>0. m \in 0..Len(codes)
      BY <1>1
    <3>1. EndOf(codes[j]) <= Behind(codes, m) /\ Behind(codes, m) \in Nat /\ EndOf(codes[j]) \in Nat
      <4>1. j <= m
        BY <2>2
      <4> QED BY <3>0, <4>1, <2>2, <1>3, Places, Zenon
    <3>2. Behind(codes, m) <= all[k].at
      BY <2>2
    <3>3. all[k] \in Entries
      BY ElementOfSeq
    <3>4. all[k].at \in Nat
      BY <3>3, Zenon DEF Entries
    <3> DEFINE x == EndOf(codes[j])  y == Behind(codes, m)  z == all[k].at
    <3>5. x \in Nat /\ y \in Nat /\ z \in Nat /\ x <= y /\ y <= z
      BY <3>1, <3>2, <3>4, Zenon
    <3> HIDE DEF x, y, z
    <3>6. x <= z
      BY <3>5
    <3>7. all[j] = codes[j]
      BY <2>2, <1>1
    <3> QED BY <3>6, <3>7, Zenon DEF x, z
  <2>3. CASE j \in m + 1 .. n
    <3>1. k \in j + 1 .. n
      BY <2>3, <1>1, <1>7
    <3> QED BY <2>3, <3>1
  <2> QED BY <2>1, <2>2, <2>3, <1>1, <1>7
<1> QED BY <1>4, <1>5, <1>6, <1>7, Zenon DEF LogIs

(* More entries come behind those there are. *)
GoesOn(all, codes) ==
  /\ all \in Seq(Entries) /\ Extends(all, codes)
  /\ \A j \in Len(codes) + 1 .. Len(all) : Behind(codes, Len(codes)) <= all[j].at

LEMMA GoesOnIs ==
  ASSUME NEW fed \in Seq(Samples), Len(fed) <= MaxSamples,
         NEW codes \in Seq(Entries), NEW taken, NEW period,
         LogIs(codes, fed, taken, period),
         NEW all, GoesOn(all, codes), NEW j \in 1..Len(all)
  PROVE  LET e == all[j]
             end == Behind(codes, Len(codes))
         IN  /\ e \in Entries /\ e.at \in Nat /\ Len(e.bytes) \in Nat /\ end \in Nat
             /\ EndOf(e) = e.at + Len(e.bytes)
             /\ \/ j \in 1..Len(codes) /\ e = codes[j] /\ e.at + Len(e.bytes) <= end
                \/ j \in Len(codes) + 1 .. Len(all) /\ end <= e.at
<1> DEFINE m == Len(codes)  n == Len(all)  end == Behind(codes, m)
<1>1. m \in Nat /\ n \in Nat /\ m <= n /\ \A l \in 1..m : all[l] = codes[l]
  BY DEF GoesOn, Extends
<1>2. all[j] \in Entries
  BY ElementOfSeq DEF GoesOn
<1>3. all[j].at \in Nat /\ Len(all[j].bytes) \in Nat
  BY <1>2 DEF Entries
<1>4. EndOf(all[j]) = all[j].at + Len(all[j].bytes)
  BY DEF EndOf
<1>5. end \in Nat /\ \A l \in 1..m : EndOf(codes[l]) <= end
  <2>1. m \in 0..Len(codes) /\ \A l \in 1..m : l <= m
    BY <1>1
  <2> QED BY <2>1, Places, Zenon
<1>6. CASE j \in 1..m
  BY <1>1, <1>2, <1>3, <1>4, <1>5, <1>6, Zenon
<1>7. CASE j \in m + 1 .. n
  <2>1. end <= all[j].at
    BY <1>7, Zenon DEF GoesOn
  <2> QED BY <1>2, <1>3, <1>4, <1>5, <1>7, <2>1, Zenon
<1> QED BY <1>1, <1>6, <1>7

LEMMA ShowsStill ==
  ASSUME NEW fed \in Seq(Samples), Len(fed) <= MaxSamples,
         NEW codes \in Seq(Entries), NEW taken, NEW period,
         LogIs(codes, fed, taken, period),
         NEW all, GoesOn(all, codes),
         NEW bytes \in Seq(Octet), NEW place \in Nat, Shows(bytes, codes, place),
         place + Len(bytes) <= Behind(codes, Len(codes))
  PROVE  Shows(bytes, all, place)
<1> DEFINE end == Behind(codes, Len(codes))  len == Len(bytes)
<1> SUFFICES ASSUME NEW j \in 1..Len(all), NEW k \in 1..Len(all[j].bytes),
                    all[j].at + k \in place + 1 .. place + len
             PROVE  bytes[(all[j].at + k) - place] = all[j].bytes[k]
  BY Zenon DEF Shows
<1> DEFINE e == all[j]
<1>1. /\ e.at \in Nat /\ end \in Nat
      /\ (j \in 1..Len(codes) /\ e = codes[j]) \/ end <= e.at
  BY GoesOnIs, Zenon
<1>2. CASE j \in 1..Len(codes) /\ e = codes[j]
  BY <1>2, Zenon DEF Shows
<1>3. CASE end <= e.at
  <2>1. Len(e.bytes) \in Nat /\ len \in Nat /\ place + len <= end /\ k \in Nat /\ 1 <= k
    <3>1. Len(e.bytes) \in Nat
      BY GoesOnIs, Zenon
    <3> HIDE DEF e
    <3> QED BY <3>1 DEF e
  <2> DEFINE x == e.at
  <2>2. x \in Nat /\ end <= x /\ x + k \in place + 1 .. place + len
    BY <1>1, <1>3
  <2> HIDE DEF x, end, len, e
  <2>3. FALSE
    BY <1>1, <2>1, <2>2
  <2> QED BY <2>3
<1> QED BY <1>1, <1>2, <1>3

LEMMA PlaceWithin ==
  ASSUME NEW x \in Nat, NEW end \in Nat, NEW len \in Nat, NEW size \in Nat,
         NEW total \in Nat, NEW place \in Nat, NEW k \in 1..size,
         x + size <= end, place + len = end, x + k \in place + 1 .. place + total
  PROVE  x + k \in place + 1 .. place + len /\ (x + k) - place \in 1..len
OBVIOUS

LEMMA ShowsMore ==
  ASSUME NEW fed \in Seq(Samples), Len(fed) <= MaxSamples,
         NEW codes \in Seq(Entries), NEW taken, NEW period,
         LogIs(codes, fed, taken, period),
         NEW all, GoesOn(all, codes),
         NEW bytes \in Seq(Octet), NEW place \in Nat, Shows(bytes, codes, place),
         place + Len(bytes) = Behind(codes, Len(codes)),
         NEW more \in Seq(Octet),
         \A j \in Len(codes) + 1 .. Len(all) : \A k \in 1..Len(all[j].bytes) :
           more[(all[j].at + k) - Behind(codes, Len(codes))] = all[j].bytes[k]
  PROVE  Shows(bytes \o more, all, place)
<1> DEFINE end == Behind(codes, Len(codes))  len == Len(bytes)  both == bytes \o more
<1>1. /\ both \in Seq(Octet) /\ Len(both) = len + Len(more)
      /\ \A k \in 1..len : both[k] = bytes[k]
      /\ \A k \in 1..Len(more) : both[len + k] = more[k]
      /\ len \in Nat /\ Len(more) \in Nat
  BY Concatenated DEF Glued
<1> HIDE DEF both
<1> SUFFICES ASSUME NEW j \in 1..Len(all), NEW k \in 1..Len(all[j].bytes),
                    all[j].at + k \in place + 1 .. place + Len(both)
             PROVE  both[(all[j].at + k) - place] = all[j].bytes[k]
  BY Zenon DEF Shows, both
<1> DEFINE e == all[j]  x == e.at
<1>2. /\ x \in Nat /\ end \in Nat /\ Len(e.bytes) \in Nat
      /\ \/ j \in 1..Len(codes) /\ e = codes[j] /\ x + Len(e.bytes) <= end
         \/ j \in Len(codes) + 1 .. Len(all) /\ end <= x
  BY GoesOnIs, Zenon
<1>3. /\ x + k \in place + 1 .. place + Len(both)
      /\ place + len = end /\ k \in 1..Len(e.bytes)
  OBVIOUS
<1>4. CASE j \in 1..Len(codes) /\ e = codes[j] /\ x + Len(e.bytes) <= end
  <2>1. x + k \in place + 1 .. place + len /\ (x + k) - place \in 1..len
    <3> DEFINE size == Len(e.bytes)  total == Len(both)
    <3>1. /\ size \in Nat /\ k \in 1..size /\ x + size <= end /\ x \in Nat /\ end \in Nat
          /\ len \in Nat /\ place + len = end /\ x + k \in place + 1 .. place + total
          /\ total \in Nat /\ place \in Nat
      BY <1>1, <1>2, <1>3, <1>4
    <3> HIDE DEF x, end, len, size, total
    <3> QED BY <3>1, PlaceWithin
  <2>2. bytes[(x + k) - place] = e.bytes[k]
    BY <1>4, <2>1, ZenonT(40) DEF Shows
  <2> QED BY <1>1, <2>1, <2>2, Zenon
<1>5. CASE j \in Len(codes) + 1 .. Len(all) /\ end <= x
  <2>1. more[(x + k) - end] = e.bytes[k]
    BY <1>5, <1>3, Zenon
  <2>2. (x + k) - end \in 1..Len(more) /\ (x + k) - place = len + ((x + k) - end)
    <3> DEFINE size == Len(e.bytes)  rest == Len(more)  total == Len(both)
    <3>1. /\ size \in Nat /\ k \in 1..size /\ end <= x /\ x \in Nat /\ end \in Nat
          /\ len \in Nat /\ place + len = end /\ x + k \in place + 1 .. place + total
          /\ rest \in Nat /\ total = len + rest
      BY <1>1, <1>2, <1>3, <1>5, Zenon
    <3> HIDE DEF x, end, len, size, rest, total
    <3>2. k \in Int /\ 1 <= k /\ x + k <= place + total
      BY <3>1
    <3>3. (x + k) - end \in 1..rest /\ (x + k) - place = len + ((x + k) - end)
      BY <3>1, <3>2
    <3> QED BY <3>3 DEF rest
  <2> QED BY <1>1, <2>1, <2>2, Zenon
<1> QED BY <1>2, <1>4, <1>5, Zenon

LEMMA BetweenStill ==
  ASSUME NEW fed \in Seq(Samples), Len(fed) <= MaxSamples,
         NEW codes \in Seq(Entries), NEW taken, NEW period,
         LogIs(codes, fed, taken, period),
         NEW all, GoesOn(all, codes),
         NEW place \in Nat, Between(codes, place), place <= Behind(codes, Len(codes))
  PROVE  Between(all, place)
<1> SUFFICES ASSUME NEW j \in 1..Len(all), Control(all[j])
             PROVE  all[j].at >= place \/ EndOf(all[j]) <= place
  BY Zenon DEF Between
<1> DEFINE end == Behind(codes, Len(codes))  x == all[j].at
<1>1. /\ x \in Nat /\ end \in Nat
      /\ (j \in 1..Len(codes) /\ all[j] = codes[j]) \/ end <= x
  BY GoesOnIs, Zenon
<1>2. CASE j \in 1..Len(codes) /\ all[j] = codes[j]
  BY <1>2, Zenon DEF Between
<1>3. CASE end <= x
  <2>1. place <= end
    OBVIOUS
  <2> HIDE DEF x, end
  <2>2. x >= place
    BY <1>1, <1>3, <2>1
  <2> QED BY <2>2 DEF x
<1> QED BY <1>1, <1>2, <1>3

LEMMA ReaderStays ==
  ASSUME NEW fed \in Seq(Samples), Len(fed) <= MaxSamples,
         NEW codes \in Seq(Entries), NEW taken, NEW period,
         LogIs(codes, fed, taken, period),
         NEW fed2, Extends(fed2, fed), NEW all, GoesOn(all, codes),
         NEW r, NEW place, ReaderAt(r, place, codes, fed)
  PROVE  ReaderAt(r, place, all, fed2)
<1>1. PICK j \in 0..Len(codes), k \in 0..2 :
        /\ ReaderHas(r, codes, j, fed)
        /\ place = Behind(codes, j) + k
        /\ k = 0 => r.state = "DOD"
        /\ k > 0 => j < Len(codes) /\ ReaderWithin(r, codes[j + 1], k)
  BY Zenon DEF ReaderAt
<1>2. /\ Len(codes) \in Nat /\ Len(all) \in Nat /\ Len(codes) <= Len(all)
      /\ \A l \in 1..Len(codes) : all[l] = codes[l]
  BY DEF GoesOn, Extends
<1>3. j \in 0..Len(all) /\ (j < Len(codes) => j < Len(all) /\ j + 1 \in 1..Len(codes))
      /\ (j = 0 \/ j \in 1..Len(codes))
  BY <1>2
<1>4. Behind(all, j) = Behind(codes, j)
  BY <1>2, <1>3, Zenon DEF Behind
<1>5. ReaderHas(r, all, j, fed2)
  <2>1. CASE j = 0
    <3>1. ReaderHas(r, codes, j, fed) /\ ~(j > 0)
      BY <1>1, <2>1
    <3> QED BY <3>1, Zenon DEF ReaderHas
  <2>2. CASE j \in 1..Len(codes)
    <3> DEFINE e == codes[j]  n == e.n  last == LastWhole(e)
    <3>1. all[j] = e
      BY <2>2, <1>2
    <3>2. n \in Int /\ n < Len(fed) /\ e.block \in Nat
      BY <2>2, Entry, Zenon
    <3>3. last \in Int /\ last <= n /\ last < Len(fed)
      <4>1. last = n \/ last = n - 1
        BY DEF LastWhole
      <4>2. Len(fed) \in Nat
        OBVIOUS
      <4> HIDE DEF n, last
      <4> QED BY <3>2, <4>1, <4>2
    <3>4. DodBehind(fed2, last) = DodBehind(fed, last)
      BY <3>3, FedMore
    <3>5. Pending(e, fed2) = Pending(e, fed)
      <4>1. \A c : Residual(fed2, n, c) = Residual(fed, n, c)
        BY <3>2, FedMore
      <4> QED BY <4>1, Zenon DEF Pending
    <3>6. Rebuilt(e, fed2) = Rebuilt(e, fed)
      <4>1. ASSUME NEW m \in 1 .. last - e.block + 1
            PROVE  Vector(fed2, e.block + m - 1) = Vector(fed, e.block + m - 1)
        <5> DEFINE b == e.block  v == b + m - 1
        <5>1. v \in Int /\ v < Len(fed)
          <6> DEFINE len == Len(fed)
          <6>1. b \in Nat /\ len \in Nat /\ last \in Int /\ last < len /\ m \in 1 .. last - b + 1
            BY <3>2, <3>3
          <6> HIDE DEF last, b, len
          <6>2. v \in Int /\ v < len
            BY <6>1
          <6> QED BY <6>2 DEF len
        <5> HIDE DEF v
        <5>2. Vector(fed2, v) = Vector(fed, v)
          BY <5>1, FedMore
        <5> QED BY <5>2 DEF v
      <4> QED BY <4>1, Zenon DEF Rebuilt
    <3> HIDE DEF e
    <3>7. codes[j] = e
      BY DEF e
    <3>8. ReaderHas(r, codes, j, fed)
      BY <1>1
    <3> QED BY <3>1, <3>4, <3>5, <3>6, <3>7, <3>8, Zenon DEF ReaderHas
  <2> QED BY <1>3, <2>1, <2>2
<1>6. k > 0 => j < Len(all) /\ ReaderWithin(r, all[j + 1], k)
  BY <1>1, <1>2, <1>3, Zenon
<1> QED BY <1>1, <1>3, <1>4, <1>5, <1>6, Zenon DEF ReaderAt

(* Without a new control code, and without a new mark, the marks stand. *)
LEMMA MarksStay ==
  ASSUME NEW codes, NEW all, Len(codes) \in Nat, Len(all) \in Nat, Extends(all, codes),
         \A j \in Len(codes) + 1 .. Len(all) : ~Control(all[j]),
         NEW places, NEW tail, MarksStand(places, codes, tail)
  PROVE  MarksStand(places, all, tail)
<1>1. /\ \A j \in 1..Len(codes) : j \in 1..Len(all) /\ all[j] = codes[j]
      /\ \A j \in 1..Len(all) : j \in 1..Len(codes) \/ ~Control(all[j])
  BY DEF Extends
<1>2. ASSUME NEW k \in 1..Len(places)
      PROVE  \E j \in 1..Len(all) : /\ Control(all[j]) /\ all[j].at = tail + places[k].at
                                    /\ places[k].size = Len(all[j].bytes)
  <2>1. PICK j \in 1..Len(codes) : /\ Control(codes[j]) /\ codes[j].at = tail + places[k].at
                                   /\ places[k].size = Len(codes[j].bytes)
    BY Zenon DEF MarksStand
  <2>2. j \in 1..Len(all) /\ all[j] = codes[j]
    BY <1>1, <2>1
  <2> QED BY <2>1, <2>2, Zenon
<1>3. ASSUME NEW j \in 1..Len(all), Control(all[j]), all[j].at >= tail
      PROVE  \E k \in 1..Len(places) : all[j].at = tail + places[k].at
  <2>1. j \in 1..Len(codes)
    BY <1>1, <1>3
  <2>2. all[j] = codes[j]
    BY <1>1, <2>1
  <2>3. Control(codes[j]) /\ codes[j].at >= tail
    BY <1>3, <2>2, Zenon
  <2>4. \E k \in 1..Len(places) : codes[j].at = tail + places[k].at
    BY <2>1, <2>3, Zenon DEF MarksStand
  <2> QED BY <2>2, <2>4, Zenon
<1> QED BY <1>2, <1>3, Zenon DEF MarksStand

(* A control code and its mark are put behind the others. *)
LEMMA MarkPut ==
  ASSUME NEW codes \in Seq(Entries), NEW e \in Entries, Control(e),
         NEW len \in Nat, NEW places, MarksFit(places, len),
         NEW tail \in Nat, MarksStand(places, codes, tail),
         NEW mark \in Mark, e.at = tail + mark.at, mark.size = Len(e.bytes)
  PROVE  MarksStand(Append(places, mark), Append(codes, e), tail)
<1> DEFINE more == Append(places, mark)  all == Append(codes, e)
           m == Len(places)  n == Len(codes)
<1>1. places \in Seq(Mark) /\ m \in Nat /\ n \in Nat
  BY DEF MarksFit, Mark
<1>a. more \in Seq(Mark) /\ Longer(more, places, mark)
  BY <1>1, Lengthened
<1>b. all \in Seq(Entries) /\ Longer(all, codes, e)
  BY Lengthened
<1> HIDE DEF more, all
<1>2. Len(more) = m + 1 /\ more[m + 1] = mark /\ \A k \in 1..m : more[k] = places[k]
  BY <1>a, Zenon DEF Longer
<1>3. Len(all) = n + 1 /\ all[n + 1] = e /\ \A j \in 1..n : all[j] = codes[j]
  BY <1>b, Zenon DEF Longer
<1>4. /\ \A k \in 1..Len(more) : k \in 1..m \/ k = m + 1
      /\ \A j \in 1..Len(all) : j \in 1..n \/ j = n + 1
      /\ \A k \in 1..m : k \in 1..Len(more)
      /\ \A j \in 1..n : j \in 1..Len(all)
      /\ n + 1 \in 1..Len(all) /\ m + 1 \in 1..Len(more)
  BY <1>1, <1>2, <1>3
<1>5. ASSUME NEW k \in 1..Len(more)
      PROVE  \E j \in 1..Len(all) : /\ Control(all[j]) /\ all[j].at = tail + more[k].at
                                    /\ more[k].size = Len(all[j].bytes)
  <2>1. CASE k \in 1..m
    <3>1. PICK j \in 1..n : /\ Control(codes[j]) /\ codes[j].at = tail + places[k].at
                            /\ places[k].size = Len(codes[j].bytes)
      BY <2>1, Zenon DEF MarksStand
    <3> QED BY <3>1, <2>1, <1>2, <1>3, <1>4, Zenon
  <2>2. CASE k = m + 1
    BY <2>2, <1>2, <1>3, <1>4, Zenon
  <2> QED BY <1>4, <2>1, <2>2
<1>6. ASSUME NEW j \in 1..Len(all), Control(all[j]), all[j].at >= tail
      PROVE  \E k \in 1..Len(more) : all[j].at = tail + more[k].at
  <2>1. CASE j \in 1..n
    <3>1. Control(codes[j]) /\ codes[j].at >= tail
      BY <1>3, <1>6, <2>1, Zenon
    <3>2. PICK k \in 1..m : codes[j].at = tail + places[k].at
      BY <3>1, <2>1, Zenon DEF MarksStand
    <3> QED BY <3>2, <2>1, <1>2, <1>3, <1>4, Zenon
  <2>2. CASE j = n + 1
    BY <2>2, <1>2, <1>3, <1>4, Zenon
  <2> QED BY <1>4, <2>1, <2>2
<1>7. MarksStand(more, all, tail)
  BY <1>5, <1>6, Zenon DEF MarksStand
<1> QED BY <1>7, Zenon DEF more, all

LEMMA SpacedStay ==
  ASSUME NEW len \in Nat, NEW len2 \in Nat, len <= len2,
         NEW places, MarksFit(places, len), MarksSpaced(places, len)
  PROVE  MarksSpaced(places, len2)
<1> SUFFICES ASSUME NEW k \in 1..Len(places)
             PROVE  (Len(places) - k + 1) * ResyncSize <= len2 - places[k].at
  BY Zenon DEF MarksSpaced
<1>1. places[k] \in Mark /\ Len(places) \in Nat
  <2>1. places \in Seq(Mark)
    BY Zenon DEF MarksFit, Mark
  <2> QED BY <2>1, ElementOfSeq
<1> DEFINE x == places[k].at  p == (Len(places) - k + 1) * ResyncSize
<1>2. p <= len - x
  BY Zenon DEF MarksSpaced
<1>3. x \in Nat /\ p \in Int
  <2>1. Len(places) - k + 1 \in Int /\ ResyncSize \in Int
    BY <1>1, ChannelsAre
  <2>2. \A a \in Int, b \in Int : a * b \in Int
    OBVIOUS
  <2> QED BY <1>1, <2>1, <2>2 DEF Mark
<1> HIDE DEF x, p
<1>4. p <= len2 - x
  BY <1>2, <1>3
<1> QED BY <1>4 DEF x, p

LEMMA SpacedPut ==
  ASSUME NEW len \in Nat, NEW places, MarksFit(places, len), MarksSpaced(places, len)
  PROVE  MarksSpaced(Append(places, [at |-> len, size |-> ResyncSize]), len + ResyncSize)
<1> DEFINE mark == [at |-> len, size |-> ResyncSize]
           more == Append(places, mark)  m == Len(places)  size == ResyncSize
<1>1. size \in Nat /\ mark \in Mark /\ mark.at = len
  BY ChannelsAre DEF Mark
<1>2. places \in Seq(Mark) /\ m \in Nat
  BY DEF MarksFit, Mark
<1> HIDE DEF mark
<1>a. more \in Seq(Mark) /\ Longer(more, places, mark)
  BY <1>1, <1>2, Lengthened
<1> HIDE DEF more, size
<1>3. Len(more) = m + 1 /\ more[m + 1] = mark /\ \A k \in 1..m : more[k] = places[k]
  BY <1>a, Zenon DEF Longer
<1>4. ASSUME NEW k \in 1..Len(more) PROVE (Len(more) - k + 1) * size <= (len + size) - more[k].at
  <2>1. CASE k \in 1..m
    <3> DEFINE x == places[k].at  d == m - k + 1
    <3>1. places[k] \in Mark
      BY <1>2, <2>1, ElementOfSeq
    <3>2. x \in Nat /\ more[k].at = x
      BY <3>1, <1>3, <2>1 DEF Mark
    <3>3. d * size <= len - x
      BY <2>1, Zenon DEF MarksSpaced, size
    <3>4. d \in Nat /\ Len(more) - k + 1 = d + 1
      BY <1>2, <1>3, <2>1
    <3> HIDE DEF d, x
    <3>5. (d + 1) * size = d * size + size
      BY <1>1, <3>4
    <3>6. d * size \in Int
      BY <1>1, <3>4
    <3> DEFINE p == d * size  q == (d + 1) * size
    <3>7. p <= len - x /\ q = p + size /\ p \in Int
      BY <3>3, <3>5, <3>6
    <3> HIDE DEF p, q
    <3>8. q <= (len + size) - x
      BY <3>2, <3>7, <1>1
    <3> QED BY <3>2, <3>4, <3>8 DEF q
  <2>2. CASE k = m + 1
    <3>1. Len(more) - k + 1 = 1 /\ more[k].at = len
      BY <1>1, <1>2, <1>3, <2>2
    <3>2. 1 * size <= (len + size) - len
      BY <1>1
    <3> QED BY <3>1, <3>2, Zenon
  <2> QED BY <1>2, <1>3, <2>1, <2>2
<1> QED BY <1>4, Zenon DEF MarksSpaced, more, mark, size

(* There is room for another mark. *)
LEMMA MarkRoom ==
  ASSUME MarksSuffice, NEW len \in Nat, len < Capacity,
         NEW places, MarksFit(places, len), MarksSpaced(places, len)
  PROVE  Len(places) < MarkCapacity - 1
<1> DEFINE m == Len(places)  size == ResyncSize  n == MarkCapacity - 1
<1>1. /\ m \in Nat /\ n \in Nat /\ size \in Nat /\ size >= 1
      /\ Capacity \in Nat /\ Capacity <= n * size /\ 1 <= Capacity
  <2>1. m \in Nat
    BY DEF MarksFit
  <2>2. MarkCapacity \in Nat \ {0} /\ Capacity \in Nat \ {0}
    BY DaqCodecAssumption
  <2> QED BY <2>1, <2>2, ChannelsAre DEF MarksSuffice
<1>2. CASE m = 0
  <2>1. n # 0
    <3>1. 0 * size = 0
      BY <1>1
    <3> HIDE DEF n, size
    <3> QED BY <1>1, <3>1
  <2> HIDE DEF n
  <2> QED BY <1>1, <1>2, <2>1 DEF n
<1>3. CASE m # 0
  <2>1. 1 \in 1..m /\ m - 1 + 1 = m
    BY <1>1, <1>3
  <2>2. places[1] \in Mark
    BY <2>1, ElementOfSeq, Zenon DEF MarksFit, Mark
  <2>3. m * size <= len - places[1].at
    <3>1. (m - 1 + 1) * size <= len - places[1].at
      BY <2>1, Zenon DEF MarksSpaced
    <3> QED BY <2>1, <3>1
  <2>4. m * size < n * size
    <3> DEFINE p == m * size  q == n * size  x == places[1].at
    <3>1. x \in Nat
      BY <2>2 DEF Mark
    <3>2. p \in Nat /\ q \in Nat /\ p <= len - x /\ Capacity <= q
      BY <2>3, <1>1
    <3> HIDE DEF p, q, x
    <3>3. p < q
      BY <3>1, <3>2, <1>1
    <3> QED BY <3>3 DEF p, q
  <2> HIDE DEF m, n, size
  <2>5. m < n
    <3> SUFFICES ASSUME n <= m PROVE FALSE
      BY <1>1
    <3>1. m - n \in Nat /\ m = n + (m - n)
      BY <1>1
    <3> DEFINE d == m - n
    <3> HIDE DEF d
    <3>2. d \in Nat /\ m = n + d
      BY <3>1 DEF d
    <3>3. (n + d) * size = n * size + d * size /\ d * size \in Nat /\ n * size \in Nat
      BY <1>1, <3>2
    <3> QED BY <2>4, <3>2, <3>3
  <2> QED BY <2>5 DEF m, n
<1> QED BY <1>2, <1>3

(* What the steps of the writer leave as it is. *)
LEMMA LogFacts ==
  ASSUME CodecInv
  PROVE  /\ input \in Seq(Samples) /\ Len(input) \in Nat /\ Len(input) <= MaxSamples
         /\ log \in Seq(Entries) /\ Len(log) \in Nat /\ Len(log) \in 0..Len(log)
         /\ LogIs(log, input, accepted, writer.syncPeriod)
         /\ writer.syncPeriod \in SyncPeriods /\ writer.syncPeriod \in Nat
         /\ stream \in Seq(Octet) /\ Len(stream) \in Nat
         /\ MarksFit(marks, Len(stream))
         /\ chunk.bytes \in Seq(Octet) /\ Len(chunk.bytes) \in Nat
         /\ Pushed = Behind(log, Len(log)) /\ Pushed \in Nat
         /\ TailAt \in Nat /\ DoneAt \in Nat
         /\ Pushed = TailAt + Len(stream) /\ TailAt = DoneAt + Len(chunk.bytes)
<1>1. /\ input \in Seq(Samples) /\ Len(input) <= MaxSamples
      /\ stream \in Seq(Octet) /\ MarksFit(marks, Len(stream))
      /\ writer.syncPeriod \in SyncPeriods
  BY DEF CodecInv, RoomInv
<1>2. log \in Seq(Entries) /\ chunk.bytes \in Seq(Octet)
  BY DEF CodecInv, CodecTypes
<1>3. LogIs(log, input, accepted, writer.syncPeriod) /\ TailAt \in Nat /\ DoneAt \in Nat
  BY Zenon DEF CodecInv, StreamIs, ChunkIs
<1>4. /\ Len(input) \in Nat /\ Len(log) \in Nat /\ Len(log) \in 0..Len(log)
      /\ Len(stream) \in Nat /\ Len(chunk.bytes) \in Nat /\ writer.syncPeriod \in Nat
  <2>1. /\ Len(input) \in Nat /\ Len(log) \in Nat /\ Len(stream) \in Nat
        /\ Len(chunk.bytes) \in Nat
    BY <1>1, <1>2
  <2>2. \A n \in Nat : n \in 0..n
    OBVIOUS
  <2>3. \A q \in 1..255 : q \in Nat
    OBVIOUS
  <2>4. writer.syncPeriod \in 1..255
    BY <1>1, Zenon, DaqCodecAssumption
  <2> QED BY <2>1, <2>2, <2>3, <2>4, Zenon
<1>5. Pushed = Behind(log, Len(log))
  <2>1. log = <<>> <=> Len(log) = 0
    BY <1>2
  <2> QED BY <2>1 DEF Pushed, Behind, Newest, EndOf
<1>6. Behind(log, Len(log)) \in Nat
  BY <1>1, <1>2, <1>3, <1>4, Places, Zenon
<1>7. Pushed = TailAt + Len(stream) /\ TailAt = DoneAt + Len(chunk.bytes)
  <2> DEFINE p == Pushed  n == Len(stream)  m == Len(chunk.bytes)  t == TailAt  d == DoneAt
  <2>1. t = p - n /\ d = t - m /\ p \in Nat /\ n \in Nat /\ m \in Nat
    BY <1>4, <1>5, <1>6 DEF TailAt, DoneAt
  <2> HIDE DEF p, n, m, t, d
  <2>2. p = t + n /\ t = d + m
    BY <2>1
  <2> QED BY <2>2 DEF p, n, m, t, d
<1> QED BY <1>1, <1>2, <1>3, <1>4, <1>5, <1>6, <1>7

LEMMA StreamGrows ==
  ASSUME CodecInv, NEW more \in Seq(Octet), stream' = stream \o more,
         GoesOn(log', log), Pushed' = Pushed + Len(more),
         \A j \in Len(log) + 1 .. Len(log') : \A k \in 1..Len(log'[j].bytes) :
           more[(log'[j].at + k) - Pushed] = log'[j].bytes[k],
         Extends(input', input), accepted \subseteq accepted',
         chunk' = chunk, reader' = reader, blocks' = blocks
  PROVE  /\ StreamIs' /\ ChunkIs' /\ ReaderIs' /\ BlocksBefore'
         /\ BlocksAreTrue' /\ BlocksInOrder' /\ TailAt' = TailAt
<1>1. /\ input \in Seq(Samples) /\ Len(input) \in Nat /\ Len(input) <= MaxSamples
      /\ log \in Seq(Entries) /\ Len(log) \in Nat
      /\ LogIs(log, input, accepted, writer.syncPeriod)
      /\ stream \in Seq(Octet) /\ Len(stream) \in Nat
      /\ chunk.bytes \in Seq(Octet) /\ Len(chunk.bytes) \in Nat
      /\ Pushed = Behind(log, Len(log)) /\ Pushed \in Nat
      /\ TailAt \in Nat /\ DoneAt \in Nat
      /\ Pushed = TailAt + Len(stream) /\ TailAt = DoneAt + Len(chunk.bytes)
  BY LogFacts, Zenon
<1>2. stream' \in Seq(Octet) /\ Len(stream') = Len(stream) + Len(more) /\ Len(more) \in Nat
  BY <1>1, Concatenated DEF Glued
<1>3. TailAt' = TailAt
  <2> DEFINE p == Pushed  n == Len(stream)  m == Len(more)  t == TailAt
  <2>1. TailAt' = (p + m) - (n + m)
    BY <1>2 DEF TailAt
  <2>2. p \in Nat /\ n \in Nat /\ m \in Nat /\ t \in Nat /\ p = t + n
    BY <1>1, <1>2
  <2> HIDE DEF p, n, m, t
  <2>3. (p + m) - (n + m) = t
    BY <2>2
  <2> QED BY <2>1, <2>3 DEF t
<1>4. DoneAt' = DoneAt
  BY <1>3 DEF DoneAt
<1>5. /\ StreamIs /\ ChunkIs /\ ReaderIs /\ BlocksBefore /\ BlocksAreTrue /\ BlocksInOrder
  BY Zenon DEF CodecInv
<1> DEFINE end == Behind(log, Len(log))
<1>6. TailAt <= end /\ DoneAt + Len(chunk.bytes) <= end /\ TailAt + Len(stream) = end
  <2> DEFINE n == Len(stream)  t == TailAt  m == Len(chunk.bytes)  d == DoneAt
  <2>1. n \in Nat /\ t \in Nat /\ end = t + n /\ m \in Nat /\ d \in Nat /\ t = d + m
    BY <1>1
  <2> HIDE DEF n, t, end, m, d
  <2>2. t <= end /\ d + m <= end /\ t + n = end
    BY <2>1
  <2> QED BY <2>2 DEF n, t, m, d
<1>7. /\ log' \in Seq(Entries) /\ Len(log') \in Nat /\ Len(log) <= Len(log')
      /\ \A j \in 1..Len(log) : log'[j] = log[j] /\ j \in 1..Len(log')
  BY <1>1 DEF GoesOn, Extends
<1>8. StreamIs'
  <2>1. Shows(stream \o more, log', TailAt)
    <3>1. Shows(stream, log, TailAt)
      BY <1>5 DEF StreamIs
    <3>2. \A j \in Len(log) + 1 .. Len(log') : \A k \in 1..Len(log'[j].bytes) :
            more[(log'[j].at + k) - end] = log'[j].bytes[k]
      BY <1>1, Zenon
    <3> QED BY <1>1, <1>6, <3>1, <3>2, ShowsMore, Zenon
  <2>2. Between(log', TailAt)
    <3>1. Between(log, TailAt)
      BY <1>5 DEF StreamIs
    <3> QED BY <1>1, <1>6, <3>1, BetweenStill, Zenon
  <2>3. Shows(stream, log, TailAt)' /\ Between(log, TailAt)' /\ (TailAt \in Nat)'
    BY <1>1, <1>3, <2>1, <2>2, Zenon
  <2> QED BY <2>3, Zenon DEF StreamIs
<1>9. ChunkIs'
  <2>1. chunk'.type = "Sample" =>
          /\ Shows(chunk'.bytes, log', DoneAt')
          /\ \A j \in 1..Len(log') :
               Control(log'[j]) => log'[j].at < DoneAt' \/ log'[j].at >= TailAt'
    <3> SUFFICES ASSUME chunk'.type = "Sample"
                 PROVE  /\ Shows(chunk'.bytes, log', DoneAt')
                        /\ \A j \in 1..Len(log') :
                             Control(log'[j]) => log'[j].at < DoneAt' \/ log'[j].at >= TailAt'
      OBVIOUS
    <3>1. /\ Shows(chunk.bytes, log, DoneAt)
          /\ \A j \in 1..Len(log) : Control(log[j]) => log[j].at < DoneAt \/ log[j].at >= TailAt
      BY <1>5 DEF ChunkIs
    <3>2. Shows(chunk.bytes, log', DoneAt)
      BY <1>1, <1>6, <3>1, ShowsStill, Zenon
    <3>3. ASSUME NEW j \in 1..Len(log'), Control(log'[j])
          PROVE  log'[j].at < DoneAt \/ log'[j].at >= TailAt
      <4>1. \/ j \in 1..Len(log) /\ log'[j] = log[j]
            \/ end <= log'[j].at /\ log'[j].at \in Nat /\ end \in Nat
        BY <1>1, GoesOnIs, Zenon
      <4>2. CASE j \in 1..Len(log) /\ log'[j] = log[j]
        BY <4>2, <3>1, <3>3, Zenon
      <4>3. CASE end <= log'[j].at /\ log'[j].at \in Nat /\ end \in Nat
        <5> DEFINE x == log'[j].at  t == TailAt
        <5>1. end <= x /\ x \in Nat /\ end \in Nat /\ t \in Nat /\ t <= end
          BY <4>3, <1>1, <1>6
        <5> HIDE DEF x, t, end
        <5>2. x >= t
          BY <5>1
        <5> QED BY <5>2 DEF x, t
      <4> QED BY <4>1, <4>2, <4>3
    <3> QED BY <3>2, <3>3, <1>3, <1>4, Zenon
  <2>2. chunk'.type = "Control" => \E j \in 1..Len(log') :
          Control(log'[j]) /\ log'[j].at = DoneAt' /\ chunk'.bytes = log'[j].bytes
    <3> SUFFICES ASSUME chunk'.type = "Control"
                 PROVE  \E j \in 1..Len(log') : Control(log'[j]) /\ log'[j].at = DoneAt'
                                                /\ chunk'.bytes = log'[j].bytes
      BY Zenon
    <3>1. PICK j \in 1..Len(log) :
            Control(log[j]) /\ log[j].at = DoneAt /\ chunk.bytes = log[j].bytes
      BY <1>5, Zenon DEF ChunkIs
    <3>2. log'[j] = log[j] /\ j \in 1..Len(log')
      BY <1>7
    <3> QED BY <3>1, <3>2, <1>4, Zenon
  <2>3. chunk'.type = "none" => chunk' = None
    BY <1>5 DEF ChunkIs
  <2>4. DoneAt' \in Nat
    BY <1>1, <1>4
  <2> QED BY <2>1, <2>2, <2>3, <2>4, Zenon DEF ChunkIs
<1>10. ReaderIs'
  <2>1. ReaderAt(BlockBegun(reader), DoneAt, log, input)
    BY <1>5 DEF ReaderIs
  <2>2. ReaderAt(BlockBegun(reader), DoneAt, log', input')
    BY <1>1, <2>1, ReaderStays
  <2>3. ReaderAt(BlockBegun(reader'), DoneAt', log', input')
    BY <2>2, <1>4, Zenon
  <2> QED BY <2>3, Zenon DEF ReaderIs
<1>11. BlocksBefore'
  <2>1. CASE \E j \in 1..Len(log) : log[j].kind = "flush" /\ log[j].at < DoneAt
    <3>1. \E j \in 1..Len(log') : log'[j].kind = "flush" /\ log'[j].at < DoneAt'
      BY <2>1, <1>4, <1>7, Zenon
    <3> QED BY <3>1, Zenon DEF BlocksBefore
  <2>2. CASE /\ ~BlockBegun(reader).inSync => blocks = <<>>
             /\ \A k \in 1..Len(blocks) :
                  blocks[k].counter + Len(blocks[k].samples) <= BlockBegun(reader).counter
    <3>1. /\ ~BlockBegun(reader').inSync => blocks' = <<>>
          /\ \A k \in 1..Len(blocks') :
               blocks'[k].counter + Len(blocks'[k].samples) <= BlockBegun(reader').counter
      BY <2>2, Zenon
    <3> QED BY <3>1, Zenon DEF BlocksBefore
  <2> QED BY <1>5, <2>1, <2>2, Zenon DEF BlocksBefore
<1>12. BlocksAreTrue'
  <2> SUFFICES ASSUME NEW k \in DOMAIN blocks, NEW m \in DOMAIN blocks[k].samples
               PROVE  LET at == blocks[k].counter + m - 1
                      IN  at \in accepted' /\ blocks[k].samples[m] = input'[at + 1]
    BY Zenon DEF BlocksAreTrue
  <2> DEFINE at == blocks[k].counter + m - 1
  <2>1. at \in accepted /\ blocks[k].samples[m] = input[at + 1]
    BY <1>5, Zenon DEF BlocksAreTrue
  <2>2. at + 1 \in 1..Len(input)
    <3>1. accepted \subseteq 0 .. Len(input) - 1
      BY Zenon DEF CodecInv, CodecTypes
    <3>2. at \in 0 .. Len(input) - 1
      BY <2>1, <3>1, Zenon
    <3> HIDE DEF at
    <3> QED BY <3>2, <1>1
  <2>3. input'[at + 1] = input[at + 1]
    BY <2>2, Zenon DEF Extends
  <2> QED BY <2>1, <2>3, Zenon
<1>13. BlocksInOrder'
  BY <1>5 DEF BlocksInOrder, Covers
<1> QED BY <1>3, <1>8, <1>9, <1>10, <1>11, <1>12, <1>13

(* The vector that is pushed, and the writer's state behind it. *)
LEMMA Fed ==
  ASSUME CodecInv, NEW x \in Samples
  PROVE  LET fed == Append(input, x)
             n   == Len(input)
         IN  /\ fed \in Seq(Samples) /\ Len(fed) = n + 1 /\ Extends(fed, input)
             /\ NextDod(x) = DodBehind(fed, n)
             /\ \A c \in Channel : Residuals(x)[c] = Residual(fed, n, c)
<1> DEFINE fed == Append(input, x)  n == Len(input)
<1>1. input \in Seq(Samples) /\ n \in Nat
  BY LogFacts
<1>2. fed \in Seq(Samples) /\ Longer(fed, input, x)
  BY <1>1, Lengthened
<1> HIDE DEF fed, n
<1>3. Len(fed) = n + 1 /\ fed[n + 1] = x /\ \A k \in 1..n : fed[k] = input[k]
  BY <1>2, Zenon DEF Longer, n
<1>4. Extends(fed, input)
  <2>1. n <= n + 1
    BY <1>1
  <2> QED BY <2>1, <1>3, Zenon DEF Extends, n
<1>5. n - 1 \in Int /\ n - 1 < n /\ n >= 0
  BY <1>1
<1>6. /\ Vector(fed, n - 1) = Vector(input, n - 1)
      /\ DodBehind(fed, n - 1) = DodBehind(input, n - 1)
  <2>1. n - 1 < Len(input)
    BY <1>5 DEF n
  <2> QED BY <1>1, <1>4, <1>5, <2>1, FedMore
<1>7. Vector(fed, n) = x
  BY <1>3, <1>5 DEF Vector
<1>8. writer.dod = DodBehind(input, n - 1)
  BY Zenon DEF CodecInv, WriterKnows, n
<1>9. \A c \in Channel : writer.dod[c].sample = Vector(input, n - 1)[c]
  <2>1. \A c \in Channel : DodBehind(input, n - 1)[c].sample = Vector(input, n - 1)[c]
    BY DEF DodBehind
  <2> QED BY <2>1, <1>8, Zenon
<1>10. NextDod(x) = DodBehind(fed, n)
  <2>1. \A c \in Channel : Vector(fed, n - 1)[c] = writer.dod[c].sample
    BY <1>6, <1>9, Zenon
  <2> QED BY <2>1, <1>7, Zenon DEF NextDod, DodBehind
<1>11. \A c \in Channel : Residuals(x)[c] = Residual(fed, n, c)
  <2>1. writer.dod = DodBehind(fed, n - 1)
    BY <1>6, <1>8, Zenon
  <2> QED BY <2>1, <1>10, Zenon DEF Residuals, Residual
<1> QED BY <1>2, <1>3, <1>4, <1>10, <1>11, Zenon DEF fed, n

(* One more entry in the log. *)
LEMMA EntryPut ==
  ASSUME CodecInv, NEW e \in Entries, log' = Append(log, e),
         stream' = stream \o e.bytes, e.at = Pushed,
         Extends(input', input), Len(input') \in Nat, accepted \subseteq accepted',
         writer'.syncPeriod = writer.syncPeriod,
         EntryIs(e, input', accepted', writer.syncPeriod),
         log = <<>> => Control(e) /\ (e.kind = "flush" => e.n = -1),
         log # <<>> => Consecutive(Newest, e),
         chunk' = chunk, reader' = reader, blocks' = blocks
  PROVE  /\ StreamIs' /\ ChunkIs' /\ ReaderIs' /\ BlocksBefore'
         /\ BlocksAreTrue' /\ BlocksInOrder' /\ TailAt' = TailAt
         /\ LogIs(log, input, accepted, writer.syncPeriod)'
         /\ log' \in Seq(Entries) /\ log' # <<>> /\ Newest' = e
<1> DEFINE m == Len(log)  all == log'
<1>1. /\ input \in Seq(Samples) /\ Len(input) \in Nat /\ Len(input) <= MaxSamples
      /\ log \in Seq(Entries) /\ m \in Nat
      /\ LogIs(log, input, accepted, writer.syncPeriod)
      /\ Pushed = Behind(log, Len(log)) /\ Pushed \in Nat
  BY LogFacts, Zenon
<1>2. all \in Seq(Entries) /\ Longer(all, log, e)
  BY <1>1, Lengthened
<1>3. Len(all) = m + 1 /\ all[m + 1] = e /\ \A j \in 1..m : all[j] = log[j]
  BY <1>2, Zenon DEF Longer
<1>4. /\ m <= m + 1 /\ \A j \in m + 1 .. m + 1 : j = m + 1
      /\ \A j \in m + 1 .. m + 1 : \A k \in j + 1 .. m + 1 : FALSE
      /\ m + 1 \in 1 .. m + 1 /\ (m + 1) - 1 = m
  BY <1>1
<1>5. Extends(all, log)
  BY <1>3, <1>4, Zenon DEF Extends
<1>6. GoesOn(all, log)
  <2>1. ASSUME NEW j \in Len(log) + 1 .. Len(all) PROVE Behind(log, Len(log)) <= all[j].at
    <3>1. j = m + 1 /\ all[j] = e
      BY <1>3, <1>4
    <3> QED BY <1>1, <3>1
  <2> QED BY <1>2, <1>5, <2>1, Zenon DEF GoesOn
<1>7. (m = 0 <=> log = <<>>) /\ (m # 0 => m \in 1..m /\ all[m] = log[m]) /\ all # <<>>
  <2>1. all = <<>> => Len(all) = 0
    OBVIOUS
  <2>2. (m = 0 <=> log = <<>>) /\ (m # 0 => m \in 1..m) /\ m + 1 # 0
    BY <1>1
  <2> QED BY <2>1, <2>2, <1>3, Zenon
<1>8. Newest' = e
  <2>1. Newest' = all[Len(all)]
    BY DEF Newest
  <2> QED BY <2>1, <1>3
<1>9. e.bytes \in Seq(Octet) /\ Len(e.bytes) \in Nat
  BY DEF Entries
<1>10. Pushed' = Pushed + Len(e.bytes)
  <2>1. Pushed' = Newest'.at + Len(Newest'.bytes)
    BY <1>7, Zenon DEF Pushed
  <2> QED BY <2>1, <1>8, Zenon
<1>11. \A j \in m + 1 .. Len(all) : \A k \in 1..Len(all[j].bytes) :
         e.bytes[(all[j].at + k) - Pushed] = all[j].bytes[k]
  <2>1. \A k \in 1..Len(e.bytes) : (e.at + k) - Pushed = k
    BY <1>1, <1>9
  <2> QED BY <2>1, <1>3, <1>4, Zenon
<1>12. /\ StreamIs' /\ ChunkIs' /\ ReaderIs' /\ BlocksBefore'
       /\ BlocksAreTrue' /\ BlocksInOrder' /\ TailAt' = TailAt
  BY <1>6, <1>9, <1>10, <1>11, StreamGrows, Zenon
<1>13. LogIs(all, input', accepted', writer.syncPeriod)
  <2>1. log = <<>> /\ all # <<>> =>
           /\ all[1].at = 0 /\ Control(all[1]) /\ (all[1].kind = "flush" => all[1].n = -1)
    <3>1. log = <<>> => all[1] = e /\ Pushed = 0
      <4>1. 0 + 1 = 1
        OBVIOUS
      <4> QED BY <4>1, <1>3, <1>7, Zenon DEF Pushed
    <3> QED BY <3>1, Zenon
  <2>2. ASSUME NEW j \in m + 1 .. Len(all)
        PROVE  /\ EntryIs(all[j], input', accepted', writer.syncPeriod)
               /\ Behind(log, Len(log)) <= all[j].at
               /\ j > 1 => Consecutive(all[j - 1], all[j])
               /\ \A k \in j + 1 .. Len(all) : EndOf(all[j]) <= all[k].at
    <3>1. j = m + 1 /\ all[j] = e
      BY <1>3, <1>4
    <3>2. Behind(log, Len(log)) <= all[j].at
      BY <1>1, <3>1
    <3>3. j > 1 => Consecutive(all[j - 1], all[j])
      <4>1. j > 1 => log # <<>> /\ all[j - 1] = Newest
        <5>1. j > 1 => m # 0 /\ j - 1 = m
          BY <3>1, <1>1
        <5> QED BY <5>1, <1>7, Zenon DEF Newest
      <4> QED BY <4>1, <3>1, Zenon
    <3>4. \A k \in j + 1 .. Len(all) : EndOf(all[j]) <= all[k].at
      BY <1>3, <1>4
    <3> QED BY <3>1, <3>2, <3>3, <3>4
  <2> QED BY <1>1, <1>2, <1>5, <2>1, <2>2, LogGoesOn, Zenon
<1> QED BY <1>2, <1>7, <1>8, <1>12, <1>13, Zenon

(* A control code gets a mark. *)
LEMMA ControlMarked ==
  ASSUME CodecInv, MarksSuffice, ~ended, Len(stream) + 1 < Capacity,
         NEW e \in Entries, Control(e), e.at = Pushed, log' = Append(log, e),
         Len(e.bytes) \in Nat \ {0},
         marks' = Marked([at |-> Len(stream), size |-> Len(e.bytes)])
  PROVE  /\ marks' = Append(marks, [at |-> Len(stream), size |-> Len(e.bytes)])
         /\ MarksStand(marks', log', TailAt)
         /\ MarksSpaced(marks, Len(stream))
<1> DEFINE len == Len(stream)  mark == [at |-> len, size |-> Len(e.bytes)]
<1>1. /\ log \in Seq(Entries) /\ len \in Nat /\ MarksFit(marks, len)
      /\ TailAt \in Nat /\ Pushed = TailAt + len
  BY LogFacts
<1>2. MarksStand(marks, log, TailAt) /\ MarksSpaced(marks, len)
  BY Zenon DEF CodecInv, MarksAre
<1>3. len < Capacity
  <2>1. Capacity \in Nat /\ len + 1 < Capacity
    BY DaqCodecAssumption
  <2> HIDE DEF len
  <2> QED BY <1>1, <2>1
<1>4. Len(marks) < MarkCapacity - 1
  BY <1>1, <1>2, <1>3, MarkRoom
<1>5. marks' = Append(marks, mark)
  BY <1>4 DEF Marked
<1>6. mark \in Mark /\ mark.at = len /\ mark.size = Len(e.bytes)
  BY <1>1 DEF Mark
<1> HIDE DEF mark
<1>7. MarksStand(Append(marks, mark), Append(log, e), TailAt)
  <2>1. e.at = TailAt + mark.at
    BY <1>1, <1>6
  <2> HIDE DEF len
  <2> QED BY <1>1, <1>2, <1>6, <2>1, MarkPut
<1> QED BY <1>2, <1>5, <1>7, Zenon DEF mark

LEMMA Writes ==
  ASSUME CodecInv, NEW dod \in ChannelStates, NEW till \in Nat, NEW b \in BOOLEAN,
         \/ writer' = [writer EXCEPT !.dod = dod, !.backpressure = b, !.tillSync = till]
         \/ /\ b = writer.backpressure
            /\ \/ writer' = [writer EXCEPT !.dod = dod, !.tillSync = till]
               \/ dod = writer.dod /\ writer' = [writer EXCEPT !.tillSync = till]
  PROVE  /\ writer'.dod = dod /\ writer'.tillSync = till /\ writer'.backpressure = b
         /\ writer'.syncPeriod = writer.syncPeriod
<1> DEFINE D == ChannelStates
<1>1. writer \in [dod : D, syncPeriod : SyncPeriods, tillSync : Nat, backpressure : BOOLEAN]
  BY DEF CodecInv, RoomInv
<1> HIDE DEF D
<1> QED BY <1>1, Zenon

LEMMA RefusedKeeps ==
  ASSUME CodecInv, ~ended, NEW x \in Samples, PushRefused(x), input' = Append(input, x),
         UNCHANGED <<chunk, reader, blocks, ended>>, RoomInv'
  PROVE  CodecInv'
<1> DEFINE n == Len(input)
<1>1. /\ input \in Seq(Samples) /\ n \in Nat /\ n <= MaxSamples
      /\ log \in Seq(Entries) /\ Len(log) \in Nat
      /\ LogIs(log, input, accepted, writer.syncPeriod)
      /\ stream \in Seq(Octet) /\ Pushed \in Nat
  BY LogFacts, Zenon
<1>2. /\ input' \in Seq(Samples) /\ Len(input') = n + 1 /\ Extends(input', input)
      /\ NextDod(x) = DodBehind(input', n)
  BY Fed, Zenon
<1>3. RoomInv
  BY DEF CodecInv
<1>4. /\ stream' = stream /\ marks' = marks /\ accepted' = accepted /\ log' = log
      /\ chunk' = chunk /\ reader' = reader /\ blocks' = blocks /\ ended' = ended
  BY DEF PushRefused
<1>5. WriterKnows
  BY DEF CodecInv
<1>6. /\ writer'.dod = NextDod(x) /\ writer'.tillSync = 0 /\ writer'.backpressure = TRUE
      /\ writer'.syncPeriod = writer.syncPeriod
  <2>1. writer' = [writer EXCEPT !.dod = NextDod(x), !.backpressure = TRUE, !.tillSync = 0]
    BY <1>5, Zenon DEF PushRefused, WriterKnows
  <2>2. NextDod(x) \in ChannelStates /\ 0 \in Nat /\ TRUE \in BOOLEAN
    BY <1>3, NextDodIs
  <2> QED BY <2>1, <2>2, Writes, Zenon
<1>7. WriterKnows'
  <2>1. Len(input') - 1 = n
    BY <1>1, <1>2
  <2>2. writer'.dod = DodBehind(input', Len(input') - 1)
    BY <2>1, <1>2, <1>6, Zenon
  <2>3. ~(writer'.tillSync > 0)
    BY <1>6
  <2>4. Newest' = Newest
    BY <1>4 DEF Newest
  <2> QED BY <2>2, <2>3, <2>4, <1>4, <1>5, <1>6 DEF WriterKnows
<1>8. /\ <<>> \in Seq(Octet) /\ Len(<<>>) = 0 /\ stream' = stream \o <<>>
  BY <1>1, <1>4, ConcatEmptySeq
<1>9. /\ \A j \in Len(log) + 1 .. Len(log') : FALSE
      /\ Extends(log', log)
  BY <1>1, <1>4 DEF Extends
<1>10. GoesOn(log', log)
  BY <1>1, <1>4, <1>9, Zenon DEF GoesOn
<1>11. Pushed' = Pushed + Len(<<>>)
  <2>1. Pushed' = Pushed
    BY <1>4 DEF Pushed, Newest
  <2> QED BY <2>1, <1>1, <1>8
<1>12. /\ StreamIs' /\ ChunkIs' /\ ReaderIs' /\ BlocksBefore'
       /\ BlocksAreTrue' /\ BlocksInOrder' /\ TailAt' = TailAt
  <2>1. accepted \subseteq accepted'
    BY <1>4
  <2>2. \A j \in Len(log) + 1 .. Len(log') : \A k \in 1..Len(log'[j].bytes) :
          <<>>[(log'[j].at + k) - Pushed] = log'[j].bytes[k]
    BY <1>9, Zenon
  <2> DEFINE none == <<>>
  <2>3. /\ none \in Seq(Octet) /\ stream' = stream \o none /\ Pushed' = Pushed + Len(none)
        /\ \A j \in Len(log) + 1 .. Len(log') : \A k \in 1..Len(log'[j].bytes) :
             none[(log'[j].at + k) - Pushed] = log'[j].bytes[k]
    BY <1>8, <1>11, <2>2, Zenon
  <2> HIDE DEF none
  <2> QED BY <1>2, <1>4, <1>10, <2>1, <2>3, StreamGrows, Zenon
<1>13. LogIs(log, input, accepted, writer.syncPeriod)'
  <2>1. Len(input') \in Nat
    BY <1>1, <1>2
  <2>2. LogIs(log', input', accepted', writer.syncPeriod)
    <3>1. log' = <<>> \/ log # <<>>
      BY <1>4
    <3>2. log' \in Seq(Entries) /\ accepted \subseteq accepted'
      BY <1>1, <1>4
    <3> QED BY <1>1, <1>2, <1>9, <2>1, <3>1, <3>2, LogGoesOn, Zenon
  <2> QED BY <2>2, <1>6
<1>14. MarksAre'
  <2>1. MarksStand(marks, log, TailAt) /\ (~ended => MarksSpaced(marks, Len(stream)))
    BY Zenon DEF CodecInv, MarksAre
  <2>2. MarksStand(marks, log, TailAt)' /\ (~ended => MarksSpaced(marks, Len(stream)))'
    BY <2>1, <1>4, <1>12, Zenon
  <2> QED BY <2>2, Zenon DEF MarksAre
<1>15. CodecTypes'
  <2>1. accepted' \subseteq 0 .. Len(input') - 1
    <3>1. accepted \subseteq 0 .. n - 1
      BY DEF CodecInv, CodecTypes
    <3>2. \A k \in 0 .. n - 1 : k \in 0 .. (n + 1) - 1
      BY <1>1
    <3> QED BY <3>1, <3>2, <1>2, <1>4, Zenon
  <2>2. CodecTypes
    BY DEF CodecInv
  <2> QED BY <2>1, <2>2, <1>4, Zenon DEF CodecTypes
<1> QED BY <1>7, <1>12, <1>13, <1>14, <1>15, Zenon DEF CodecInv

LEMMA ResyncKeeps ==
  ASSUME MarksSuffice, CodecInv, ~ended, Len(input) < MaxSamples,
         NEW x \in Samples, PushResync(x), input' = Append(input, x),
         UNCHANGED <<chunk, reader, blocks, ended>>, RoomInv'
  PROVE  CodecInv'
<1> DEFINE n == Len(input)  b == ResyncBlock(x)
           e == Logged("resync", b, Pushed, n, Channels, n)
<1>1. /\ input \in Seq(Samples) /\ n \in Nat /\ n <= MaxSamples
      /\ log \in Seq(Entries) /\ Len(log) \in Nat
      /\ LogIs(log, input, accepted, writer.syncPeriod)
      /\ stream \in Seq(Octet) /\ Len(stream) \in Nat /\ Pushed \in Nat
      /\ writer.syncPeriod \in Nat /\ MarksFit(marks, Len(stream))
      /\ TailAt \in Nat
  BY LogFacts, Zenon
<1>2. /\ input' \in Seq(Samples) /\ Len(input') = n + 1 /\ Extends(input', input)
      /\ NextDod(x) = DodBehind(input', n)
  BY Fed, Zenon
<1>3. RoomInv /\ WriterKnows
  BY DEF CodecInv
<1>4. /\ stream' = stream \o b /\ log' = Append(log, e) /\ accepted' = accepted \union {n}
      /\ marks' = Marked([at |-> Len(stream), size |-> ResyncSize])
      /\ writer' = [writer EXCEPT !.dod = NextDod(x), !.tillSync = writer.syncPeriod]
      /\ ~writer.backpressure /\ Free > Reserve
      /\ chunk' = chunk /\ reader' = reader /\ blocks' = blocks /\ ended' = ended
  BY DEF PushResync, ResyncSize
<1>5. /\ writer'.dod = NextDod(x) /\ writer'.tillSync = writer.syncPeriod
      /\ writer'.backpressure = FALSE /\ writer'.syncPeriod = writer.syncPeriod
  <2>1. NextDod(x) \in ChannelStates
    BY <1>3, NextDodIs
  <2>2. writer.backpressure = FALSE
    <3>1. writer.backpressure \in BOOLEAN
      BY <1>3 DEF RoomInv
    <3> QED BY <3>1, <1>4
  <2> QED BY <2>1, <2>2, <1>1, <1>4, Writes, Zenon
<1>6. b \in Seq(Octet) /\ Len(b) = ResyncSize /\ b = ResyncBytes(n, NextDod(x))
  <2>1. b = ResyncBytes(n, NextDod(x))
    BY Zenon DEF ResyncBlock
  <2> QED BY <2>1, <1>3, Pushes
<1> HIDE DEF b
<1>7. /\ e.kind = "resync" /\ e.bytes = b /\ e.at = Pushed /\ e.n = n
      /\ e.channel = Channels /\ e.block = n /\ Control(e)
  BY DEF Logged, Control
<1>8. e \in Entries
  <2>1. n \in Int /\ Channels \in Channel
    BY <1>1, ChannelsAre DEF Channel
  <2> QED BY <2>1, <1>1, <1>6 DEF Entries, Logged
<1> HIDE DEF e
<1>9. Len(input') \in Nat /\ Len(input') - 1 = n
  BY <1>1, <1>2
<1>10. EntryIs(e, input', accepted', writer.syncPeriod)
  <2>1. /\ n \in -1 .. Len(input') - 1 /\ n \in 0..n /\ n - n <= writer.syncPeriod
        /\ \A k \in n .. n : k = n
    BY <1>1, <1>9
  <2>2. n..n \subseteq accepted'
    BY <2>1, <1>4, Zenon
  <2>3. b = ResyncBytes(n, DodBehind(input', n))
    BY <1>2, <1>6, Zenon
  <2>4. e.kind # "dod" /\ e.kind # "flush"
    BY <1>7
  <2> QED BY <2>1, <2>2, <2>3, <2>4, <1>7, Zenon DEF EntryIs
<1>11. log # <<>> => Consecutive(Newest, e)
  <2> SUFFICES ASSUME log # <<>> PROVE Consecutive(Newest, e)
    OBVIOUS
  <2>1. Len(log) \in 1..Len(log)
    BY <1>1
  <2>2. Newest.n < n
    <3>1. log[Len(log)].n < n
      BY <1>1, <2>1, Entry, Zenon
    <3> QED BY <3>1 DEF Newest
  <2>3. Newest.kind # "flush" /\ Newest.channel = Channels
    BY <1>3 DEF WriterKnows
  <2>4. e.at = EndOf(Newest)
    BY <1>7 DEF Pushed, EndOf
  <2>5. e.kind # "dod" /\ e.kind # "flush"
    BY <1>7
  <2> QED BY <2>2, <2>3, <2>4, <2>5, <1>7, Zenon DEF Consecutive
<1>12. /\ StreamIs' /\ ChunkIs' /\ ReaderIs' /\ BlocksBefore'
       /\ BlocksAreTrue' /\ BlocksInOrder' /\ TailAt' = TailAt
       /\ LogIs(log, input, accepted, writer.syncPeriod)'
       /\ log' \in Seq(Entries) /\ log' # <<>> /\ Newest' = e
  <2>1. log = <<>> => Control(e) /\ (e.kind = "flush" => e.n = -1)
    BY <1>7
  <2>2. accepted \subseteq accepted' /\ stream' = stream \o e.bytes
    BY <1>4, <1>7
  <2> HIDE DEF n
  <2> QED BY <2>1, <2>2, <1>2, <1>4, <1>5, <1>7, <1>8, <1>9, <1>10, <1>11, EntryPut, Zenon
<1>13. WriterKnows'
  <2>1. writer'.dod = DodBehind(input', Len(input') - 1)
    BY <1>2, <1>5, <1>9, Zenon
  <2>2. (e.n - e.block) + writer.syncPeriod = writer.syncPeriod
    BY <1>1, <1>7
  <2>3. e.kind # "flush"
    BY <1>7
  <2> QED BY <2>1, <2>2, <2>3, <1>5, <1>7, <1>9, <1>12 DEF WriterKnows
<1>14. MarksAre'
  <2> DEFINE len == Len(stream)  mark == [at |-> len, size |-> ResyncSize]
  <2>1. Len(stream) + 1 < Capacity
    <3>1. len + 16 * Channels < Capacity - 1 /\ Channels \in Nat /\ Capacity \in Nat
      BY <1>3, <1>4, StreamFree, ChannelsAre
    <3> HIDE DEF len
    <3>2. len + 1 < Capacity
      BY <3>1, <1>1 DEF len
    <3> QED BY <3>2 DEF len
  <2>2. Len(e.bytes) = ResyncSize /\ ResyncSize \in Nat \ {0}
    BY <1>6, <1>7, ChannelsAre
  <2>3. /\ marks' = Append(marks, mark) /\ MarksStand(marks', log', TailAt)
        /\ MarksSpaced(marks, len)
    <3>1. marks' = Marked([at |-> Len(stream), size |-> Len(e.bytes)])
          /\ Len(e.bytes) \in Nat \ {0}
      BY <2>2, <1>4
    <3>2. /\ marks' = Append(marks, [at |-> Len(stream), size |-> Len(e.bytes)])
          /\ MarksStand(marks', log', TailAt)
          /\ MarksSpaced(marks, Len(stream))
      BY <3>1, <2>1, <1>4, <1>7, <1>8, ControlMarked, Zenon
    <3> QED BY <3>2, <2>2, Zenon
  <2>4. MarksSpaced(marks', len + ResyncSize)
    BY <2>3, <1>1, SpacedPut
  <2>5. Len(stream') = len + ResyncSize
    BY <1>1, <1>4, <1>6, Concatenated, Zenon DEF Glued
  <2> QED BY <2>3, <2>4, <2>5, <1>12, Zenon DEF MarksAre
<1>15. CodecTypes'
  <2>1. accepted' \subseteq 0 .. Len(input') - 1
    <3>1. accepted \subseteq 0 .. n - 1
      BY DEF CodecInv, CodecTypes
    <3>2. n \in 0..n /\ \A k \in 0 .. n - 1 : k \in 0 .. n
      BY <1>1
    <3>3. accepted' \subseteq 0..n
      BY <3>1, <3>2, <1>4, Zenon
    <3> QED BY <3>3, <1>9, Zenon
  <2>2. CodecTypes
    BY DEF CodecInv
  <2> QED BY <2>1, <2>2, <1>4, <1>12, Zenon DEF CodecTypes
<1> QED BY <1>12, <1>13, <1>14, <1>15, Zenon DEF CodecInv

LEMMA FlushKeeps ==
  ASSUME MarksSuffice, CodecInv, Flush, Free > 16, RoomInv'
  PROVE  CodecInv'
<1> DEFINE n == Len(input)  b == <<254>>
           e == IF log = <<>> THEN Logged("flush", b, 0, -1, Channels, 0)
                ELSE [Newest EXCEPT !.kind = "flush", !.bytes = b, !.at = Pushed]
<1>1. /\ input \in Seq(Samples) /\ n \in Nat /\ n <= MaxSamples
      /\ log \in Seq(Entries) /\ Len(log) \in Nat
      /\ LogIs(log, input, accepted, writer.syncPeriod)
      /\ stream \in Seq(Octet) /\ Len(stream) \in Nat /\ Pushed \in Nat
      /\ writer.syncPeriod \in Nat
  BY LogFacts, Zenon
<1>2. RoomInv /\ WriterKnows
  BY DEF CodecInv
<1>3. /\ ~ended /\ Free > 16 /\ stream' = Append(stream, 254) /\ log' = Append(log, e)
      /\ marks' = Marked([at |-> Len(stream), size |-> 1])
      /\ writer' = [writer EXCEPT !.tillSync = 0] /\ ended' = TRUE
      /\ chunk' = chunk /\ reader' = reader /\ blocks' = blocks
      /\ input' = input /\ accepted' = accepted
  BY DEF Flush
<1>4. /\ writer'.dod = writer.dod /\ writer'.tillSync = 0
      /\ writer'.backpressure = writer.backpressure /\ writer'.syncPeriod = writer.syncPeriod
  <2>1. writer.dod \in ChannelStates /\ writer.backpressure \in BOOLEAN /\ 0 \in Nat
    BY <1>2 DEF RoomInv
  <2> QED BY <2>1, <1>3, Writes, Zenon
<1>5. b \in Seq(Octet) /\ Len(b) = 1 /\ stream' = stream \o b
  <2>1. 254 \in Octet
    BY DEF Octet
  <2> QED BY <2>1, <1>1, <1>3, AppendIsConcat
<1>6. log # <<>> =>
        /\ Newest \in Entries /\ EntryIs(Newest, input, accepted, writer.syncPeriod)
        /\ Newest.channel = Channels /\ Newest.kind # "flush"
  <2>1. log # <<>> => Len(log) \in 1..Len(log)
    BY <1>1
  <2>2. log # <<>> => log[Len(log)] \in Entries
    BY <1>1, <2>1, ElementOfSeq
  <2>3. log # <<>> => EntryIs(log[Len(log)], input, accepted, writer.syncPeriod)
    BY <1>1, <2>1, Zenon DEF LogIs
  <2> QED BY <2>2, <2>3, <1>2, <1>3, Zenon DEF WriterKnows, Newest
<1> HIDE DEF b
<1>7. /\ e \in Entries /\ e.kind = "flush" /\ e.bytes = b /\ e.at = Pushed
      /\ e.channel = Channels
      /\ log = <<>> => e.n = -1
      /\ log # <<>> => e.n = Newest.n /\ e.block = Newest.block
  <2>1. CASE log = <<>>
    <3>1. e = Logged("flush", b, 0, -1, Channels, 0) /\ Pushed = 0
      BY <2>1 DEF Pushed
    <3>2. Channels \in Channel
      BY ChannelsAre DEF Channel
    <3> HIDE DEF e
    <3> QED BY <3>1, <3>2, <2>1, <1>5 DEF Logged, Entries
  <2>2. CASE log # <<>>
    <3> DEFINE d == Newest  p == Pushed
    <3>1. e = [d EXCEPT !.kind = "flush", !.bytes = b, !.at = p]
      BY <2>2
    <3>2. d \in Entries /\ d.channel = Channels /\ p \in Nat
      BY <1>1, <1>6, <2>2
    <3> HIDE DEF e, d, p
    <3>3. /\ e \in Entries /\ e.kind = "flush" /\ e.bytes = b /\ e.at = p
          /\ e.channel = Channels /\ e.n = d.n /\ e.block = d.block
      BY <3>1, <3>2, <1>5, Zenon DEF Entries
    <3> QED BY <3>3, <2>2, Zenon DEF d, p
  <2> QED BY <2>1, <2>2
<1> HIDE DEF e
<1>8. Control(e) /\ e.kind # "dod" /\ e.kind # "resync"
  BY <1>7 DEF Control
<1>9. EntryIs(e, input', accepted', writer.syncPeriod)
  <2>1. /\ e.n \in -1 .. Len(input) - 1
        /\ e.n >= 0 => /\ e.block \in 0 .. e.n
                       /\ e.n - e.block <= writer.syncPeriod
                       /\ e.block .. e.n \subseteq accepted
    <3>1. CASE log = <<>>
      <4>1. -1 \in -1 .. n - 1 /\ ~(-1 >= 0)
        BY <1>1
      <4> QED BY <4>1, <3>1, <1>7, Zenon DEF n
    <3>2. CASE log # <<>>
      BY <3>2, <1>6, <1>7, Zenon DEF EntryIs
    <3> QED BY <3>1, <3>2
  <2> QED BY <2>1, <1>3, <1>7, <1>8, Zenon DEF EntryIs, b
<1>10. log # <<>> => Consecutive(Newest, e)
  <2>1. e.at = Pushed /\ (log # <<>> => Pushed = EndOf(Newest))
    BY <1>7 DEF Pushed, EndOf
  <2> QED BY <2>1, <1>6, <1>7, <1>8, Zenon DEF Consecutive
<1>11. /\ StreamIs' /\ ChunkIs' /\ ReaderIs' /\ BlocksBefore'
       /\ BlocksAreTrue' /\ BlocksInOrder' /\ TailAt' = TailAt
       /\ LogIs(log, input, accepted, writer.syncPeriod)'
       /\ log' \in Seq(Entries) /\ log' # <<>> /\ Newest' = e
  <2>1. Extends(input', input) /\ Len(input') \in Nat
    BY <1>1, <1>3 DEF Extends
  <2>2. accepted \subseteq accepted' /\ stream' = stream \o e.bytes
    BY <1>3, <1>5, <1>7
  <2>3. log = <<>> => Control(e) /\ (e.kind = "flush" => e.n = -1)
    BY <1>7, <1>8
  <2> HIDE DEF n
  <2> QED BY <2>1, <2>2, <2>3, <1>3, <1>4, <1>7, <1>9, <1>10, EntryPut, Zenon
<1>12. WriterKnows'
  <2>1. writer'.dod = DodBehind(input', Len(input') - 1)
    BY <1>2, <1>3, <1>4, Zenon DEF WriterKnows
  <2>2. ~(0 > 0)
    OBVIOUS
  <2> QED BY <2>1, <2>2, <1>3, <1>4, <1>7, <1>11, Zenon DEF WriterKnows
<1>13. MarksAre'
  <2>1. Len(stream) + 1 < Capacity
    <3> DEFINE len == Len(stream)
    <3>1. len + 16 < Capacity - 1 /\ Capacity \in Nat
      BY <1>2, <1>3, StreamFree
    <3> HIDE DEF len
    <3>2. len + 1 < Capacity
      BY <3>1, <1>1 DEF len
    <3> QED BY <3>2 DEF len
  <2>2. Len(e.bytes) = 1 /\ 1 \in Nat \ {0}
    BY <1>5, <1>7
  <2>3. MarksStand(marks', log', TailAt)
    <3>1. marks' = Marked([at |-> Len(stream), size |-> Len(e.bytes)])
          /\ Len(e.bytes) \in Nat \ {0}
      BY <2>2, <1>3
    <3> QED BY <3>1, <2>1, <1>3, <1>7, <1>8, ControlMarked, Zenon
  <2> QED BY <2>3, <1>3, <1>11, Zenon DEF MarksAre
<1>14. CodecTypes'
  <2>1. CodecTypes
    BY DEF CodecInv
  <2> QED BY <2>1, <1>3, <1>11 DEF CodecTypes
<1> QED BY <1>11, <1>12, <1>13, <1>14, Zenon DEF CodecInv

LEMMA DodsKeep ==
  ASSUME CodecInv, ~ended, Len(input) < MaxSamples,
         NEW x \in Samples, PushDods(x), input' = Append(input, x),
         UNCHANGED <<chunk, reader, blocks, ended>>, RoomInv'
  PROVE  CodecInv'
<1> DEFINE n == Len(input)  m == Len(log)  codes == Codes(x)
           joined(c) == Joined(codes)[c]
           coded(c) == Logged("dod", codes[c], Pushed + Len(joined(c - 1)), n, c, Newest.block)
           new == [c \in Channel |-> coded(c)]
           all == log \o new
           total == joined(Channels)
<1>1. /\ input \in Seq(Samples) /\ n \in Nat /\ n <= MaxSamples
      /\ log \in Seq(Entries) /\ m \in Nat
      /\ LogIs(log, input, accepted, writer.syncPeriod)
      /\ stream \in Seq(Octet) /\ Len(stream) \in Nat /\ Pushed \in Nat
      /\ writer.syncPeriod \in Nat /\ MarksFit(marks, Len(stream))
      /\ TailAt \in Nat /\ Pushed = Behind(log, Len(log))
  BY LogFacts, Zenon
<1>2. /\ input' \in Seq(Samples) /\ Len(input') = n + 1 /\ Extends(input', input)
      /\ NextDod(x) = DodBehind(input', n)
      /\ \A c \in Channel : Residuals(x)[c] = Residual(input', n, c)
  BY Fed, Zenon
<1>3. RoomInv /\ WriterKnows
  BY DEF CodecInv
<1>4. /\ stream' = stream \o total /\ log' = all /\ accepted' = accepted \union {n}
      /\ writer' = [writer EXCEPT !.dod = NextDod(x), !.tillSync = writer.tillSync - 1]
      /\ ~writer.backpressure /\ writer.tillSync > 0 /\ marks' = marks
      /\ chunk' = chunk /\ reader' = reader /\ blocks' = blocks /\ ended' = ended
  BY DEF PushDods, Codes
<1>5. writer.tillSync \in Nat /\ writer.tillSync - 1 \in Nat
  <2>1. writer.tillSync \in Nat
    BY <1>3 DEF RoomInv
  <2> QED BY <2>1, <1>4
<1>6. /\ writer'.dod = NextDod(x) /\ writer'.tillSync = writer.tillSync - 1
      /\ writer'.backpressure = FALSE /\ writer'.syncPeriod = writer.syncPeriod
  <2>1. NextDod(x) \in ChannelStates
    BY <1>3, NextDodIs
  <2>2. writer.backpressure = FALSE
    <3>1. writer.backpressure \in BOOLEAN
      BY <1>3 DEF RoomInv
    <3> QED BY <3>1, <1>4
  <2> QED BY <2>1, <2>2, <1>4, <1>5, Writes, Zenon
<1>7. Channels \in Nat /\ 1 <= Channels /\ Channel = 1..Channels /\ Channels \in Channel
  BY ChannelsAre DEF Channel
<1>8. codes \in Seq(Seq(Octet)) /\ Len(codes) = Channels
  BY <1>3, CodesAre
<1>9. \A c \in Channel : codes[c] = EncodeDod(Residual(input', n, c))
  BY <1>2, Zenon DEF Codes
<1> HIDE DEF codes
<1>10. ASSUME NEW c \in 1..Channels
       PROVE  /\ joined(c - 1) \in Seq(Octet) /\ joined(c) \in Seq(Octet) /\ total \in Seq(Octet)
              /\ codes[c] \in Seq(Octet) /\ Len(codes[c]) \in Nat
              /\ Len(joined(c - 1)) \in Nat /\ Len(joined(c)) \in Nat /\ Len(total) \in Nat
              /\ Len(joined(c)) = Len(joined(c - 1)) + Len(codes[c])
              /\ \A k \in 1..Len(codes[c]) : total[Len(joined(c - 1)) + k] = codes[c][k]
  <2>1. c \in 1..Len(codes)
    BY <1>8
  <2>2. /\ joined(c - 1) \in Seq(Octet) /\ joined(c) \in Seq(Octet)
        /\ joined(Len(codes)) \in Seq(Octet) /\ codes[c] \in Seq(Octet)
        /\ Len(joined(c)) = Len(joined(c - 1)) + Len(codes[c])
        /\ \A k \in 1..Len(codes[c]) : joined(Len(codes))[Len(joined(c - 1)) + k] = codes[c][k]
    BY <1>8, <2>1, JoinedHolds, Zenon
  <2>3. joined(Len(codes)) = total
    BY <1>8
  <2>4. \A s \in Seq(Octet) : Len(s) \in Nat
    OBVIOUS
  <2> HIDE DEF joined, total
  <2> QED BY <2>2, <2>3, <2>4, Zenon
<1>11. ASSUME NEW c \in 1..Channels, NEW d \in 1..Channels, c < d
       PROVE  Len(joined(c)) <= Len(joined(d - 1))
  <2>1. c \in 0..Len(codes) /\ d - 1 \in c..Len(codes)
    BY <1>7, <1>8, <1>11
  <2> QED BY <2>1, <1>8, JoinedGrows, Zenon
<1>12. Len(joined(0)) = 0
  <2>1. joined(0) = <<>>
    BY <1>8, JoinedIs, Zenon
  <2>2. Len(<<>>) = 0
    OBVIOUS
  <2> QED BY <2>1, <2>2, Zenon
<1>13. total \in Seq(Octet) /\ Len(total) \in Nat
  BY <1>7, <1>10, Zenon
<1> HIDE DEF joined, total
<1>14. /\ log # <<>> /\ m \in 1..m /\ Newest \in Entries /\ Newest = log[m]
       /\ EntryIs(Newest, input, accepted, writer.syncPeriod)
       /\ Newest.kind # "flush" /\ Newest.channel = Channels /\ Newest.n = n - 1
       /\ (Newest.n - Newest.block) + writer.tillSync = writer.syncPeriod
  <2>1. /\ log # <<>> /\ Newest.kind # "flush" /\ Newest.n = n - 1 /\ Newest.channel = Channels
        /\ Newest.n - Newest.block + writer.tillSync = writer.syncPeriod
    BY <1>3, <1>4, Zenon DEF WriterKnows
  <2>2. m \in 1..m
    BY <2>1, <1>1
  <2>3. log[m] \in Entries /\ EntryIs(log[m], input, accepted, writer.syncPeriod)
    BY <1>1, <2>2, ElementOfSeq DEF LogIs
  <2> QED BY <2>1, <2>2, <2>3 DEF Newest
<1> DEFINE block == Newest.block
<1>15. /\ block \in Nat /\ n >= 1 /\ block <= n - 1 /\ n - block <= writer.syncPeriod
       /\ block .. n - 1 \subseteq accepted
  <2> DEFINE d == Newest  k == d.n
  <2>1. d \in Entries /\ d.kind # "flush" /\ k = n - 1
        /\ EntryIs(d, input, accepted, writer.syncPeriod)
    BY <1>14
  <2>2. /\ block \in Nat /\ k \in Int /\ d.kind \in {"resync", "dod", "flush"}
    BY <2>1 DEF Entries
  <2>3. d.kind = "resync" \/ d.kind = "dod"
    BY <2>1, <2>2
  <2>4. k = block \/ k > block
    BY <2>1, <2>3, Zenon DEF EntryIs
  <2>5. k >= 0
    <3> HIDE DEF d, k, block
    <3> QED BY <2>2, <2>4
  <2>6. block \in 0..k /\ block .. k \subseteq accepted
    BY <2>1, <2>5, Zenon DEF EntryIs
  <2>7. (k - block) + writer.tillSync = writer.syncPeriod
    BY <1>14
  <2> DEFINE till == writer.tillSync  period == writer.syncPeriod
  <2>8. till \in Nat /\ till > 0 /\ period \in Nat /\ (k - block) + till = period
    BY <1>1, <1>4, <1>5, <2>7
  <2> HIDE DEF d, k, block, till, period, n
  <2>9. n >= 1 /\ block <= n - 1 /\ n - block <= period
    BY <2>1, <2>2, <2>5, <2>6, <2>8, <1>1
  <2>10. block .. n - 1 \subseteq accepted
    BY <2>1, <2>6, Zenon
  <2> QED BY <2>2, <2>9, <2>10 DEF period
<1> HIDE DEF block
<1>16. ASSUME NEW c \in 1..Channels
       PROVE  /\ coded(c) \in Entries
              /\ coded(c).kind = "dod" /\ coded(c).bytes = codes[c] /\ coded(c).n = n
              /\ coded(c).at = Pushed + Len(joined(c - 1)) /\ coded(c).at \in Nat
              /\ EndOf(coded(c)) = Pushed + Len(joined(c))
              /\ coded(c).channel = c /\ coded(c).block = block /\ ~Control(coded(c))
  <2> DEFINE e == coded(c)  at == Pushed + Len(joined(c - 1))
  <2>1. at \in Nat /\ codes[c] \in Seq(Octet) /\ n \in Int /\ c \in Channel
    <3>1. Len(joined(c - 1)) \in Nat /\ codes[c] \in Seq(Octet) /\ c \in Channel
      BY <1>7, <1>10, Zenon
    <3>2. \A p \in Nat, q \in Nat : p + q \in Nat /\ p \in Int
      OBVIOUS
    <3> QED BY <3>1, <3>2, <1>1, Zenon
  <2>2. e = Logged("dod", codes[c], at, n, c, block)
    BY DEF block
  <2> HIDE DEF e, at, n
  <2>3. e \in Entries
    BY <2>1, <2>2, <1>15 DEF Entries, Logged
  <2>4. /\ e.kind = "dod" /\ e.bytes = codes[c] /\ e.n = n /\ e.at = at
        /\ e.channel = c /\ e.block = block
    BY <2>2 DEF Logged
  <2>5. EndOf(e) = Pushed + Len(joined(c))
    <3>1. EndOf(e) = (Pushed + Len(joined(c - 1))) + Len(codes[c])
      BY <2>4, Zenon DEF EndOf, at
    <3> DEFINE p == Pushed  q == Len(joined(c - 1))  r == Len(codes[c])  s == Len(joined(c))
    <3>2. p \in Nat /\ q \in Nat /\ r \in Nat /\ s = q + r
      BY <1>1, <1>10, Zenon
    <3> HIDE DEF p, q, r, s
    <3>3. (p + q) + r = p + s
      BY <3>2
    <3> QED BY <3>1, <3>3 DEF p, q, r, s
  <2>6. ~Control(e)
    BY <2>4 DEF Control
  <2> QED BY <2>1, <2>3, <2>4, <2>5, <2>6, Zenon DEF e, at
<1> HIDE DEF coded
<1>17. new \in [1..Channels -> Entries] /\ \A c \in 1..Channels : new[c] = coded(c)
  BY <1>7, <1>16, Zenon
<1>18. new \in Seq(Entries) /\ Len(new) = Channels
  <2> HIDE DEF new
  <2> QED BY <1>7, <1>17, CountedSeq
<1> HIDE DEF new
<1>19. /\ all \in Seq(Entries) /\ Len(all) = m + Channels
       /\ \A j \in 1..m : all[j] = log[j]
       /\ \A c \in 1..Channels : all[m + c] = coded(c)
  <2>1. all \in Seq(Entries) /\ Glued(all, log, new)
    BY <1>1, <1>18, Concatenated
  <2> HIDE DEF all
  <2> QED BY <2>1, <1>17, <1>18, Zenon DEF Glued, m
<1> HIDE DEF all
<1>20. ASSUME NEW j \in m + 1 .. Len(all)
       PROVE  j - m \in 1..Channels /\ all[j] = coded(j - m)
  <2>1. j - m \in 1..Channels /\ m + (j - m) = j
    BY <1>1, <1>7, <1>19
  <2> DEFINE c == j - m
  <2>2. c \in 1..Channels /\ m + c = j
    BY <2>1
  <2> HIDE DEF c
  <2>3. all[j] = coded(c)
    BY <2>2, <1>19, Zenon
  <2> QED BY <2>1, <2>3, Zenon DEF c
<1>21. Extends(all, log)
  <2>1. m <= Len(all)
    BY <1>1, <1>7, <1>19
  <2> QED BY <2>1, <1>19, Zenon DEF Extends, m
<1>22. GoesOn(all, log)
  <2>1. ASSUME NEW j \in Len(log) + 1 .. Len(all) PROVE Behind(log, Len(log)) <= all[j].at
    <3> DEFINE c == j - m
    <3>1. c \in 1..Channels /\ all[j] = coded(c)
      BY <1>20
    <3> HIDE DEF c
    <3>2. all[j].at = Pushed + Len(joined(c - 1)) /\ Len(joined(c - 1)) \in Nat
      BY <3>1, <1>10, <1>16
    <3> DEFINE p == Pushed  q == Len(joined(c - 1))
    <3>3. p \in Nat /\ q \in Nat
      BY <3>2, <1>1
    <3> HIDE DEF p, q
    <3>4. p <= p + q
      BY <3>3
    <3> QED BY <3>2, <3>4, <1>1 DEF p, q
  <2> QED BY <2>1, <1>19, <1>21, Zenon DEF GoesOn
<1>23. all # <<>> /\ Newest' = coded(Channels)
  <2>1. Newest' = log'[Len(log')]
    BY Zenon DEF Newest
  <2>2. Channels \in 1..Channels /\ m + Channels # 0
    BY <1>1, <1>7
  <2>3. all = <<>> => Len(all) = 0
    OBVIOUS
  <2> QED BY <2>1, <2>2, <2>3, <1>4, <1>19, Zenon
<1>24. Pushed' = Pushed + Len(total)
  <2>1. Pushed' = EndOf(Newest')
    BY <1>4, <1>23, Zenon DEF Pushed, EndOf
  <2> QED BY <2>1, <1>7, <1>16, <1>23, Zenon DEF total
<1>25. ASSUME NEW j \in m + 1 .. Len(all), NEW k \in 1..Len(all[j].bytes)
       PROVE  total[(all[j].at + k) - Pushed] = all[j].bytes[k]
  <2> DEFINE c == j - m
  <2>1. c \in 1..Channels /\ all[j] = coded(c)
    BY <1>20
  <2> HIDE DEF c
  <2>2. all[j].at = Pushed + Len(joined(c - 1)) /\ all[j].bytes = codes[c]
    BY <2>1, <1>16
  <2>3. total[Len(joined(c - 1)) + k] = codes[c][k]
    BY <2>1, <2>2, <1>10, Zenon
  <2>4. k \in Nat
    <3>1. Len(all[j].bytes) \in Nat
      BY <2>1, <2>2, <1>10
    <3> QED BY <3>1
  <2>5. (all[j].at + k) - Pushed = Len(joined(c - 1)) + k
    <3> DEFINE p == Pushed  q == Len(joined(c - 1))
    <3>1. p \in Nat /\ q \in Nat
      BY <2>1, <1>1, <1>10
    <3> HIDE DEF p, q
    <3>2. ((p + q) + k) - p = q + k
      BY <3>1, <2>4
    <3> QED BY <3>2, <2>2 DEF p, q
  <2> QED BY <2>2, <2>3, <2>5, Zenon
<1>26. /\ StreamIs' /\ ChunkIs' /\ ReaderIs' /\ BlocksBefore'
       /\ BlocksAreTrue' /\ BlocksInOrder' /\ TailAt' = TailAt
  <2>1. accepted \subseteq accepted'
    BY <1>4
  <2>2. GoesOn(log', log)
    BY <1>4, <1>22, Zenon
  <2>3. \A j \in Len(log) + 1 .. Len(log') : \A k \in 1..Len(log'[j].bytes) :
          total[(log'[j].at + k) - Pushed] = log'[j].bytes[k]
    BY <1>4, <1>25, Zenon
  <2>4. stream' = stream \o total
    BY <1>4
  <2> HIDE DEF n, m
  <2> QED BY <2>1, <2>2, <2>3, <2>4, <1>2, <1>4, <1>13, <1>24, StreamGrows, Zenon
<1>27. Len(input') \in Nat /\ Len(input') - 1 = n
  BY <1>1, <1>2
<1>28. ASSUME NEW c \in 1..Channels
       PROVE  EntryIs(coded(c), input', accepted', writer.syncPeriod)
  <2> DEFINE e == coded(c)
  <2>1. /\ n \in -1 .. Len(input') - 1 /\ block \in 0..n /\ n - block <= writer.syncPeriod
        /\ n > block
    <3> HIDE DEF n
    <3> QED BY <1>1, <1>15, <1>27 DEF n
  <2>2. block..n \subseteq accepted'
    <3>1. ASSUME NEW k \in block..n PROVE k \in accepted'
      <4>1. k \in block .. n - 1 \/ k = n
        <5> HIDE DEF n
        <5> QED BY <1>1, <1>15 DEF n
      <4> QED BY <4>1, <1>4, <1>15, Zenon
    <3> QED BY <3>1
  <2>3. e.kind # "resync" /\ e.kind # "flush"
    BY <1>16
  <2>4. e.bytes = EncodeDod(Residual(input', n, c)) /\ e.n = n /\ e.channel = c /\ e.block = block
    BY <1>7, <1>9, <1>16, Zenon
  <2> HIDE DEF e, n
  <2>5. EntryIs(e, input', accepted', writer.syncPeriod)
    BY <2>1, <2>2, <2>3, <2>4, Zenon DEF EntryIs
  <2> QED BY <2>5, Zenon DEF e
<1>29. ASSUME NEW j \in m + 1 .. Len(all) PROVE Consecutive(all[j - 1], all[j])
  <2> DEFINE c == j - m
  <2>1. c \in 1..Channels /\ all[j] = coded(c)
    BY <1>20
  <2>2. j - 1 = m + (c - 1) /\ (c = 1 => j - 1 = m)
    BY <1>1
  <2> HIDE DEF c
  <2>3. /\ coded(c).at = Pushed + Len(joined(c - 1)) /\ coded(c).kind = "dod"
        /\ coded(c).n = n /\ coded(c).channel = c /\ coded(c).block = block
        /\ ~Control(coded(c))
    BY <2>1, <1>16
  <2>4. c \in Nat /\ c >= 1
    BY <2>1, <1>7
  <2>5. CASE c = 1
    <3>1. all[j - 1] = Newest
      BY <2>2, <2>5, <1>14, <1>19, Zenon
    <3>2. coded(c).at = EndOf(Newest)
      <4>1. c - 1 = 0
        BY <2>5
      <4>2. Pushed = EndOf(Newest)
        BY <1>14, Zenon DEF Pushed, EndOf
      <4>3. Pushed + 0 = Pushed
        BY <1>1
      <4> QED BY <4>1, <4>2, <4>3, <2>3, <1>12, Zenon
    <3>3. Newest.n >= 0 /\ ~(c > 1)
      BY <1>1, <1>14, <1>15, <2>5
    <3>4. coded(c).kind # "resync" /\ coded(c).kind # "flush"
      BY <2>3
    <3> QED BY <3>1, <3>2, <3>3, <3>4, <2>1, <2>3, <1>14, Zenon DEF Consecutive, block
  <2>6. CASE c > 1
    <3> DEFINE b == c - 1
    <3>1. b \in 1..Channels /\ c # 1
      BY <2>1, <2>6, <1>7
    <3>2. all[j - 1] = coded(b)
      BY <3>1, <2>2, <1>19, Zenon
    <3>3. /\ EndOf(coded(b)) = Pushed + Len(joined(b)) /\ coded(b).kind = "dod"
          /\ coded(b).n = n /\ coded(b).channel = b /\ coded(b).block = block
      BY <3>1, <1>16, Zenon
    <3>4. coded(c).kind # "resync" /\ coded(c).kind # "flush" /\ coded(b).kind # "flush"
          /\ n >= 0
      BY <2>3, <3>3, <1>1
    <3> QED BY <3>1, <3>2, <3>3, <3>4, <2>1, <2>3, Zenon DEF Consecutive
  <2> QED BY <2>4, <2>5, <2>6
<1>30. ASSUME NEW j \in m + 1 .. Len(all), NEW k \in j + 1 .. Len(all)
       PROVE  EndOf(all[j]) <= all[k].at
  <2> DEFINE c == j - m  d == k - m
  <2>1. c \in 1..Channels /\ all[j] = coded(c)
    BY <1>20
  <2>2. k \in m + 1 .. Len(all)
    BY <1>1, <1>7, <1>19
  <2>3. d \in 1..Channels /\ all[k] = coded(d)
    BY <2>2, <1>20
  <2>4. c < d
    BY <1>1, <1>7, <1>19
  <2> HIDE DEF c, d
  <2>5. Len(joined(c)) <= Len(joined(d - 1))
    BY <2>1, <2>3, <2>4, <1>11, Zenon
  <2> DEFINE p == Pushed  q == Len(joined(c))  r == Len(joined(d - 1))
  <2>6. p \in Nat /\ q \in Nat /\ r \in Nat /\ q <= r
    BY <2>1, <2>3, <2>5, <1>1, <1>10, Zenon
  <2>7. EndOf(all[j]) = p + q /\ all[k].at = p + r
    BY <2>1, <2>3, <1>16, Zenon
  <2> HIDE DEF p, q, r
  <2>8. p + q <= p + r
    BY <2>6
  <2> QED BY <2>7, <2>8, Zenon
<1>31. LogIs(log, input, accepted, writer.syncPeriod)'
  <2>1. ASSUME NEW j \in Len(log) + 1 .. Len(all)
        PROVE  /\ EntryIs(all[j], input', accepted', writer.syncPeriod)
               /\ Behind(log, Len(log)) <= all[j].at
               /\ j > 1 => Consecutive(all[j - 1], all[j])
               /\ \A k \in j + 1 .. Len(all) : EndOf(all[j]) <= all[k].at
    <3>1. EntryIs(all[j], input', accepted', writer.syncPeriod)
      BY <1>20, <1>28, Zenon
    <3>2. Behind(log, Len(log)) <= all[j].at
      BY <1>22, Zenon DEF GoesOn
    <3> QED BY <3>1, <3>2, <1>29, <1>30, Zenon
  <2>2. accepted \subseteq accepted'
    BY <1>4
  <2>3. log # <<>>
    BY <1>14
  <2>4. LogIs(all, input', accepted', writer.syncPeriod)
    <3> HIDE DEF n, m
    <3> QED BY <1>1, <1>2, <1>19, <1>21, <1>27, <2>1, <2>2, <2>3, LogGoesOn, Zenon DEF n, m
  <2> QED BY <2>4, <1>4, <1>6
<1>32. WriterKnows'
  <2>1. writer'.dod = DodBehind(input', Len(input') - 1)
    BY <1>2, <1>6, <1>27, Zenon
  <2> DEFINE e == coded(Channels)
  <2>2. /\ e.kind = "dod" /\ e.n = n /\ e.channel = Channels /\ e.block = block
    BY <1>7, <1>16
  <2>3. (n - block) + (writer.tillSync - 1) = writer.syncPeriod
    <3> DEFINE k == Newest.n  till == writer.tillSync  period == writer.syncPeriod
    <3>1. k = n - 1 /\ (k - block) + till = period
      BY <1>14 DEF block
    <3>2. till \in Nat /\ period \in Nat
      BY <1>1, <1>5
    <3> HIDE DEF k, till, period, n
    <3>3. (n - block) + (till - 1) = period
      BY <3>1, <3>2, <1>1, <1>15
    <3> QED BY <3>3 DEF till, period
  <2>4. e.kind # "flush" /\ log' # <<>> /\ Newest' = e
    BY <2>2, <1>4, <1>23
  <2>5. e.n - e.block + writer'.tillSync = writer'.syncPeriod
    BY <2>2, <2>3, <1>6, Zenon
  <2>6. e.n = Len(input') - 1
    BY <2>2, <1>27
  <2> HIDE DEF e
  <2> QED BY <2>1, <2>2, <2>4, <2>5, <2>6, <1>6, Zenon DEF WriterKnows
<1>33. MarksAre'
  <2> DEFINE len == Len(stream)
  <2>1. MarksStand(marks, log, TailAt) /\ MarksSpaced(marks, len)
    BY Zenon DEF CodecInv, MarksAre
  <2>2. MarksStand(marks, all, TailAt)
    <3>1. \A j \in Len(log) + 1 .. Len(all) : ~Control(all[j])
      BY <1>16, <1>20, Zenon
    <3>2. Len(all) \in Nat
      BY <1>1, <1>7, <1>19
    <3> QED BY <3>1, <3>2, <2>1, <1>1, <1>21, MarksStay, Zenon
  <2>3. Len(stream') = len + Len(total)
    BY <1>1, <1>4, <1>13, Concatenated DEF Glued
  <2>4. len + Len(total) \in Nat /\ len <= len + Len(total)
    BY <1>1, <1>13
  <2>5. MarksSpaced(marks, len + Len(total))
    <3> HIDE DEF len
    <3> QED BY <2>1, <2>4, <1>1, SpacedStay DEF len
  <2> QED BY <2>2, <2>3, <2>5, <1>4, <1>26, Zenon DEF MarksAre
<1>34. CodecTypes'
  <2>1. accepted' \subseteq 0 .. Len(input') - 1
    <3>1. accepted \subseteq 0 .. n - 1
      BY DEF CodecInv, CodecTypes
    <3>2. n \in 0..n /\ \A k \in 0 .. n - 1 : k \in 0 .. n
      BY <1>1
    <3>3. accepted' \subseteq 0..n
      BY <3>1, <3>2, <1>4, Zenon
    <3> QED BY <3>3, <1>27, Zenon
  <2>2. CodecTypes
    BY DEF CodecInv
  <2> QED BY <2>1, <2>2, <1>4, <1>19, Zenon DEF CodecTypes
<1> QED BY <1>26, <1>31, <1>32, <1>33, <1>34, Zenon DEF CodecInv

-----------------------------------------------------------------------------
(* What is read. *)

LEMMA ShowsCut ==
  ASSUME NEW codes \in Seq(Entries), NEW place \in Nat, NEW s \in Seq(Octet),
         NEW n \in 0..Len(s), NEW piece, NEW rest, Cut(piece, rest, s, n),
         Shows(s, codes, place)
  PROVE  Shows(piece, codes, place) /\ Shows(rest, codes, place + n)
<1> DEFINE len == Len(s)
<1>1. /\ len \in Nat /\ n \in Nat /\ n <= len
      /\ Len(piece) = n /\ (\A k \in 1..n : piece[k] = s[k])
      /\ Len(rest) = len - n /\ (\A k \in 1 .. len - n : rest[k] = s[n + k])
  <2>1. len \in Nat /\ n \in Nat /\ n <= len
    OBVIOUS
  <2> QED BY <2>1, Zenon DEF Cut
<1>2. ASSUME NEW j \in 1..Len(codes), NEW k \in 1..Len(codes[j].bytes)
      PROVE  /\ codes[j].at \in Nat /\ k \in Nat
             /\ codes[j].at + k \in place + 1 .. place + len =>
                  s[(codes[j].at + k) - place] = codes[j].bytes[k]
  <2>1. codes[j] \in Entries
    BY ElementOfSeq
  <2>2. codes[j].at \in Nat /\ Len(codes[j].bytes) \in Nat
    <3> DEFINE e == codes[j]
    <3>1. e \in Entries
      BY <2>1
    <3> HIDE DEF e
    <3>2. e.at \in Nat /\ e.bytes \in Seq(Octet)
      BY <3>1 DEF Entries
    <3>3. Len(e.bytes) \in Nat
      BY <3>2
    <3> QED BY <3>2, <3>3, Zenon DEF e
  <2>3. k \in Nat
    BY <2>2
  <2>4. codes[j].at + k \in place + 1 .. place + len =>
          s[(codes[j].at + k) - place] = codes[j].bytes[k]
    BY Zenon DEF Shows
  <2> QED BY <2>2, <2>3, <2>4, Zenon
<1> HIDE DEF len
<1>3. Shows(piece, codes, place)
  <2> SUFFICES ASSUME NEW j \in 1..Len(codes), NEW k \in 1..Len(codes[j].bytes),
                      codes[j].at + k \in place + 1 .. place + n
               PROVE  piece[(codes[j].at + k) - place] = codes[j].bytes[k]
    BY <1>1, Zenon DEF Shows
  <2> DEFINE x == codes[j].at
  <2>1. x \in Nat /\ k \in Nat /\ x + k \in place + 1 .. place + n
    BY <1>2
  <2>2. x + k \in place + 1 .. place + len => s[(x + k) - place] = codes[j].bytes[k]
    BY <1>2
  <2> HIDE DEF x
  <2>3. x + k \in place + 1 .. place + len /\ (x + k) - place \in 1..n
    BY <1>1, <2>1
  <2>4. piece[(x + k) - place] = codes[j].bytes[k]
    BY <1>1, <2>2, <2>3, Zenon
  <2> QED BY <2>4 DEF x
<1>4. Shows(rest, codes, place + n)
  <2> SUFFICES ASSUME NEW j \in 1..Len(codes), NEW k \in 1..Len(codes[j].bytes),
                      codes[j].at + k \in (place + n) + 1 .. (place + n) + (len - n)
               PROVE  rest[(codes[j].at + k) - (place + n)] = codes[j].bytes[k]
    BY <1>1, Zenon DEF Shows
  <2> DEFINE x == codes[j].at
  <2>1. x \in Nat /\ k \in Nat /\ x + k \in (place + n) + 1 .. (place + n) + (len - n)
    BY <1>2
  <2>2. x + k \in place + 1 .. place + len => s[(x + k) - place] = codes[j].bytes[k]
    BY <1>2
  <2> HIDE DEF x
  <2>3. /\ x + k \in place + 1 .. place + len /\ (x + k) - (place + n) \in 1 .. len - n
        /\ n + ((x + k) - (place + n)) = (x + k) - place
    BY <1>1, <2>1
  <2>4. rest[(x + k) - (place + n)] = codes[j].bytes[k]
    BY <1>1, <2>2, <2>3, Zenon
  <2> QED BY <2>4 DEF x
<1> QED BY <1>3, <1>4

(* readNext took n bytes of this type at this place: the marks still stand *)
(* where the control codes are, and what was taken is one of those codes,  *)
(* or has none in it.                                                      *)
Led(codes, len, places, place, n, type, left) ==
  /\ MarksStand(MovedUp(left, n), codes, place + n)
  /\ Between(codes, place + n)
  /\ MarksSpaced(places, len) => MarksSpaced(MovedUp(left, n), len - n)
  /\ type = "Control" => \E j \in 1..Len(codes) :
       Control(codes[j]) /\ codes[j].at = place /\ Len(codes[j].bytes) = n
  /\ type = "Sample" => \A j \in 1..Len(codes) :
       Control(codes[j]) => codes[j].at < place \/ codes[j].at >= place + n

(* The marks tell readNext where the control codes are. *)
LEMMA MarksLead ==
  ASSUME NEW fed \in Seq(Samples), Len(fed) <= MaxSamples,
         NEW codes \in Seq(Entries), NEW taken, NEW period,
         LogIs(codes, fed, taken, period),
         NEW len \in Nat, NEW places, MarksFit(places, len), NEW place \in Nat,
         MarksStand(places, codes, place), Between(codes, place),
         NEW n \in 1..len, NEW type \in {"Control", "Sample"}, NEW left,
         ReadMarks(type, n, places, left), MarksFit(left, len)
  PROVE  Led(codes, len, places, place, n, type, left)
<1> DEFINE all == MovedUp(left, n)  next == place + n
<1>1. /\ Len(all) = Len(left)
      /\ \A k \in 1..Len(left) : all[k].at = left[k].at - n /\ all[k].size = left[k].size
  <2>1. n \in 0..len
    OBVIOUS
  <2>2. \A k \in 1..Len(left) : n <= left[k].at
    BY Zenon DEF ReadMarks
  <2> QED BY <2>1, <2>2, FitsMovedUp
<1> HIDE DEF all
<1>2. /\ places \in Seq(Mark) /\ left \in Seq(Mark) /\ Len(places) \in Nat /\ Len(left) \in Nat
      /\ \A k \in 1..Len(left) : n <= left[k].at
  <2>1. places \in Seq(Mark) /\ left \in Seq(Mark)
    BY Zenon DEF MarksFit, Mark
  <2> QED BY <2>1 DEF ReadMarks
<1>3. /\ type = "Sample" => left = places
      /\ type = "Control" => /\ places # <<>> /\ left = Tail(places)
                             /\ places[1].at = 0 /\ n = places[1].size
  BY Zenon DEF ReadMarks
<1>4. type = "Control" => /\ Len(left) = Len(places) - 1 /\ 1 \in 1..Len(places)
                          /\ \A k \in 1 .. Len(places) - 1 : left[k] = places[k + 1]
  BY <1>3, FitsTail, Zenon
<1>5. ASSUME NEW k \in 1..Len(left)
      PROVE  \E l \in 1..Len(places) :
               left[k] = places[l] /\ Len(left) - k + 1 = Len(places) - l + 1
  <2>1. CASE type = "Sample"
    BY <2>1, <1>3
  <2>2. CASE type = "Control"
    <3>1. /\ k \in 1 .. Len(places) - 1 /\ k + 1 \in 1..Len(places)
          /\ Len(left) - k + 1 = Len(places) - (k + 1) + 1
      BY <2>2, <1>2, <1>4
    <3> QED BY <3>1, <2>2, <1>4, Zenon
  <2> QED BY <2>1, <2>2
<1>6. ASSUME NEW l \in 1..Len(places)
      PROVE  \/ \E k \in 1..Len(left) : left[k] = places[l]
             \/ type = "Control" /\ l = 1
  <2>1. CASE type = "Sample"
    BY <2>1, <1>3
  <2>2. CASE type = "Control" /\ l # 1
    <3>1. l - 1 \in 1 .. Len(places) - 1 /\ (l - 1) + 1 = l /\ l - 1 \in 1..Len(left)
      BY <2>2, <1>2, <1>4
    <3> QED BY <3>1, <2>2, <1>4, Zenon
  <2> QED BY <2>1, <2>2
<1>7. ASSUME NEW j \in 1..Len(codes)
      PROVE  /\ codes[j].at \in Nat /\ EndOf(codes[j]) \in Nat
             /\ codes[j].at < EndOf(codes[j])
             /\ EndOf(codes[j]) = codes[j].at + Len(codes[j].bytes)
  BY Places, Zenon DEF EndOf
<1>8. ASSUME NEW j \in 1..Len(codes), NEW l \in 1..Len(codes), codes[j].at = codes[l].at
      PROVE  j = l
  <2>1. \A a, b \in 1..Len(codes) : a < b => EndOf(codes[a]) <= codes[b].at
    BY Places, Zenon
  <2>2. ASSUME NEW a \in 1..Len(codes), NEW b \in 1..Len(codes), a < b,
               codes[a].at = codes[b].at
        PROVE  FALSE
    <3>1. EndOf(codes[a]) <= codes[b].at
      BY <2>1, <2>2, Zenon
    <3> DEFINE x == codes[a].at  y == codes[b].at  e == EndOf(codes[a])
    <3>2. x \in Nat /\ y \in Nat /\ e \in Nat /\ x < e /\ x = y /\ e <= y
      BY <2>2, <3>1, <1>7
    <3> HIDE DEF x, y, e
    <3> QED BY <3>2
  <2>3. j < l \/ l < j \/ j = l
    OBVIOUS
  <2> QED BY <2>2, <2>3, <1>8, Zenon
<1>9. ASSUME type = "Control"
      PROVE  \E j \in 1..Len(codes) :
               Control(codes[j]) /\ codes[j].at = place /\ Len(codes[j].bytes) = n
  <2>1. PICK j \in 1..Len(codes) : /\ Control(codes[j]) /\ codes[j].at = place + places[1].at
                                   /\ places[1].size = Len(codes[j].bytes)
    BY <1>4, <1>9, Zenon DEF MarksStand
  <2>2. place + places[1].at = place
    BY <1>3, <1>9
  <2> QED BY <2>1, <2>2, <1>3, <1>9, Zenon
<1>10. ASSUME NEW j \in 1..Len(codes), Control(codes[j]), codes[j].at >= place
       PROVE  \/ \E k \in 1..Len(left) : /\ codes[j].at = next + all[k].at
                                         /\ codes[j].at >= next
              \/ type = "Control" /\ codes[j].at = place /\ EndOf(codes[j]) = next
  <2>1. PICK l \in 1..Len(places) : codes[j].at = place + places[l].at
    BY <1>10, Zenon DEF MarksStand
  <2>2. CASE \E k \in 1..Len(left) : left[k] = places[l]
    <3>1. PICK k \in 1..Len(left) : left[k] = places[l]
      BY <2>2
    <3>2. left[k] \in Mark /\ n <= left[k].at /\ all[k].at = left[k].at - n
      BY <1>1, <1>2, ElementOfSeq, Zenon
    <3> DEFINE x == codes[j].at  y == left[k].at
    <3>3. x = place + y /\ y \in Nat /\ n <= y /\ all[k].at = y - n /\ n \in Nat
      BY <2>1, <3>1, <3>2 DEF Mark
    <3> HIDE DEF x, y
    <3>4. x = next + (y - n) /\ x >= next
      BY <3>3
    <3> QED BY <3>3, <3>4, Zenon DEF x
  <2>3. CASE type = "Control" /\ l = 1
    <3>1. codes[j].at = place
      BY <2>1, <2>3, <1>3
    <3>2. PICK l2 \in 1..Len(codes) : codes[l2].at = place /\ Len(codes[l2].bytes) = n
      BY <2>3, <1>9, Zenon
    <3>3. l2 = j
      BY <3>1, <3>2, <1>8, Zenon
    <3>4. EndOf(codes[j]) = next
      BY <3>1, <3>2, <3>3, <1>7, Zenon
    <3> QED BY <2>3, <3>1, <3>4
  <2> QED BY <1>6, <2>2, <2>3, Zenon
<1>11. MarksStand(all, codes, next)
  <2>1. ASSUME NEW k \in 1..Len(all)
        PROVE  \E j \in 1..Len(codes) : /\ Control(codes[j]) /\ codes[j].at = next + all[k].at
                                        /\ all[k].size = Len(codes[j].bytes)
    <3>1. k \in 1..Len(left)
      BY <1>1
    <3>2. PICK l \in 1..Len(places) : left[k] = places[l]
      BY <1>5, <3>1, Zenon
    <3>3. PICK j \in 1..Len(codes) : /\ Control(codes[j]) /\ codes[j].at = place + places[l].at
                                     /\ places[l].size = Len(codes[j].bytes)
      BY Zenon DEF MarksStand
    <3>4. left[k] \in Mark /\ all[k].at = left[k].at - n /\ all[k].size = left[k].size
      BY <3>1, <1>1, <1>2, ElementOfSeq
    <3> DEFINE y == left[k].at
    <3>5. y \in Nat /\ n \in Nat /\ codes[j].at = place + y /\ all[k].at = y - n
      BY <3>2, <3>3, <3>4 DEF Mark
    <3> HIDE DEF y
    <3>6. place + y = next + (y - n)
      BY <3>5
    <3> QED BY <3>2, <3>3, <3>4, <3>5, <3>6, Zenon
  <2>2. ASSUME NEW j \in 1..Len(codes), Control(codes[j]), codes[j].at >= next
        PROVE  \E k \in 1..Len(all) : codes[j].at = next + all[k].at
    <3>1. codes[j].at >= place /\ codes[j].at # place
      <4> DEFINE x == codes[j].at
      <4>1. x \in Nat /\ x >= place + n /\ n \in Nat /\ n >= 1
        BY <2>2, <1>7
      <4> HIDE DEF x
      <4>2. x >= place /\ x # place
        BY <4>1
      <4> QED BY <4>2 DEF x
    <3> QED BY <3>1, <2>2, <1>1, <1>10, Zenon
  <2> QED BY <2>1, <2>2, Zenon DEF MarksStand
<1>12. Between(codes, next)
  <2> SUFFICES ASSUME NEW j \in 1..Len(codes), Control(codes[j])
               PROVE  codes[j].at >= next \/ EndOf(codes[j]) <= next
    BY Zenon DEF Between
  <2>1. codes[j].at >= place \/ EndOf(codes[j]) <= place
    BY Zenon DEF Between
  <2>2. CASE EndOf(codes[j]) <= place
    <3> DEFINE x == EndOf(codes[j])
    <3>1. x \in Nat /\ x <= place /\ n \in Nat
      BY <2>2, <1>7
    <3> HIDE DEF x
    <3>2. x <= next
      BY <3>1
    <3> QED BY <3>2 DEF x
  <2>3. CASE codes[j].at >= place
    <3>1. codes[j].at >= next \/ EndOf(codes[j]) = next
      BY <2>3, <1>10, Zenon
    <3>2. next \in Nat
      OBVIOUS
    <3>3. next <= next
      BY <3>2
    <3> QED BY <3>1, <3>3, Zenon
  <2> QED BY <2>1, <2>2, <2>3
<1>13. ASSUME MarksSpaced(places, len) PROVE MarksSpaced(all, len - n)
  <2> SUFFICES ASSUME NEW k \in 1..Len(all)
               PROVE  (Len(all) - k + 1) * ResyncSize <= (len - n) - all[k].at
    BY Zenon DEF MarksSpaced
  <2>1. k \in 1..Len(left)
    BY <1>1
  <2>2. PICK l \in 1..Len(places) :
          left[k] = places[l] /\ Len(left) - k + 1 = Len(places) - l + 1
    BY <2>1, <1>5, Zenon
  <2>3. (Len(places) - l + 1) * ResyncSize <= len - places[l].at
    BY <1>13, Zenon DEF MarksSpaced
  <2>4. (Len(all) - k + 1) * ResyncSize <= len - left[k].at
    BY <2>2, <2>3, <1>1, Zenon
  <2>5. left[k] \in Mark /\ all[k].at = left[k].at - n
    BY <2>1, <1>1, <1>2, ElementOfSeq
  <2> DEFINE y == left[k].at  p == (Len(all) - k + 1) * ResyncSize
  <2>6. y \in Nat /\ p <= len - y /\ all[k].at = y - n
    BY <2>4, <2>5 DEF Mark
  <2> HIDE DEF y, p
  <2>7. (len - n) - (y - n) = len - y
    BY <2>6
  <2> QED BY <2>6, <2>7, Zenon DEF p
<1>14. ASSUME type = "Sample", NEW j \in 1..Len(codes), Control(codes[j])
       PROVE  codes[j].at < place \/ codes[j].at >= place + n
  <2>1. type # "Control"
    BY <1>14
  <2>2. codes[j].at < place \/ codes[j].at >= place
    BY <1>7
  <2> QED BY <2>1, <2>2, <1>10, <1>14, Zenon
<1> QED BY <1>9, <1>11, <1>12, <1>13, <1>14, Zenon DEF all, Led

LEMMA ReadKeeps ==
  ASSUME CodecInv, ReadNext, RoomInv'
  PROVE  CodecInv'
<1> DEFINE len == Len(stream)  place == TailAt
<1>1. /\ input \in Seq(Samples) /\ Len(input) <= MaxSamples
      /\ log \in Seq(Entries) /\ LogIs(log, input, accepted, writer.syncPeriod)
      /\ stream \in Seq(Octet) /\ len \in Nat /\ MarksFit(marks, len)
      /\ Pushed \in Nat /\ place \in Nat /\ Pushed = place + len
      /\ place = DoneAt + Len(chunk.bytes) /\ DoneAt \in Nat
  BY LogFacts, Zenon
<1>2. RoomInv /\ WriterKnows /\ StreamIs /\ MarksAre
  BY DEF CodecInv
<1>3. PICK n \in 1..len, type \in {"Control", "Sample"}, left \in Seq(Mark) :
           /\ ReadMarks(type, n, marks, left) /\ marks' = MovedUp(left, n)
           /\ MarksFit(left, len)
           /\ chunk = None /\ chunk' = [type |-> type, bytes |-> SubSeq(stream, 1, n)]
           /\ stream' = SubSeq(stream, n + 1, len)
           /\ \E b \in {FALSE, writer.backpressure} :
                writer' = [writer EXCEPT !.backpressure = b]
  BY <1>2, ReadIs, Zenon
<1>4. /\ reader' = reader /\ input' = input /\ accepted' = accepted /\ blocks' = blocks
      /\ log' = log /\ ended' = ended
  BY DEF ReadNext
<1> DEFINE piece == SubSeq(stream, 1, n)  rest == SubSeq(stream, n + 1, len)
<1>5. n \in 0..len /\ n \in Nat
  BY <1>1
<1>6. /\ piece \in Seq(Octet) /\ rest \in Seq(Octet) /\ Cut(piece, rest, stream, n)
  BY <1>1, <1>5, Cutting
<1>7. Len(piece) = n /\ Len(rest) = len - n
  BY <1>6, Zenon DEF Cut
<1>8. chunk'.type = type /\ chunk'.bytes = piece /\ stream' = rest
  BY <1>3
<1> HIDE DEF piece, rest
<1>9. DoneAt = place
  <2>1. Len(chunk.bytes) = 0
    BY <1>3 DEF None
  <2> QED BY <2>1, <1>1
<1>10. TailAt' = place + n
  <2>1. Pushed' = Pushed
    BY <1>4 DEF Pushed, Newest
  <2>2. TailAt' = Pushed' - Len(stream')
    BY Zenon DEF TailAt
  <2> DEFINE p == Pushed
  <2>3. TailAt' = p - (len - n) /\ p = place + len
    BY <2>1, <2>2, <1>1, <1>7, <1>8, Zenon
  <2> HIDE DEF p, len, place
  <2>4. p - (len - n) = place + n
    BY <2>3, <1>1, <1>5
  <2> QED BY <2>3, <2>4, Zenon
<1>11. DoneAt' = place
  <2>1. DoneAt' = TailAt' - Len(chunk'.bytes)
    BY Zenon DEF DoneAt
  <2>2. DoneAt' = (place + n) - n
    BY <2>1, <1>7, <1>8, <1>10, Zenon
  <2> HIDE DEF place
  <2>3. (place + n) - n = place
    BY <1>1, <1>5
  <2> QED BY <2>2, <2>3, Zenon
<1>12. Shows(piece, log, place) /\ Shows(rest, log, place + n)
  <2>1. Shows(stream, log, place)
    BY <1>2 DEF StreamIs
  <2> HIDE DEF place
  <2> QED BY <2>1, <1>1, <1>5, <1>6, ShowsCut, Zenon
<1>13. /\ MarksStand(MovedUp(left, n), log, place + n)
       /\ Between(log, place + n)
       /\ MarksSpaced(marks, len) => MarksSpaced(MovedUp(left, n), len - n)
       /\ type = "Control" => \E j \in 1..Len(log) :
            Control(log[j]) /\ log[j].at = place /\ Len(log[j].bytes) = n
       /\ type = "Sample" => \A j \in 1..Len(log) :
            Control(log[j]) => log[j].at < place \/ log[j].at >= place + n
  <2>1. MarksStand(marks, log, place) /\ Between(log, place)
    BY <1>2, Zenon DEF StreamIs, MarksAre
  <2>2. n \in 1..len /\ ReadMarks(type, n, marks, left) /\ MarksFit(left, len)
    BY <1>3
  <2>3. /\ input \in Seq(Samples) /\ Len(input) <= MaxSamples /\ log \in Seq(Entries)
        /\ len \in Nat /\ place \in Nat /\ MarksFit(marks, len)
    BY <1>1, Zenon
  <2>4. LogIs(log, input, accepted, writer.syncPeriod)
    BY <1>1, Zenon
  <2> HIDE DEF place, len
  <2>5. Led(log, len, marks, place, n, type, left)
    BY <2>1, <2>2, <2>3, <2>4, MarksLead
  <2> QED BY <2>5, Zenon DEF Led
<1>14. StreamIs'
  <2>1. place + n \in Nat
    BY <1>1, <1>5
  <2>2. (TailAt \in Nat)' /\ Shows(stream, log, TailAt)' /\ Between(log, TailAt)'
    BY <2>1, <1>4, <1>8, <1>10, <1>12, <1>13, Zenon
  <2> QED BY <2>2, Zenon DEF StreamIs
<1>15. MarksAre'
  <2>1. ~ended => MarksSpaced(marks, len)
    BY <1>2, Zenon DEF MarksAre
  <2>2. MarksStand(marks, log, TailAt)'
    BY <1>3, <1>4, <1>10, <1>13, Zenon
  <2>3. (~ended => MarksSpaced(marks, Len(stream)))'
    BY <2>1, <1>3, <1>4, <1>7, <1>8, <1>13, Zenon
  <2> QED BY <2>2, <2>3, Zenon DEF MarksAre
<1>16. ChunkIs'
  <2>1. ASSUME chunk'.type = "Control"
        PROVE  \E j \in 1..Len(log') : Control(log'[j]) /\ log'[j].at = DoneAt'
                                       /\ chunk'.bytes = log'[j].bytes
    <3>1. PICK j \in 1..Len(log) :
            Control(log[j]) /\ log[j].at = place /\ Len(log[j].bytes) = n
      BY <2>1, <1>8, <1>13, Zenon
    <3> DEFINE b == log[j].bytes
    <3>2. b \in Seq(Octet) /\ Len(b) = n
      <4> DEFINE e == log[j]
      <4>1. e \in Entries
        BY <1>1, ElementOfSeq
      <4> HIDE DEF e
      <4>2. e.bytes \in Seq(Octet)
        BY <4>1 DEF Entries
      <4> QED BY <4>2, <3>1, Zenon DEF e
    <3>3. ASSUME NEW k \in 1..Len(piece) PROVE piece[k] = b[k]
      <4>1. k \in 1..n /\ place + k \in place + 1 .. place + Len(piece) /\ (place + k) - place = k
        <5> HIDE DEF place
        <5> QED BY <1>1, <1>5, <1>7
      <4>2. piece[(place + k) - place] = b[k]
        BY <4>1, <3>1, <1>12, Zenon DEF Shows
      <4> QED BY <4>1, <4>2, Zenon
    <3>4. piece = b
      <4> HIDE DEF b
      <4> QED BY <3>2, <3>3, <1>6, <1>7, SeqEqual
    <3> QED BY <3>1, <3>4, <1>4, <1>8, <1>11, Zenon
  <2>2. ASSUME chunk'.type = "Sample"
        PROVE  /\ Shows(chunk'.bytes, log', DoneAt')
               /\ \A j \in 1..Len(log') :
                    Control(log'[j]) => log'[j].at < DoneAt' \/ log'[j].at >= TailAt'
    BY <2>2, <1>4, <1>8, <1>10, <1>11, <1>12, <1>13, Zenon
  <2>3. chunk'.type # "none"
    BY <1>8
  <2>4. DoneAt' \in Nat
    BY <1>1, <1>11
  <2> QED BY <2>1, <2>2, <2>3, <2>4, Zenon DEF ChunkIs
<1>17. ReaderIs'
  <2>1. ReaderAt(BlockBegun(reader), DoneAt, log, input)
    BY DEF CodecInv, ReaderIs
  <2>2. ReaderAt(BlockBegun(reader'), DoneAt', log', input')
    BY <2>1, <1>4, <1>9, <1>11, Zenon
  <2> QED BY <2>2, Zenon DEF ReaderIs
<1>18. BlocksBefore'
  <2>1. BlocksBefore /\ DoneAt' = DoneAt
    BY <1>9, <1>11, Zenon DEF CodecInv
  <2> QED BY <2>1, <1>4 DEF BlocksBefore
<1>19. BlocksAreTrue' /\ BlocksInOrder'
  <2>1. BlocksAreTrue /\ BlocksInOrder
    BY DEF CodecInv
  <2>2. BlocksAreTrue'
    BY <2>1, <1>4 DEF BlocksAreTrue
  <2>3. BlocksInOrder'
    BY <2>1, <1>4 DEF BlocksInOrder, Covers
  <2> QED BY <2>2, <2>3
<1>20. PICK b \in {FALSE, writer.backpressure} : writer' = [writer EXCEPT !.backpressure = b]
  BY <1>3, Zenon
<1>21. /\ writer'.dod = writer.dod /\ writer'.tillSync = writer.tillSync
       /\ writer'.syncPeriod = writer.syncPeriod /\ writer'.backpressure = b
  <2>1. writer \in [dod : ChannelStates, syncPeriod : SyncPeriods, tillSync : Nat,
                    backpressure : BOOLEAN]
    BY <1>2 DEF RoomInv
  <2> QED BY <2>1, <1>20
<1>22. WriterKnows'
  <2>1. Newest' = Newest
    BY <1>4 DEF Newest
  <2>2. writer'.backpressure => writer'.tillSync = 0
    BY <1>2, <1>21, Zenon DEF WriterKnows
  <2>3. writer'.dod = DodBehind(input', Len(input') - 1)
    BY <1>2, <1>4, <1>21, Zenon DEF WriterKnows
  <2> QED BY <2>1, <2>2, <2>3, <1>2, <1>4, <1>21, Zenon DEF WriterKnows
<1>23. LogIs(log, input, accepted, writer.syncPeriod)'
  BY <1>1, <1>4, <1>21, Zenon
<1>24. CodecTypes'
  <2>1. CodecTypes
    BY DEF CodecInv
  <2>2. chunk' \in [type : {"none", "Control", "Sample"}, bytes : Seq(Octet)]
    <3>1. chunk' = [type |-> type, bytes |-> piece]
      BY <1>3 DEF piece
    <3> QED BY <3>1, <1>6
  <2> QED BY <2>1, <2>2, <1>4 DEF CodecTypes
<1> QED BY <1>14, <1>15, <1>16, <1>17, <1>18, <1>19, <1>22, <1>23, <1>24, Zenon DEF CodecInv

(* The block begun is what the reader has at its place. *)
LEMMA ReaderShape ==
  ASSUME NEW r, NEW place, NEW codes, NEW fed, ReaderAt(r, place, codes, fed)
  PROVE  r \in Readers /\ ~r.ready /\ BlockBegun(r) = r
<1>1. PICK j \in 0..Len(codes), k \in 0..2 :
        /\ ReaderHas(r, codes, j, fed)
        /\ k = 0 => r.state = "DOD"
        /\ k > 0 => ReaderWithin(r, codes[j + 1], k)
  BY Zenon DEF ReaderAt
<1>2. r \in Readers /\ ~r.ready
  BY <1>1, Zenon DEF ReaderHas
<1>3. r.state # "Sample"
  <2>1. k = 0 \/ k > 0
    OBVIOUS
  <2>2. CASE k = 0
    <3>1. r.state = "DOD"
      BY <2>2, <1>1
    <3> QED BY <3>1
  <2>3. CASE k > 0
    <3>1. r.state = "WORD"
      BY <2>3, <1>1, Zenon DEF ReaderWithin
    <3> QED BY <3>1
  <2> QED BY <2>1, <2>2, <2>3
<1>4. BlockBegun(r) = r
  BY <1>3, Zenon DEF BlockBegun
<1> QED BY <1>2, <1>4

(* A control code closes the block that the reader has. *)
LEMMA Closing ==
  ASSUME NEW fed \in Seq(Samples), Len(fed) <= MaxSamples,
         NEW codes \in Seq(Entries), NEW taken, NEW period,
         LogIs(codes, fed, taken, period),
         NEW r \in Readers, ~r.ready, NEW l \in 1..Len(codes), Control(codes[l])
  PROVE  Closes(DecodeControl(r, codes[l].bytes), r, codes[l].bytes)
<1> DEFINE e == codes[l]
<1>1. /\ EntryIs(e, fed, taken, period) /\ e.n \in Int /\ e.n >= -1 /\ e.n < Len(fed)
      /\ e.block \in Nat /\ e.kind \in {"resync", "dod", "flush"} /\ e.kind # "dod"
  BY Entry DEF Control
<1> HIDE DEF e
<1>2. CASE e.kind = "resync"
  <2> DEFINE dod == DodBehind(fed, e.n)  bytes == ResyncBytes(e.n, dod)
  <2>1. e.n = e.block /\ e.bytes = bytes
    BY <1>1, <1>2, Zenon DEF EntryIs
  <2>2. e.n \in Nat /\ e.n < 2 * Half
    <3>1. MaxSamples < 2 * Half /\ MaxSamples \in Nat /\ Len(fed) \in Nat
      BY DaqCodecAssumption
    <3>2. Half \in Nat
      BY HalfIs
    <3> QED BY <3>1, <3>2, <2>1, <1>1
  <2>3. dod \in ChannelStates
    BY <1>1, DodBehindIs, Zenon
  <2> HIDE DEF dod
  <2>4. bytes \in Seq(Octet) /\ Len(bytes) = ResyncSize /\ bytes[1] = 255
    BY <2>2, <2>3, ResyncBytesAre
  <2>5. bytes # <<>>
    BY <2>4, ChannelsAre
  <2> HIDE DEF bytes
  <2>6. Closes(DecodeControl(r, bytes), r, bytes)
    BY <2>4, <2>5, ControlCloses
  <2> QED BY <2>1, <2>6, Zenon DEF e
<1>3. CASE e.kind = "flush"
  <2>1. e.bytes = <<254>>
    BY <1>1, <1>3, Zenon DEF EntryIs
  <2>2. e.bytes \in Seq(Octet) /\ e.bytes # <<>> /\ e.bytes[1] = 254
    <3>1. <<254>> \in Seq(Octet) /\ <<254>> # <<>> /\ <<254>>[1] = 254
      BY DEF Octet
    <3> QED BY <3>1, <2>1, Zenon
  <2>3. Closes(DecodeControl(r, e.bytes), r, e.bytes)
    BY <2>2, ControlCloses
  <2> QED BY <2>3, Zenon DEF e
<1> QED BY <1>1, <1>2, <1>3

(* A reader that has no block yet is never given residuals. *)
LEMMA Idle ==
  ASSUME NEW fed \in Seq(Samples), Len(fed) <= MaxSamples,
         NEW codes \in Seq(Entries), NEW taken, NEW period,
         LogIs(codes, fed, taken, period),
         NEW r, NEW place \in Nat, ReaderAt(r, place, codes, fed), ~r.inSync,
         NEW n \in Nat, place + n <= Behind(codes, Len(codes)),
         \A j \in 1..Len(codes) :
           Control(codes[j]) => codes[j].at < place \/ codes[j].at >= place + n
  PROVE  n = 0
<1>1. PICK j \in 0..Len(codes), k \in 0..2 :
        /\ ReaderHas(r, codes, j, fed)
        /\ place = Behind(codes, j) + k
        /\ k = 0 => r.state = "DOD"
        /\ k > 0 => j < Len(codes) /\ ReaderWithin(r, codes[j + 1], k)
  BY Zenon DEF ReaderAt
<1>2. ~ (j > 0 /\ codes[j].n >= 0)
  BY <1>1, Zenon DEF ReaderHas
<1>3. ASSUME j < Len(codes) PROVE Control(codes[j + 1])
  <2>1. CASE j = 0
    <3>1. j + 1 = 1 /\ codes # <<>>
      BY <1>3, <2>1
    <3> QED BY <3>1, Zenon DEF LogIs
  <2>2. CASE j > 0
    <3>1. j + 1 \in 2..Len(codes) /\ (j + 1) - 1 = j
      BY <1>3, <2>2
    <3>2. Consecutive(codes[j], codes[j + 1])
      BY <3>1, Zenon DEF LogIs
    <3>3. codes[j + 1].kind # "dod"
      BY <3>2, <1>2, <2>2, Zenon DEF Consecutive
    <3> QED BY <3>3, Zenon DEF Control
  <2>3. j = 0 \/ j > 0
    OBVIOUS
  <2> QED BY <2>1, <2>2, <2>3
<1>4. k = 0
  <2>1. ~ (k > 0)
    BY <1>1, <1>3, Zenon DEF ReaderWithin
  <2> QED BY <2>1
<1>5. Behind(codes, j) \in Nat
  BY Places
<1>6. place = Behind(codes, j)
  <2> DEFINE b == Behind(codes, j)
  <2>1. b \in Nat /\ place = b + k
    BY <1>1, <1>5
  <2> HIDE DEF b
  <2>2. place = b
    BY <2>1, <1>4
  <2> QED BY <2>2 DEF b
<1>7. CASE j = Len(codes)
  <2> DEFINE b == Behind(codes, Len(codes))
  <2>1. place + n <= b /\ place = b
    BY <1>6, <1>7
  <2> HIDE DEF b
  <2> QED BY <2>1
<1>8. CASE j < Len(codes)
  <2>1. j + 1 \in 1..Len(codes) /\ (j + 1) - 1 = j
    BY <1>8
  <2>2. codes[j + 1].at = Behind(codes, (j + 1) - 1)
    BY <2>1, Places, Zenon
  <2>3. codes[j + 1].at = place
    BY <2>1, <2>2, <1>6, Zenon
  <2>4. codes[j + 1].at < place \/ codes[j + 1].at >= place + n
    BY <2>1, <1>3, <1>8, Zenon
  <2>5. place < place \/ place >= place + n
    BY <2>3, <2>4, Zenon
  <2> QED BY <2>5
<1>9. j = Len(codes) \/ j < Len(codes)
  OBVIOUS
<1> QED BY <1>7, <1>8, <1>9

(* What decode leaves as it is, and what it begins with. *)
LEMMA Decodes ==
  ASSUME CodecInv, Decode
  PROVE  /\ writer' = writer /\ stream' = stream /\ marks' = marks /\ input' = input
         /\ accepted' = accepted /\ log' = log /\ ended' = ended /\ chunk' = None
         /\ TailAt' = TailAt /\ DoneAt' = TailAt /\ TailAt = DoneAt + Len(chunk.bytes)
         /\ chunk.type \in {"Control", "Sample"}
         /\ ReaderAt(BlockBegun(reader), DoneAt, log, input)
<1>1. /\ writer' = writer /\ stream' = stream /\ marks' = marks /\ input' = input
      /\ accepted' = accepted /\ log' = log /\ ended' = ended /\ chunk' = None /\ chunk # None
  BY DEF Decode
<1>2. TailAt' = TailAt
  BY <1>1 DEF TailAt, Pushed, Newest
<1>3. DoneAt' = TailAt
  <2>1. DoneAt' = TailAt' - Len(chunk'.bytes)
    BY Zenon DEF DoneAt
  <2>2. Len(chunk'.bytes) = 0
    BY <1>1 DEF None
  <2>3. TailAt \in Nat
    BY LogFacts
  <2> QED BY <2>1, <2>2, <2>3, <1>2
<1>4. chunk.type \in {"Control", "Sample"}
  <2>1. chunk.type \in {"none", "Control", "Sample"}
    BY DEF CodecInv, CodecTypes
  <2>2. chunk.type = "none" => chunk = None
    BY Zenon DEF CodecInv, ChunkIs
  <2> QED BY <2>1, <2>2, <1>1
<1>5. TailAt = DoneAt + Len(chunk.bytes)
  BY LogFacts
<1>6. ReaderAt(BlockBegun(reader), DoneAt, log, input)
  BY DEF CodecInv, ReaderIs
<1> QED BY <1>1, <1>2, <1>3, <1>4, <1>5, <1>6

(* Only the reader and its blocks depend on what is decoded. *)
LEMMA DecodeFrame ==
  ASSUME CodecInv, Decode, RoomInv', reader' \in Readers,
         ReaderAt(BlockBegun(reader'), TailAt, log, input), BlocksBefore',
         BlocksAreTrue', BlocksInOrder',
         blocks' \in Seq(SampleBlocks)
  PROVE  CodecInv'
<1>1. /\ writer' = writer /\ stream' = stream /\ marks' = marks /\ input' = input
      /\ accepted' = accepted /\ log' = log /\ ended' = ended /\ chunk' = None
      /\ TailAt' = TailAt /\ DoneAt' = TailAt
  BY Decodes
<1>2. CodecTypes'
  <2>1. CodecTypes
    BY DEF CodecInv
  <2>2. chunk' \in [type : {"none", "Control", "Sample"}, bytes : Seq(Octet)]
    <3>1. <<>> \in Seq(Octet)
      OBVIOUS
    <3> QED BY <3>1, <1>1 DEF None
  <2> QED BY <2>1, <2>2, <1>1 DEF CodecTypes
<1>3. WriterKnows'
  <2>1. WriterKnows /\ Newest' = Newest
    BY <1>1 DEF CodecInv, Newest
  <2>2. writer'.dod = DodBehind(input', Len(input') - 1)
    BY <2>1, <1>1, Zenon DEF WriterKnows
  <2> QED BY <2>1, <2>2, <1>1, Zenon DEF WriterKnows
<1>4. LogIs(log, input, accepted, writer.syncPeriod)'
  <2>1. LogIs(log, input, accepted, writer.syncPeriod)
    BY DEF CodecInv
  <2> QED BY <2>1, <1>1, Zenon
<1>5. StreamIs' /\ MarksAre'
  <2>1. StreamIs /\ MarksAre
    BY DEF CodecInv
  <2>2. (TailAt \in Nat)' /\ Shows(stream, log, TailAt)' /\ Between(log, TailAt)'
    BY <2>1, <1>1, Zenon DEF StreamIs
  <2>3. MarksStand(marks, log, TailAt)' /\ (~ended => MarksSpaced(marks, Len(stream)))'
    BY <2>1, <1>1, Zenon DEF MarksAre
  <2> QED BY <2>2, <2>3, Zenon DEF StreamIs, MarksAre
<1>6. ChunkIs'
  <2>1. DoneAt' \in Nat
    BY <1>1, LogFacts
  <2>2. chunk'.type = "none" /\ chunk' = None
    BY <1>1 DEF None
  <2>3. chunk'.type # "Control" /\ chunk'.type # "Sample"
    BY <2>2
  <2> QED BY <2>1, <2>2, <2>3, Zenon DEF ChunkIs
<1>7. ReaderIs'
  <2>1. ReaderAt(BlockBegun(reader'), DoneAt', log', input')
    BY <1>1, Zenon
  <2> QED BY <2>1, Zenon DEF ReaderIs
<1> QED BY <1>2, <1>3, <1>4, <1>5, <1>6, <1>7, Zenon DEF CodecInv

(* Residuals are decoded: the reader stays in its block. *)
LEMMA SampleKeeps ==
  ASSUME Agreed, BlockSuffices, CodecInv, Decode, chunk.type = "Sample", RoomInv'
  PROVE  CodecInv'
<1> DEFINE b == BlockBegun(reader)  y == Decoded(reader, chunk)  bytes == chunk.bytes
<1>1. /\ input \in Seq(Samples) /\ Len(input) <= MaxSamples
      /\ log \in Seq(Entries) /\ LogIs(log, input, accepted, writer.syncPeriod)
      /\ writer.syncPeriod \in SyncPeriods /\ bytes \in Seq(Octet) /\ Len(bytes) \in Nat
      /\ Len(stream) \in Nat /\ Pushed = Behind(log, Len(log))
      /\ Pushed = TailAt + Len(stream) /\ TailAt \in Nat /\ DoneAt \in Nat
  BY LogFacts, Zenon
<1>2. /\ input' = input /\ accepted' = accepted /\ log' = log
      /\ DoneAt' = TailAt /\ TailAt = DoneAt + Len(bytes)
      /\ ReaderAt(b, DoneAt, log, input)
  BY Decodes, Zenon
<1>3. BlockBegun(b) = b
  BY <1>2, ReaderShape
<1>4. DoneAt + Len(bytes) <= Behind(log, Len(log))
  <2> DEFINE t == TailAt  n == Len(stream)  p == Behind(log, Len(log))
  <2>1. t \in Nat /\ n \in Nat /\ p = t + n
    BY <1>1
  <2> HIDE DEF t, n, p
  <2>2. t <= p
    BY <2>1
  <2> QED BY <2>2, <1>2 DEF t, p
<1>5. /\ Shows(bytes, log, DoneAt)
      /\ \A j \in 1..Len(log) :
           Control(log[j]) => log[j].at < DoneAt \/ log[j].at >= DoneAt + Len(bytes)
  BY <1>2, Zenon DEF CodecInv, ChunkIs
<1>6. Follows(y, b, log, input, TailAt)
  <2>1. chunk.type # "Control"
    OBVIOUS
  <2>2. CASE b.inSync
    <3>1. y = DecodeBytes(b, bytes)
      BY <2>1, <2>2, Zenon DEF Decoded
    <3> DEFINE place == DoneAt
    <3> HIDE DEF b, bytes, place
    <3>2. Follows(DecodeBytes(b, bytes), b, log, input, place + Len(bytes))
      BY <1>1, <1>2, <1>4, <1>5, BytesRead, Zenon DEF place, Agreed
    <3> QED BY <3>1, <3>2, <1>2, Zenon DEF place
  <2>3. CASE ~b.inSync
    <3>1. y = b
      BY <2>1, <2>3, Zenon DEF Decoded
    <3> DEFINE place == DoneAt  n == Len(bytes)
    <3> HIDE DEF b, place, n
    <3>2. n = 0
      BY <1>1, <1>2, <1>4, <1>5, <2>3, Idle, Zenon DEF place, n
    <3>3. place + n = place
      BY <3>2, <1>1 DEF place
    <3> QED BY <3>1, <3>3, <1>2, Zenon DEF Follows, place, n
  <2> QED BY <2>2, <2>3
<1>7. ReaderAt(y, TailAt, log, input) /\ y.inSync = b.inSync /\ y.counter = b.counter
  BY <1>6, Zenon DEF Follows
<1>8. y \in Readers /\ ~y.ready /\ BlockBegun(y) = y
  BY <1>7, ReaderShape
<1>9. reader' = y /\ blocks' = blocks
  <2> HIDE DEF y
  <2>1. IF y.ready THEN reader' = Taken(y) ELSE reader' = y /\ UNCHANGED blocks
    BY DEF Decode, y
  <2> QED BY <2>1, <1>8
<1>10. BlockBegun(reader') = y
  BY <1>8, <1>9, Zenon
<1> HIDE DEF y
<1>11. BlocksBefore'
  <2>1. CASE \E j \in 1..Len(log) : log[j].kind = "flush" /\ log[j].at < DoneAt
    <3>1. PICK j \in 1..Len(log) : log[j].kind = "flush" /\ log[j].at < DoneAt
      BY <2>1
    <3>2. log[j].at \in Nat
      BY <1>1, Places, Zenon
    <3> DEFINE x == log[j].at  d == DoneAt
    <3>3. x < d /\ x \in Nat /\ d \in Nat /\ DoneAt' = d + Len(bytes)
      BY <3>1, <3>2, <1>1, <1>2, Zenon
    <3> HIDE DEF x, d, bytes
    <3>4. x < DoneAt'
      BY <3>3, <1>1
    <3> QED BY <3>1, <3>4, <1>2, Zenon DEF BlocksBefore, x
  <2>2. CASE /\ ~b.inSync => blocks = <<>>
             /\ \A k \in 1..Len(blocks) :
                  blocks[k].counter + Len(blocks[k].samples) <= b.counter
    <3> HIDE DEF b
    <3>1. /\ ~BlockBegun(reader').inSync => blocks' = <<>>
          /\ \A k \in 1..Len(blocks') :
               blocks'[k].counter + Len(blocks'[k].samples) <= BlockBegun(reader').counter
      BY <2>2, <1>7, <1>9, <1>10, Zenon
    <3> QED BY <3>1, Zenon DEF BlocksBefore
  <2>3. BlocksBefore
    BY DEF CodecInv
  <2> QED BY <2>1, <2>2, <2>3, Zenon DEF BlocksBefore
<1>12. BlocksAreTrue' /\ BlocksInOrder'
  <2>1. BlocksAreTrue /\ BlocksInOrder
    BY DEF CodecInv
  <2>2. BlocksAreTrue'
    BY <2>1, <1>2, <1>9 DEF BlocksAreTrue
  <2>3. BlocksInOrder'
    BY <2>1, <1>9 DEF BlocksInOrder, Covers
  <2> QED BY <2>2, <2>3
<1>13. blocks' \in Seq(SampleBlocks)
  BY <1>9 DEF CodecInv, CodecTypes
<1>14. ReaderAt(BlockBegun(reader'), TailAt, log, input) /\ reader' \in Readers
  BY <1>7, <1>8, <1>9, <1>10, Zenon
<1> QED BY <1>11, <1>12, <1>13, <1>14, DecodeFrame, Zenon

(* A block is handed out behind the others. *)
LEMMA BlockHanded ==
  ASSUME NEW new \in SampleBlocks, blocks \in Seq(SampleBlocks),
         blocks' = Append(blocks, new), input' = input, accepted' = accepted,
         BlocksAreTrue, BlocksInOrder,
         \A m \in DOMAIN new.samples :
           LET at == new.counter + m - 1
           IN  at \in accepted /\ new.samples[m] = input[at + 1],
         \A k \in 1..Len(blocks) : blocks[k].counter + Len(blocks[k].samples) <= new.counter
  PROVE  /\ BlocksAreTrue' /\ BlocksInOrder' /\ blocks' \in Seq(SampleBlocks)
         /\ \A k \in 1..Len(blocks') :
              blocks'[k].counter + Len(blocks'[k].samples) <= new.counter + Len(new.samples)
<1> DEFINE n == Len(blocks)
<1>1. blocks' \in Seq(SampleBlocks) /\ Longer(blocks', blocks, new)
  BY Lengthened
<1>2. n \in Nat /\ DOMAIN blocks = 1..n
  BY LenProperties, Zenon
<1>3. Len(blocks') = n + 1 /\ blocks'[n + 1] = new /\ \A k \in 1..n : blocks'[k] = blocks[k]
  BY <1>1, Zenon DEF Longer
<1>4. DOMAIN blocks' = 1 .. n + 1
  <2>1. DOMAIN blocks' = 1..Len(blocks')
    BY <1>1, LenProperties, Zenon
  <2> QED BY <2>1, <1>3, Zenon
<1>5. \A k \in 1 .. n + 1 : k \in 1..n \/ k = n + 1
  BY <1>2
<1>6. \A b \in SampleBlocks : b.counter \in Nat /\ Len(b.samples) \in Nat
  <2>1. ASSUME NEW b \in SampleBlocks PROVE b.counter \in Nat /\ Len(b.samples) \in Nat
    BY DEF SampleBlocks
  <2> QED BY <2>1, Zenon
<1>7. \A k \in 1..n : blocks[k] \in SampleBlocks
  BY ElementOfSeq
<1>8. BlocksAreTrue'
  <2>1. \A k \in 1..n : \A m \in DOMAIN blocks[k].samples :
          LET at == blocks[k].counter + m - 1
          IN  at \in accepted /\ blocks[k].samples[m] = input[at + 1]
    BY <1>2, Zenon DEF BlocksAreTrue
  <2> HIDE DEF n
  <2>2. \A k \in 1 .. n + 1 : \A m \in DOMAIN blocks'[k].samples :
          LET at == blocks'[k].counter + m - 1
          IN  at \in accepted' /\ blocks'[k].samples[m] = input'[at + 1]
    <3> SUFFICES ASSUME NEW k \in 1 .. n + 1, NEW m \in DOMAIN blocks'[k].samples
                 PROVE  LET at == blocks'[k].counter + m - 1
                        IN  at \in accepted /\ blocks'[k].samples[m] = input[at + 1]
      BY Zenon
    <3>1. CASE k \in 1..n
      BY <3>1, <2>1, <1>3, ZenonT(40)
    <3>2. CASE k = n + 1
      BY <3>2, <1>3, Zenon
    <3> QED BY <3>1, <3>2, <1>5, Zenon
  <2> QED BY <2>2, <1>4, Zenon DEF BlocksAreTrue
<1>9. BlocksInOrder'
  <2> HIDE DEF n
  <2>1. \A j, k \in 1..n : j < k => \A a \in Covers(blocks[j]), c \in Covers(blocks[k]) : a < c
    BY <1>2, Zenon DEF BlocksInOrder
  <2>2. ASSUME NEW j \in 1..n, NEW a \in Covers(blocks[j]), NEW c \in Covers(new)
        PROVE  a < c
    <3> DEFINE x == blocks[j].counter  y == Len(blocks[j].samples)
               z == new.counter  w == Len(new.samples)
    <3>1. x \in Nat /\ y \in Nat /\ z \in Nat /\ w \in Nat /\ x + y <= z
      BY <1>6, <1>7, Zenon DEF n
    <3>2. a \in x .. x + y - 1 /\ c \in z .. z + w - 1
      BY Zenon DEF Covers
    <3> HIDE DEF x, y, z, w
    <3> QED BY <3>1, <3>2
  <2>3. ASSUME NEW j \in 1 .. n + 1, NEW k \in 1 .. n + 1, j < k,
               NEW a \in Covers(blocks'[j]), NEW c \in Covers(blocks'[k])
        PROVE  a < c
    <3>1. j \in 1..n
      BY <2>3, <1>2
    <3>2. a \in Covers(blocks[j])
      BY <3>1, <1>3, Zenon
    <3>3. CASE k \in 1..n
      <4>1. c \in Covers(blocks[k])
        BY <3>3, <1>3, Zenon
      <4> QED BY <2>1, <2>3, <3>1, <3>2, <3>3, <4>1, Zenon
    <3>4. CASE k = n + 1
      <4>1. c \in Covers(new)
        BY <3>4, <1>3, Zenon
      <4> QED BY <2>2, <3>1, <3>2, <4>1, Zenon
    <3> QED BY <3>3, <3>4, <1>5, Zenon
  <2>4. \A j, k \in DOMAIN blocks' :
          j < k => \A a \in Covers(blocks'[j]), c \in Covers(blocks'[k]) : a < c
    BY <2>3, <1>4, Zenon
  <2> QED BY <2>4, Zenon DEF BlocksInOrder, Covers
<1>10. ASSUME NEW k \in 1 .. n + 1
       PROVE  blocks'[k].counter + Len(blocks'[k].samples) <= new.counter + Len(new.samples)
  <2> DEFINE z == new.counter  w == Len(new.samples)
  <2>1. z \in Nat /\ w \in Nat
    BY <1>6, Zenon
  <2>2. CASE k \in 1..n
    <3> DEFINE x == blocks[k].counter  y == Len(blocks[k].samples)
    <3>1. x \in Nat /\ y \in Nat /\ x + y <= z
      BY <2>2, <1>6, <1>7, Zenon
    <3>2. blocks'[k] = blocks[k]
      BY <2>2, <1>3, Zenon
    <3> HIDE DEF x, y, z, w
    <3>3. x + y <= z + w
      BY <2>1, <3>1
    <3> QED BY <3>2, <3>3, Zenon DEF x, y, z, w
  <2>3. CASE k = n + 1
    <3>1. blocks'[k] = new
      BY <2>3, <1>3, Zenon
    <3> HIDE DEF z, w
    <3>2. z + w <= z + w
      BY <2>1
    <3> QED BY <3>1, <3>2, Zenon DEF z, w
  <2> QED BY <2>2, <2>3, <1>5, Zenon
<1> QED BY <1>1, <1>3, <1>8, <1>9, <1>10, Zenon

(* A control code is decoded: the block is handed out, and behind a        *)
(* resynchronisation the next one begins.                                  *)
LEMMA ControlKeeps ==
  ASSUME CodecInv, Decode, chunk.type = "Control", RoomInv'
  PROVE  CodecInv'
<1> DEFINE b == BlockBegun(reader)
           new == [counter |-> b.counter, samples |-> b.samples]
<1>1. /\ input \in Seq(Samples) /\ Len(input) <= MaxSamples
      /\ log \in Seq(Entries) /\ Len(log) \in Nat /\ DoneAt \in Nat
      /\ LogIs(log, input, accepted, writer.syncPeriod)
  BY LogFacts, Zenon
<1>2. /\ input' = input /\ accepted' = accepted /\ log' = log
      /\ DoneAt' = TailAt /\ TailAt = DoneAt + Len(chunk.bytes)
      /\ ReaderAt(b, DoneAt, log, input)
  BY Decodes, Zenon
<1>3. b \in Readers /\ ~b.ready
  BY <1>2, ReaderShape
<1>4. PICK l \in 1..Len(log) :
        Control(log[l]) /\ log[l].at = DoneAt /\ chunk.bytes = log[l].bytes
  BY Zenon DEF CodecInv, ChunkIs
<1> DEFINE e == log[l]  y == DecodeControl(b, e.bytes)
<1>5. Decoded(reader, chunk) = y
  BY <1>4, Zenon DEF Decoded
<1>6. TailAt = EndOf(e)
  BY <1>2, <1>4, Zenon DEF EndOf
<1> HIDE DEF b
<1>7. Closes(y, b, e.bytes)
  BY <1>1, <1>3, <1>4, Closing
<1>8. y \in Readers /\ y.ready = b.inSync /\ y.counter = b.counter /\ y.samples = b.samples
  BY <1>7, Zenon DEF Closes
<1>9. ReaderHas(b, log, l - 1, input)
  <2> DEFINE place == DoneAt
  <2> HIDE DEF place
  <2>1. /\ place \in Nat /\ ReaderAt(b, place, log, input)
        /\ Control(log[l]) /\ log[l].at = place
    BY <1>1, <1>2, <1>4, Zenon DEF place
  <2> QED BY <1>1, <2>1, AtControl
<1>10. /\ Handed(reader', y)
       /\ b.inSync => blocks' = Append(blocks, new)
       /\ ~b.inSync => blocks' = blocks
  <2> HIDE DEF y
  <2>1. IF y.ready
        THEN /\ reader' = Taken(y)
             /\ blocks' = Append(blocks, [counter |-> y.counter, samples |-> y.samples])
        ELSE reader' = y /\ blocks' = blocks
    <3>1. LET r == Decoded(reader, chunk)
          IN  IF r.ready
              THEN /\ reader' = Taken(r)
                   /\ blocks' = Append(blocks, [counter |-> r.counter, samples |-> r.samples])
              ELSE reader' = r /\ blocks' = blocks
      BY DEF Decode
    <3> QED BY <3>1, <1>5, Zenon DEF y
  <2>2. Handed(Taken(y), y) /\ (~y.ready => Handed(y, y))
    BY <1>8, HandedIs
  <2>3. CASE b.inSync
    <3>1. y.ready
      BY <2>3, <1>8, Zenon
    <3> QED BY <3>1, <2>1, <2>2, <2>3, <1>8, Zenon
  <2>4. CASE ~b.inSync
    <3>1. ~y.ready
      BY <2>4, <1>8, Zenon
    <3> QED BY <3>1, <2>1, <2>2, <2>4, Zenon
  <2> QED BY <2>3, <2>4
<1>11. /\ ReaderAt(BlockBegun(reader'), TailAt, log, input)
       /\ e.kind = "resync" =>
            BlockBegun(reader').inSync /\ BlockBegun(reader').counter = e.n
  <2> DEFINE place == DoneAt  q == reader'
  <2> HIDE DEF place, q
  <2>1. /\ place \in Nat /\ ReaderAt(b, place, log, input)
        /\ Control(log[l]) /\ log[l].at = place
        /\ Handed(q, DecodeControl(b, log[l].bytes))
    BY <1>1, <1>2, <1>4, <1>10, Zenon DEF place, q
  <2>2. /\ ReaderAt(BlockBegun(q), EndOf(log[l]), log, input)
        /\ log[l].kind = "resync" => BlockBegun(q).inSync /\ BlockBegun(q).counter = log[l].n
    BY <1>1, <2>1, ControlRead
  <2> QED BY <2>2, <1>6, Zenon DEF q
<1>h. reader' \in Readers
  BY <1>10, Zenon DEF Handed
<1> HIDE DEF y
<1>12. e.kind \in {"resync", "flush"} /\ e.at \in Nat /\ EndOf(e) \in Nat /\ e.at < EndOf(e)
  <2>1. e.kind \in {"resync", "dod", "flush"} /\ e.kind # "dod"
    BY <1>1, <1>4, Entry DEF Control
  <2>2. e.at \in Nat /\ EndOf(e) \in Nat /\ e.at < EndOf(e)
    BY <1>1, Places
  <2> QED BY <2>1, <2>2
<1>13. /\ ~b.inSync => blocks = <<>>
       /\ \A k \in 1..Len(blocks) : blocks[k].counter + Len(blocks[k].samples) <= b.counter
  <2>1. ~ \E j \in 1..Len(log) : log[j].kind = "flush" /\ log[j].at < DoneAt
    <3> SUFFICES ASSUME NEW j \in 1..Len(log), log[j].kind = "flush", log[j].at < DoneAt
                 PROVE  FALSE
      BY Zenon
    <3>1. j < l
      <4>1. log[j].at \in Nat /\ EndOf(log[j]) \in Nat /\ log[j].at < EndOf(log[j])
        BY <1>1, Places
      <4>2. l < j => EndOf(log[l]) <= log[j].at
        BY <1>1, Places, Zenon
      <4> DEFINE x == log[j].at  z == log[l].at  w == EndOf(log[l])
      <4>3. /\ x \in Nat /\ z \in Nat /\ w \in Nat /\ z < w /\ x < z
            /\ l < j => w <= x
        BY <4>1, <4>2, <1>4, <1>12
      <4>4. j # l
        BY <4>3
      <4> HIDE DEF x, z, w
      <4>5. ~ (l < j)
        BY <4>3
      <4> QED BY <4>4, <4>5
    <3>2. j + 1 \in 2..Len(log) /\ (j + 1) - 1 = j
      BY <3>1, <1>1
    <3>3. Consecutive(log[(j + 1) - 1], log[j + 1])
      BY <3>2, <1>1, Zenon DEF LogIs
    <3>4. log[j].kind # "flush"
      BY <3>2, <3>3, Zenon DEF Consecutive
    <3> QED BY <3>4
  <2>2. BlocksBefore
    BY DEF CodecInv
  <2> QED BY <2>1, <2>2, Zenon DEF BlocksBefore, b
<1>14. blocks \in Seq(SampleBlocks) /\ BlocksAreTrue /\ BlocksInOrder
  BY DEF CodecInv, CodecTypes
<1>15. CASE b.inSync
  <2> DEFINE d == log[l - 1]
  <2>1. /\ l - 1 \in 1..Len(log) /\ b.counter \in Nat
        /\ Len(b.samples) = d.n - b.counter + 1 /\ b.counter <= d.n
        /\ \A m \in DOMAIN b.samples : LET at == b.counter + m - 1
             IN  at \in accepted /\ b.samples[m] = input[at + 1]
    BY <1>1, <1>4, <1>9, <1>15, ClosedBlock
  <2>2. new \in SampleBlocks /\ new.counter = b.counter /\ new.samples = b.samples
    <3>1. b.samples \in Seq([Channel -> Int16Range])
      BY <1>3 DEF Readers
    <3> QED BY <3>1, <2>1 DEF SampleBlocks
  <2> HIDE DEF new
  <2>3. \A m \in DOMAIN new.samples : LET at == new.counter + m - 1
             IN  at \in accepted /\ new.samples[m] = input[at + 1]
    BY <2>1, <2>2, Zenon
  <2>4. \A k \in 1..Len(blocks) : blocks[k].counter + Len(blocks[k].samples) <= new.counter
    BY <1>13, <2>2, Zenon
  <2>5. blocks' = Append(blocks, new) /\ input' = input /\ accepted' = accepted
    BY <1>2, <1>10, <1>15, Zenon
  <2>6. /\ BlocksAreTrue' /\ BlocksInOrder' /\ blocks' \in Seq(SampleBlocks)
        /\ \A k \in 1..Len(blocks') :
             blocks'[k].counter + Len(blocks'[k].samples) <= new.counter + Len(new.samples)
    BY <1>14, <2>2, <2>3, <2>4, <2>5, BlockHanded, Zenon
  <2>7. BlocksBefore'
    <3>1. CASE e.kind = "flush"
      <4>1. log'[l].kind = "flush" /\ log'[l].at < DoneAt'
        BY <3>1, <1>2, <1>6, <1>12, Zenon
      <4>2. l \in 1..Len(log')
        BY <1>2, Zenon
      <4> QED BY <4>1, <4>2, Zenon DEF BlocksBefore
    <3>2. CASE e.kind = "resync"
      <4>1. d.n < e.n /\ d.n \in Int /\ e.n \in Int
        <5>1. l \in 2..Len(log)
          BY <2>1
        <5>2. Consecutive(log[l - 1], log[l])
          BY <5>1, <1>1, Zenon DEF LogIs
        <5>3. d.n < e.n
          BY <5>2, <3>2, Zenon DEF Consecutive
        <5> QED BY <5>3, <2>1, <1>1, Entry, Zenon
      <4>2. new.counter + Len(new.samples) <= e.n
        <5> DEFINE x == d.n  z == e.n  c == b.counter  w == Len(b.samples)
        <5>1. x < z /\ x \in Int /\ z \in Int /\ c \in Nat /\ w = x - c + 1
          BY <4>1, <2>1
        <5> HIDE DEF x, z, c, w
        <5>2. c + w <= z
          BY <5>1
        <5> QED BY <5>2, <2>2, Zenon DEF z, c, w
      <4>3. \A k \in 1..Len(blocks') :
              blocks'[k].counter + Len(blocks'[k].samples) <= e.n
        <5> SUFFICES ASSUME NEW k \in 1..Len(blocks')
                     PROVE  blocks'[k].counter + Len(blocks'[k].samples) <= e.n
          BY Zenon
        <5> DEFINE g == blocks'[k]
        <5>1. g \in SampleBlocks /\ g.counter + Len(g.samples) <= new.counter + Len(new.samples)
          BY <2>6, ElementOfSeq
        <5> HIDE DEF g
        <5>2. g.counter \in Nat /\ Len(g.samples) \in Nat /\ new.counter \in Nat
              /\ Len(new.samples) \in Nat
          BY <5>1, <2>2 DEF SampleBlocks
        <5> DEFINE u == g.counter + Len(g.samples)  v == new.counter + Len(new.samples)
                   z == e.n
        <5>3. u \in Nat /\ v \in Nat /\ z \in Int /\ u <= v /\ v <= z
          <6>1. \A p, q \in Nat : p + q \in Nat
            OBVIOUS
          <6> QED BY <5>1, <5>2, <4>1, <4>2, <6>1, Zenon
        <5> HIDE DEF u, v, z
        <5>4. u <= z
          BY <5>3
        <5> QED BY <5>4, Zenon DEF u, z, g
      <4>4. BlockBegun(reader').inSync /\ BlockBegun(reader').counter = e.n
        BY <3>2, <1>11
      <4> HIDE DEF e
      <4>5. /\ ~BlockBegun(reader').inSync => blocks' = <<>>
            /\ \A k \in 1..Len(blocks') :
                 blocks'[k].counter + Len(blocks'[k].samples) <= BlockBegun(reader').counter
        BY <4>3, <4>4, Zenon
      <4> QED BY <4>5, Zenon DEF BlocksBefore
    <3> QED BY <3>1, <3>2, <1>12
  <2> QED BY <2>6, <2>7, <1>h, <1>11, DecodeFrame, Zenon
<1>16. CASE ~b.inSync
  <2>1. blocks' = blocks /\ blocks = <<>>
    BY <1>10, <1>13, <1>16
  <2>2. BlocksAreTrue' /\ BlocksInOrder' /\ blocks' \in Seq(SampleBlocks)
    <3>1. BlocksAreTrue'
      BY <2>1, <1>2, <1>14 DEF BlocksAreTrue
    <3>2. BlocksInOrder'
      BY <2>1, <1>14 DEF BlocksInOrder, Covers
    <3> QED BY <3>1, <3>2, <2>1, <1>14
  <2>3. BlocksBefore'
    <3>1. CASE e.kind = "flush"
      <4>1. log'[l].kind = "flush" /\ log'[l].at < DoneAt'
        BY <3>1, <1>2, <1>6, <1>12, Zenon
      <4>2. l \in 1..Len(log')
        BY <1>2, Zenon
      <4> QED BY <4>1, <4>2, Zenon DEF BlocksBefore
    <3>2. CASE e.kind = "resync"
      <4>1. BlockBegun(reader').inSync
        BY <3>2, <1>11
      <4>2. Len(blocks') = 0 /\ 1..0 = {}
        BY <2>1
      <4>3. \A k \in 1..Len(blocks') :
              blocks'[k].counter + Len(blocks'[k].samples) <= BlockBegun(reader').counter
        BY <4>2, Zenon
      <4> QED BY <4>1, <4>3, Zenon DEF BlocksBefore
    <3> QED BY <3>1, <3>2, <1>12
  <2> QED BY <2>2, <2>3, <1>h, <1>11, DecodeFrame, Zenon
<1> QED BY <1>15, <1>16

-----------------------------------------------------------------------------
(* The invariant holds. *)

LEMMA CodecInvInit == CodecInit => CodecInv
<1> SUFFICES ASSUME CodecInit PROVE CodecInv
  OBVIOUS
<1> DEFINE still == [c \in Channel |-> [sample |-> 0, delta |-> 0]]
           r == [state |-> "DOD", inSync |-> FALSE, scratch |-> <<>>, dods |-> <<>>,
                 dod |-> still, ready |-> FALSE, counter |-> 0, samples |-> <<>>]
<1>1. /\ stream = <<>> /\ marks = <<>> /\ chunk = None /\ input = <<>> /\ accepted = {}
      /\ blocks = <<>> /\ log = <<>> /\ ended = FALSE /\ reader = r
      /\ writer.dod = still /\ writer.tillSync = 0 /\ writer.backpressure = FALSE
  BY Zenon DEF CodecInit
<1>2. /\ Len(stream) = 0 /\ Len(marks) = 0 /\ Len(input) = 0 /\ Len(blocks) = 0 /\ Len(log) = 0
      /\ Len(chunk.bytes) = 0 /\ chunk.type = "none" /\ chunk.bytes = <<>>
      /\ 1..0 = {} /\ 2..0 = {} /\ DOMAIN blocks = {} /\ DOMAIN log = {} /\ 0 - 1 = -1
  BY <1>1 DEF None
<1>3. still \in ChannelStates
  <2>1. 0 \in Int16Range
    BY Int16RangeIs, HalfIs
  <2> QED BY <2>1 DEF ChannelStates
<1>4. /\ reader \in Readers /\ ~reader.ready /\ reader.state = "DOD" /\ reader.inSync = FALSE
      /\ reader.dods = <<>>
  <2> DEFINE A == Seq(Octet)  B == Seq(Int)  C == Seq([Channel -> Int16Range])
  <2>1. Readers = [state : {"DOD", "Sample", "WORD"}, inSync : BOOLEAN, scratch : A,
                   dods : B, dod : ChannelStates, ready : BOOLEAN, counter : Nat,
                   samples : C]
    BY DEF Readers
  <2>2. <<>> \in A /\ <<>> \in B /\ <<>> \in C
    OBVIOUS
  <2> HIDE DEF still, A, B, C
  <2> QED BY <2>1, <2>2, <1>1, <1>3
<1>5. RoomInv
  BY RoomInit
<1>6. CodecTypes
  <2>1. /\ <<>> \in Seq(Octet) /\ <<>> \in Seq(SampleBlocks) /\ <<>> \in Seq(Entries)
        /\ {} \subseteq 0 .. Len(input) - 1
    OBVIOUS
  <2>2. chunk \in [type : {"none", "Control", "Sample"}, bytes : Seq(Octet)]
    BY <2>1, <1>1 DEF None
  <2> HIDE DEF r
  <2> QED BY <2>1, <2>2, <1>1, <1>4, Zenon DEF CodecTypes
<1>7. writer.dod = DodBehind(input, Len(input) - 1)
  <2>1. \A n \in Int : n < 0 => Vector(input, n) = Still
    BY DEF Vector
  <2>2. ~ (-1 >= 0) /\ ~ (-1 - 1 >= 0) /\ Len(input) - 1 = -1
    BY <1>2
  <2>3. Vector(input, -1) = Still /\ Vector(input, -1 - 1) = Still
    BY <2>2 DEF Vector
  <2>4. Int16(0 - 0) = 0
    <3>1. 0 - 0 = 0
      OBVIOUS
    <3>2. Int16(0) = 0
      BY DEF Int16, Half
    <3> QED BY <3>1, <3>2
  <2>5. \A c \in Channel : Still[c] = 0
    BY DEF Still
  <2>6. DodBehind(input, -1) =
          [c \in Channel |-> [sample |-> Still[c], delta |-> Int16(Still[c] - Still[c])]]
    BY <2>3, Zenon DEF DodBehind
  <2>7. DodBehind(input, -1) = still
    BY <2>4, <2>5, <2>6, Zenon
  <2> QED BY <2>2, <2>7, <1>1, Zenon
<1>8. WriterKnows
  <2>1. ~ (writer.tillSync > 0)
    BY <1>1
  <2> QED BY <2>1, <1>1, <1>7, Zenon DEF WriterKnows
<1>9. LogIs(log, input, accepted, writer.syncPeriod)
  BY <1>1, <1>2, Zenon DEF LogIs
<1>10. Pushed = 0 /\ TailAt = 0 /\ DoneAt = 0
  <2>1. Pushed = 0
    BY <1>1 DEF Pushed
  <2>2. TailAt = 0
    BY <2>1, <1>2 DEF TailAt
  <2>3. DoneAt = 0
    BY <2>2, <1>2 DEF DoneAt
  <2> QED BY <2>1, <2>2, <2>3
<1>11. StreamIs
  <2>1. TailAt \in Nat
    BY <1>10
  <2> QED BY <2>1, <1>2, Zenon DEF StreamIs, Shows, Between
<1>12. MarksAre
  BY <1>2, Zenon DEF MarksAre, MarksStand, MarksSpaced
<1>13. ChunkIs
  <2>1. DoneAt \in Nat /\ chunk.type # "Control" /\ chunk.type # "Sample"
    BY <1>2, <1>10
  <2> QED BY <2>1, <1>1, Zenon DEF ChunkIs
<1>14. BlockBegun(reader) = reader
  BY <1>4, Zenon DEF BlockBegun
<1>15. ReaderIs
  <2>1. 0 \in 0..Len(log) /\ 0 \in 0..2 /\ ~ (0 > 0) /\ 0 = 0 + 0
    BY <1>2
  <2>2. ReaderHas(reader, log, 0, input)
    BY <2>1, <1>4, Zenon DEF ReaderHas
  <2>3. DoneAt = Behind(log, 0) + 0
    BY <1>10 DEF Behind
  <2>4. ReaderAt(reader, DoneAt, log, input)
    BY <2>1, <2>2, <2>3, <1>4, Zenon DEF ReaderAt
  <2> QED BY <2>4, <1>14, Zenon DEF ReaderIs
<1>16. BlocksBefore /\ BlocksAreTrue /\ BlocksInOrder
  BY <1>1, <1>2, Zenon DEF BlocksBefore, BlocksAreTrue, BlocksInOrder
<1> QED BY <1>5, <1>6, <1>8, <1>9, <1>11, <1>12, <1>13, <1>15, <1>16, Zenon DEF CodecInv

(* Nothing changes but the end of the feed: a flush that finds no room, or *)
(* no step at all.                                                         *)
LEMMA EndKeeps ==
  ASSUME CodecInv, RoomInv', ended' \in BOOLEAN, ended => ended',
         UNCHANGED <<writer, stream, marks, chunk, reader, input, accepted, blocks, log>>
  PROVE  CodecInv'
<1>1. /\ writer' = writer /\ stream' = stream /\ marks' = marks /\ chunk' = chunk
      /\ reader' = reader /\ input' = input /\ accepted' = accepted /\ blocks' = blocks
      /\ log' = log /\ ended' \in BOOLEAN /\ (ended => ended')
  OBVIOUS
<1>2. Pushed' = Pushed /\ Newest' = Newest
  BY <1>1 DEF Pushed, Newest
<1>3. TailAt' = TailAt
  BY <1>1, <1>2 DEF TailAt
<1>4. DoneAt' = DoneAt
  BY <1>1, <1>3 DEF DoneAt
<1>5. CodecTypes' /\ WriterKnows'
  <2>1. CodecTypes /\ WriterKnows
    BY DEF CodecInv
  <2>2. CodecTypes'
    BY <2>1, <1>1 DEF CodecTypes
  <2>3. writer'.dod = DodBehind(input', Len(input') - 1)
    BY <2>1, <1>1, Zenon DEF WriterKnows
  <2> QED BY <2>1, <2>2, <2>3, <1>1, <1>2, Zenon DEF WriterKnows
<1>6. LogIs(log, input, accepted, writer.syncPeriod)'
  <2>1. LogIs(log, input, accepted, writer.syncPeriod)
    BY DEF CodecInv
  <2> QED BY <2>1, <1>1, Zenon
<1>7. StreamIs' /\ MarksAre'
  <2>1. StreamIs /\ MarksAre
    BY DEF CodecInv
  <2>2. (TailAt \in Nat)' /\ Shows(stream, log, TailAt)' /\ Between(log, TailAt)'
    BY <2>1, <1>1, <1>3, Zenon DEF StreamIs
  <2>3. MarksStand(marks, log, TailAt)' /\ (~ended => MarksSpaced(marks, Len(stream)))'
    BY <2>1, <1>1, <1>3, Zenon DEF MarksAre
  <2> QED BY <2>2, <2>3, Zenon DEF StreamIs, MarksAre
<1>8. ChunkIs' /\ BlocksBefore'
  <2>1. ChunkIs /\ BlocksBefore
    BY DEF CodecInv
  <2>2. ChunkIs'
    BY <2>1, <1>1, <1>3, <1>4, Zenon DEF ChunkIs
  <2>3. BlocksBefore'
    BY <2>1, <1>1, <1>4 DEF BlocksBefore
  <2> QED BY <2>2, <2>3
<1>9. ReaderIs'
  <2>1. ReaderAt(BlockBegun(reader), DoneAt, log, input)
    BY DEF CodecInv, ReaderIs
  <2>2. ReaderAt(BlockBegun(reader'), DoneAt', log', input')
    BY <2>1, <1>1, <1>4, Zenon
  <2> QED BY <2>2, Zenon DEF ReaderIs
<1>10. BlocksAreTrue' /\ BlocksInOrder'
  <2>1. BlocksAreTrue /\ BlocksInOrder
    BY DEF CodecInv
  <2>2. BlocksAreTrue'
    BY <2>1, <1>1 DEF BlocksAreTrue
  <2>3. BlocksInOrder'
    BY <2>1, <1>1 DEF BlocksInOrder, Covers
  <2> QED BY <2>2, <2>3
<1> QED BY <1>5, <1>6, <1>7, <1>8, <1>9, <1>10, Zenon DEF CodecInv

LEMMA CodecInvStep ==
  ASSUME Agreed, MarksSuffice, BlockSuffices, CodecInv, [CodecNext]_codecVars
  PROVE  CodecInv'
<1>1. RoomInv'
  <2>1. RoomInv
    BY DEF CodecInv
  <2> QED BY <2>1, RoomStep
<1>2. CASE PushSample
  <2>1. PICK x \in Samples : /\ PushRefused(x) \/ PushResync(x) \/ PushDods(x)
                             /\ input' = Append(input, x)
    BY <1>2 DEF PushSample
  <2>2. /\ ~ended /\ Len(input) < MaxSamples
        /\ UNCHANGED <<chunk, reader, blocks, ended>>
    BY <1>2 DEF PushSample
  <2>3. CASE PushRefused(x)
    BY <2>1, <2>2, <2>3, <1>1, RefusedKeeps
  <2>4. CASE PushResync(x)
    BY <2>1, <2>2, <2>4, <1>1, ResyncKeeps
  <2>5. CASE PushDods(x)
    BY <2>1, <2>2, <2>5, <1>1, DodsKeep
  <2> QED BY <2>1, <2>3, <2>4, <2>5
<1>3. CASE Flush
  <2>1. CASE Free > 16
    BY <2>1, <1>1, <1>3, FlushKeeps
  <2>2. CASE ~(Free > 16)
    <3>1. /\ ended' = TRUE
          /\ UNCHANGED <<writer, stream, marks, chunk, reader, input, accepted, blocks, log>>
      BY <2>2, <1>3 DEF Flush
    <3> QED BY <3>1, <1>1, EndKeeps
  <2> QED BY <2>1, <2>2
<1>4. CASE ReadNext
  BY <1>1, <1>4, ReadKeeps
<1>5. CASE Decode
  <2>1. chunk.type \in {"Control", "Sample"}
    BY <1>5, Decodes
  <2>2. CASE chunk.type = "Control"
    BY <2>2, <1>1, <1>5, ControlKeeps
  <2>3. CASE chunk.type = "Sample"
    BY <2>3, <1>1, <1>5, SampleKeeps
  <2> QED BY <2>1, <2>2, <2>3
<1>6. CASE UNCHANGED codecVars
  <2>1. /\ ended' = ended
        /\ UNCHANGED <<writer, stream, marks, chunk, reader, input, accepted, blocks, log>>
    BY <1>6 DEF codecVars
  <2>2. ended \in BOOLEAN
    BY DEF CodecInv, CodecTypes
  <2> QED BY <2>1, <2>2, <1>1, EndKeeps
<1> QED BY <1>2, <1>3, <1>4, <1>5, <1>6 DEF CodecNext

(* As long as no residual is sent that the two ends do not agree on, the   *)
(* stream shows the codes of what was pushed, the marks stand on its       *)
(* control codes, and the reader has rebuilt what comes before the next    *)
(* byte it decodes.                                                        *)
THEOREM CodecInductive ==
  ASSUME MarksSuffice, BlockSuffices
  PROVE  CodecSpec /\ []Agreed => []CodecInv
<1>1. CodecInv /\ Agreed /\ [CodecNext]_codecVars => CodecInv'
  BY CodecInvStep
<1> QED BY <1>1, CodecInvInit, PTL DEF CodecSpec

(* Between two calls the reader has fewer residuals than channels: a       *)
(* vector is emitted with its last one.                                    *)
LEMMA ReaderLeavesRoom ==
  ASSUME CodecInv
  PROVE  BlocksFit
<1> DEFINE b == BlockBegun(reader)
<1>1. PICK j \in 0..Len(log), k \in 0..2 : ReaderHas(b, log, j, input)
  BY Zenon DEF CodecInv, ReaderIs, ReaderAt
<1>2. b.dods = reader.dods
  <2>1. reader \in Readers
    BY DEF CodecInv, CodecTypes
  <2> QED BY <2>1 DEF BlockBegun, SyncUpdate, Readers
<1>3. CASE ~b.inSync
  <2>1. b.dods = <<>>
    BY <1>1, <1>3, Zenon DEF ReaderHas
  <2> QED BY <2>1, <1>2, ChannelsAre DEF BlocksFit
<1>4. CASE b.inSync
  <2> DEFINE e == log[j]  n == IF e.channel = Channels THEN 0 ELSE e.channel
             p == [c \in 1..n |-> Residual(input, e.n, c)]
  <2>1. j > 0 /\ b.dods = p
    BY <1>1, <1>4, Zenon DEF ReaderHas, Pending
  <2>2. e.channel \in Nat /\ 1 <= e.channel /\ e.channel <= Channels
    <3>1. j \in 1..Len(log)
      BY <2>1
    <3> QED BY <3>1, LogFacts, Entry, Zenon
  <2>3. n \in Nat /\ n < Channels
    BY <2>2, ChannelsAre
  <2>4. DOMAIN p = 1..n
    OBVIOUS
  <2> HIDE DEF n, p
  <2>5. b.dods \in Seq(Int)
    <3>1. b \in Readers
      BY <1>1, Zenon DEF ReaderHas
    <3> HIDE DEF b
    <3> QED BY <3>1 DEF Readers
  <2>6. Len(b.dods) = n
    <3> DEFINE m == Len(b.dods)
    <3>1. m \in Nat /\ 1..m = 1..n
      BY <2>1, <2>4, <2>5, LenProperties, Zenon
    <3> HIDE DEF m
    <3>2. \A x, y \in Nat : x < y => y \in 1..y /\ y \notin 1..x
      OBVIOUS
    <3>3. ~ (m < n) /\ ~ (n < m)
      BY <2>3, <3>1, <3>2, Zenon
    <3>4. m = n
      BY <2>3, <3>1, <3>3
    <3> QED BY <3>4 DEF m
  <2>7. Len(reader.dods) = n
    BY <2>6, <1>2
  <2> QED BY <2>3, <2>7 DEF BlocksFit
<1> QED BY <1>3, <1>4

(* Every sample of every block handed out is the one that was pushed under *)
(* its counter, and was taken: whatever the vectors, the refusals and the  *)
(* cuts, and however much of the stream waits to be read                   *)
(* (test_Codec.cpp:181), in every behaviour in which no residual is sent   *)
(* that the two ends do not agree on.                                      *)
THEOREM BlocksTrue ==
  ASSUME MarksSuffice, BlockSuffices
  PROVE  CodecSpec /\ []Agreed => []BlocksAreTrue
<1>1. CodecInv => BlocksAreTrue
  BY DEF CodecInv
<1> QED BY <1>1, CodecInductive, PTL

(* No sample is handed out twice, and the blocks come in the order of      *)
(* their counters, in every such behaviour.                                *)
THEOREM BlocksOrdered ==
  ASSUME MarksSuffice, BlockSuffices
  PROVE  CodecSpec /\ []Agreed => []BlocksInOrder
<1>1. CodecInv => BlocksInOrder
  BY DEF CodecInv
<1> QED BY <1>1, CodecInductive, PTL

(* emitSample always finds room in the block, so no residual is stored     *)
(* behind dod_buf (DAQCodec.h:450, 500), in every such behaviour.          *)
THEOREM ResidualsFit ==
  ASSUME MarksSuffice, BlockSuffices
  PROVE  CodecSpec /\ []Agreed => []BlocksFit
<1>1. CodecInv => BlocksFit
  BY ReaderLeavesRoom
<1> QED BY <1>1, CodecInductive, PTL
=============================================================================
