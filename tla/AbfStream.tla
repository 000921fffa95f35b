----------------------------- MODULE AbfStream -----------------------------
(***************************************************************************)
(* The framing of ecolib/middleware/ABFStream.cpp between a device and its *)
(* host: one side encodes frames and hands them to its transport in two    *)
(* writes (DAQSessionAPP::send), the other reads what has arrived in       *)
(* pieces of any size and runs process on each piece.                      *)
(*                                                                         *)
(* A frame on the wire is                                                  *)
(*   0 | service | length | code | checksum | payload without zeros        *)
(* where every zero of the payload is replaced by the distance to the next *)
(* zero (or to the end), and code is the distance to the first.            *)
(*                                                                         *)
(* The checksum is any function of the header to a non-zero byte.  Indices *)
(* of bytes start at 0 in the buffers, at 1 in sequences.                  *)
(***************************************************************************)
EXTENDS Integers, Sequences

CONSTANTS
  ByteMod,              \* values of a uint8_t (256 in the code)
  Crc8(_, _, _),        \* crc8Calculate of service, length and code; 0 is 0xFF
  Services,             \* service numbers used
  Payloads,             \* payloads sent
  Capacities,           \* values of m_rxCapacity
  ReadMax,              \* size of the buffer the bytes are read into
  Shared,               \* is that buffer the payload buffer, as in sys.cpp?
  Drops,                \* writes the transport may refuse: "header", "payload"
  MaxFrames             \* bound: frames encoded

Byte == 0 .. ByteMod - 1

ASSUME AbfAssumption ==
  /\ ByteMod \in Nat /\ ByteMod >= 2
  /\ \A s \in Byte, n \in Byte, c \in Byte : Crc8(s, n, c) \in Byte \ {0}
  /\ Services \subseteq Byte \ {0}
  /\ \A p \in Payloads : p \in Seq(Byte) /\ Len(p) \in Byte \ {0}
  /\ \A c \in Capacities : c \in Nat /\ c > 0
  /\ ReadMax \in Nat \ {0}
  /\ Shared \in BOOLEAN /\ (Shared => Capacities = {ReadMax})
  /\ Drops \subseteq {"header", "payload"}
  /\ MaxFrames \in Nat

Frames == [service : Services, payload : Payloads]
NoFrame == [service |-> 0, payload |-> <<>>]

VARIABLES
  half,                 \* the frame whose payload is still to be written
  kept,                 \* was its header accepted?
  line,                 \* bytes in the transport
  data, length, i,      \* process: the bytes read and the next to look at
  capacity,             \* m_rxCapacity, fixed by the constructor
  state,                \* m_state
  header, headerPos,    \* m_header, m_headerPos
  rxPayload, rxPos,     \* m_rxPayload, m_rxPos
  nextZero,             \* m_rxNextZero
  encoded,              \* frames encoded so far
  sent,                 \* history: frames accepted by the transport
  due,                  \* history: which of sent the receiver has room for
  orphan,               \* history: header sent last without its payload?
  sure,                 \* history: which of sent follow no orphan
  delivered, errors     \* history: calls of onFrame and of onError

sender   == <<half, kept, encoded, sent, due, orphan, sure>>
receiver == <<data, length, i, capacity, state, header, headerPos, rxPayload, rxPos,
              nextZero, delivered, errors>>
vars     == <<sender, line, receiver>>

-----------------------------------------------------------------------------
(* Stream::encode. *)

(* Position of the first zero of p after position k, or one past its end. *)
ZeroAfter(p, k) ==
  CHOOSE z \in k + 1 .. Len(p) + 1 :
    /\ z = Len(p) + 1 \/ p[z] = 0
    /\ \A j \in k + 1 .. z - 1 : p[j] # 0

(* Faulty variant: the code after the last zero stops at the last byte. *)
CodeShort(p, k) ==
  LET z == ZeroAfter(p, k) IN (IF z > Len(p) THEN z - 1 - k ELSE z - k) % ByteMod

Code(p, k) == (ZeroAfter(p, k) - k) % ByteMod

EncodedPayload(p) ==
  [k \in 1 .. Len(p) |-> IF p[k] = 0 THEN Code(p, k) ELSE p[k]]

EncodedHeader(f) ==
  LET n == Len(f.payload)
      c == Code(f.payload, 0)
  IN  <<0, f.service, n, c, Crc8(f.service, n, c)>>

-----------------------------------------------------------------------------
Init ==
  /\ half = NoFrame /\ kept = FALSE /\ line = <<>> /\ encoded = 0
  /\ sent = <<>> /\ due = <<>> /\ orphan = FALSE /\ sure = {}
  /\ data = [k \in 0 .. ReadMax - 1 |-> 0] /\ length = 0 /\ i = 0
  /\ capacity \in Capacities
  /\ state = "HUNT_SYNC" /\ header = [k \in 0 .. 4 |-> 0] /\ headerPos = 0
  /\ rxPayload = [k \in 0 .. capacity - 1 |-> 0] /\ rxPos = 0
  /\ nextZero = 0 /\ delivered = <<>> /\ errors = 0

(* Sender: DAQSessionAPP::send writes the header, then the payload, and    *)
(* looks at the result of neither.                                         *)
WriteHeader(f) ==
  /\ half = NoFrame
  /\ encoded < MaxFrames
  /\ encoded' = encoded + 1
  /\ half' = f
  /\ \/ kept' = TRUE /\ line' = line \o EncodedHeader(f)
     \/ "header" \in Drops /\ kept' = FALSE /\ UNCHANGED line
  /\ UNCHANGED <<receiver, sent, due, orphan, sure>>

WritePayload ==
  /\ half # NoFrame
  /\ half' = NoFrame
  /\ \/ /\ line' = line \o EncodedPayload(half.payload)
        /\ IF kept
           THEN /\ sent' = Append(sent, half)
                /\ due' = IF Len(half.payload) <= capacity
                          THEN Append(due, Len(sent')) ELSE due
                /\ sure' = IF orphan THEN sure ELSE sure \union {Len(sent')}
                /\ orphan' = FALSE
           ELSE UNCHANGED <<sent, due, sure, orphan>>
     \/ /\ "payload" \in Drops
        /\ orphan' = (kept \/ orphan)
        /\ UNCHANGED <<line, sent, due, sure>>
  /\ UNCHANGED <<receiver, kept, encoded>>

-----------------------------------------------------------------------------
(* Receiver: read, then process one byte after the other. *)

(* The first n bytes of the transport, once the piece before is used up.   *)
(* What lies behind them in a buffer of its own is never looked at.        *)
Read(n) ==
  /\ i = length
  /\ n <= Len(line)
  /\ data' = [k \in 0 .. ReadMax - 1 |->
               IF k < n THEN line[k + 1] ELSE IF Shared THEN data[k] ELSE 0]
  /\ rxPayload' = IF Shared THEN data' ELSE rxPayload
  /\ line' = SubSeq(line, n + 1, Len(line))
  /\ length' = n
  /\ i' = 0
  /\ UNCHANGED <<sender, capacity, state, header, headerPos, rxPos, nextZero,
                 delivered, errors>>

HuntSync ==
  /\ i < length /\ state = "HUNT_SYNC"
  /\ IF data[i] = 0
     THEN /\ state' = "READ_HEADER"
          /\ header' = [header EXCEPT ![0] = 0]
          /\ headerPos' = 1
     ELSE UNCHANGED <<state, header, headerPos>>
  /\ i' = i + 1
  /\ UNCHANGED <<sender, line, data, length, capacity, rxPayload, rxPos,
                 nextZero, delivered, errors>>

(* Faulty variant: the header ends one byte late. *)
ReadHeaderLate ==
  /\ i < length /\ state = "READ_HEADER"
  /\ header' = [header EXCEPT ![headerPos] = data[i]]
  /\ headerPos' = headerPos + 1
  /\ IF headerPos = 5
     THEN nextZero' = header[3] /\ state' = "READ_PAYLOAD" /\ rxPos' = 0
     ELSE UNCHANGED <<nextZero, state, rxPos>>
  /\ i' = i + 1
  /\ UNCHANGED <<sender, line, data, length, capacity, rxPayload, delivered,
                 errors>>

(* A checksum that does not match is reported, and the payload is read all *)
(* the same.                                                               *)
ReadHeader ==
  /\ i < length /\ state = "READ_HEADER"
  /\ header' = [header EXCEPT ![headerPos] = data[i]]
  /\ LET matches == Crc8(header[1], header[2], header[3]) = data[i] IN
       IF headerPos = 4
       THEN /\ errors' = IF matches THEN errors ELSE errors + 1
            /\ headerPos' = IF matches THEN 5 ELSE 1
            /\ nextZero' = header[3]
            /\ state' = "READ_PAYLOAD"
            /\ rxPos' = 0
       ELSE /\ headerPos' = headerPos + 1
            /\ UNCHANGED <<errors, nextZero, state, rxPos>>
  /\ i' = i + 1
  /\ UNCHANGED <<sender, line, data, length, capacity, rxPayload, delivered>>

(* m_rxPayload[p] = v, seen in data too when the two are one array. *)
Store(p, v) ==
  /\ rxPayload' = [rxPayload EXCEPT ![p] = v]
  /\ data' = IF Shared THEN [data EXCEPT ![p] = v] ELSE data

(* Faulty variant: a full buffer does not reset the decoder. *)
ResetsUnlessFull(cut, full, done) == cut \/ done

(* What makes process call reset. *)
Resets(cut, full, done) == cut \/ full \/ done

(* Faulty variant: a full buffer is not reported. *)
ReportedUnlessFull(n, cut, full) == n + (IF cut THEN 1 ELSE 0)

(* The calls of onError after n of them. *)
Reported(n, cut, full) ==
  n + (IF cut THEN 1 ELSE 0) + (IF full THEN 1 ELSE 0)

(* One byte of the payload.  A zero is reported and resets the decoder, a  *)
(* full buffer too; the zero is then stored like any other byte.  Reaching *)
(* the announced length delivers the frame.                                *)
ReadPayload ==
  /\ i < length /\ state = "READ_PAYLOAD"
  /\ LET b    == data[i]
         more == rxPos < header[2]
         cut  == more /\ b = 0
         from == IF cut THEN 0 ELSE rxPos
         full == more /\ from >= capacity
         to   == IF full THEN 0 ELSE IF more THEN from + 1 ELSE from
         done == to = header[2]
     IN
       /\ IF more /\ ~full
          THEN /\ Store(from, IF nextZero = 1 THEN 0 ELSE b)
               /\ nextZero' = IF nextZero = 1 THEN b ELSE (nextZero - 1) % ByteMod
          ELSE UNCHANGED <<rxPayload, data, nextZero>>
       /\ errors' = Reported(errors, cut, full)
       /\ IF Resets(cut, full, done)
          THEN state' = "HUNT_SYNC" /\ headerPos' = 0
          ELSE UNCHANGED <<state, headerPos>>
       /\ rxPos' = IF done THEN 0 ELSE to
       /\ delivered' =
            IF done
            THEN Append(delivered,
                        [service |-> header[1],
                         payload |-> [k \in 1 .. header[2] |-> rxPayload'[k - 1]]])
            ELSE delivered
  /\ i' = i + 1
  /\ UNCHANGED <<sender, line, length, capacity, header>>

Process == HuntSync \/ ReadHeader \/ ReadPayload

Next ==
  \/ \E f \in Frames : WriteHeader(f)
  \/ WritePayload
  \/ \E n \in 1 .. ReadMax : Read(n)
  \/ HuntSync
  \/ ReadHeader
  \/ ReadPayload

(* Both sides are loops that never end: a frame begun is finished, what    *)
(* has arrived is read, a piece read is processed.                         *)
Fairness ==
  /\ WF_vars(WritePayload)
  /\ WF_vars(\E n \in 1 .. ReadMax : Read(n))
  /\ WF_vars(Process)

Spec == Init /\ [][Next]_vars
FairSpec == Spec /\ Fairness

-----------------------------------------------------------------------------
TypeOK ==
  /\ half \in Frames \cup {NoFrame} /\ kept \in BOOLEAN
  /\ line \in Seq(Byte)
  /\ data \in [0 .. ReadMax - 1 -> Byte] /\ length \in 0..ReadMax /\ i \in 0..length
  /\ capacity \in Capacities
  /\ state \in {"HUNT_SYNC", "READ_HEADER", "READ_PAYLOAD"}
  /\ header \in [0..4 -> Byte] /\ headerPos \in 0..5
  /\ rxPayload \in [0 .. capacity - 1 -> Byte] /\ rxPos \in 0..capacity
  /\ nextZero \in Byte
  /\ encoded \in 0..MaxFrames /\ sent \in Seq(Frames) /\ errors \in Nat
  /\ due \in Seq(1..Len(sent))

(* The frames delivered are those sent, whole, in order, each once: however *)
(* the bytes are cut into reads, whatever zeros the payload has, and also   *)
(* when the transport refused the header of another frame or another frame  *)
(* was too long for the receive buffer (Stream::process).                   *)
DeliveredInOrder ==
  /\ Len(delivered) <= Len(due)
  /\ \A k \in 1 .. Len(delivered) : delivered[k] = sent[due[k]]

(* A payload the transport refuses after its header costs its own frame    *)
(* and the one behind it, no other: once all bytes are processed, every    *)
(* frame that was sent whole and follows no such header is among those     *)
(* delivered, in order.                                                    *)
LossIsLocal ==
  half = NoFrame /\ line = <<>> /\ i = length =>
    LET owed == { k \in sure : Len(sent[k].payload) <= capacity } IN
    \E place \in [owed -> 1 .. Len(delivered)] :
      \A k \in owed : /\ delivered[place[k]] = sent[k]
                      /\ \A j \in owed : j < k => place[j] < place[k]

(* onError is called for frames that are too long for the receive buffer    *)
(* only, never more often than there are such frames; and it has been       *)
(* called once for each of them when all bytes are processed, also where    *)
(* the transport refused the header of another frame.                       *)
TooLongAreReported ==
  /\ errors <= Len(sent) - Len(due)
  /\ half = NoFrame /\ line = <<>> /\ i = length =>
       errors = Len(sent) - Len(due)

(* Every frame accepted by the transport is delivered. *)
AllDelivered ==
  \A n \in 1 .. MaxFrames : Len(due) >= n ~> Len(delivered) >= n
=============================================================================
