------------------------------ MODULE DaqCodec ------------------------------
(***************************************************************************)
(* The delta-of-delta codec of ecolib/middleware/DAQCodec.h over the rings *)
(* of ecolib/el/ring.h.  A Writer compresses one vector of samples after   *)
(* another into a byte stream that is cut into blocks by control bytes; a  *)
(* reader of the stream hands it, in pieces, to a Reader that rebuilds the *)
(* samples block by block.                                                 *)
(*                                                                         *)
(* Samples and bytes are numbers of 16 and 8 bits, because the encoding    *)
(* depends on their size.  The two rings are sequences; the place of a     *)
(* control mark is its distance from the tail of the stream, which is what *)
(* distanceFromTail computes.  Each call is one step: the calls are those  *)
(* of test_Codec.cpp, made by one thread.                                  *)
(***************************************************************************)
EXTENDS Integers, Sequences

CONSTANTS
  Channels,             \* ccs.size()
  Capacity,             \* size of the stream ring's storage
  MarkCapacity,         \* size of the mark ring's storage
  SyncPeriods,          \* the values sync_period may have
  BufSize,              \* size of the buffer given to readNext
  BlockCapacity,        \* vectors a SampleBlock has room for
  Samples,              \* vectors of samples the caller may push
  MaxSamples            \* bound: vectors ever pushed

Channel == 1 .. Channels
Half == 32768           \* half the numbers of 16 bits
Int16Range == -Half .. Half - 1

\* Both ends handle at most 14 channels: a RESYNCDOD block of more does not
\* fit the reader's scratch_buf, and reserve wraps to 0 at 16.
ASSUME DaqCodecAssumption ==
  /\ Channels \in 1 .. 14
  /\ Capacity \in Nat \ {0} /\ \E k \in 0 .. 15 : Capacity = 2 ^ k
  /\ MarkCapacity \in Nat \ {0} /\ \E k \in 0 .. 15 : MarkCapacity = 2 ^ k
  /\ SyncPeriods \subseteq 1 .. 255 /\ BlockCapacity \in Nat
  /\ BufSize \in Nat /\ BufSize >= 5 + 4 * Channels
  /\ Samples \subseteq [Channel -> Int16Range]
  /\ MaxSamples \in Nat \ {0} /\ MaxSamples < 2 * Half

VARIABLES
  writer,               \* Writer: dod_state per channel, sync_period,
                        \* samples_till_sync, the BACKPRESSURE flag
  stream, marks,        \* Writer.stream and Writer.marks
  chunk,                \* what readNext returned, not yet decoded
  reader,               \* Reader and the SampleBlock it fills
  input,                \* history: the vectors pushed; the next one has
                        \* sample_counter = Len(input)
  accepted,             \* history: counters pushSample returned true for
  blocks,               \* history: the blocks the application has taken
  log,                  \* history: the codes put into the stream, see Logged
  ended                 \* the feed has ended with a call of flush

codecVars ==
  <<writer, stream, marks, chunk, reader, input, accepted, blocks, log, ended>>

None == [type |-> "none", bytes |-> <<>>]

CodecInit ==
  /\ writer \in [dod : {[c \in Channel |-> [sample |-> 0, delta |-> 0]]},
                 syncPeriod : SyncPeriods, tillSync : {0}, backpressure : {FALSE}]
  /\ stream = <<>> /\ marks = <<>> /\ chunk = None
  /\ reader = [state |-> "DOD", inSync |-> FALSE, scratch |-> <<>>, dods |-> <<>>,
               dod |-> [c \in Channel |-> [sample |-> 0, delta |-> 0]],
               ready |-> FALSE, counter |-> 0, samples |-> <<>>]
  /\ input = <<>> /\ accepted = {} /\ blocks = <<>> /\ log = <<>>
  /\ ended = FALSE

-----------------------------------------------------------------------------
(* Numbers and bytes. *)

Int16(x) == ((x + Half) % (2 * Half)) - Half

(* The two low bytes of x, the high one first, and back. *)
Word(x) == <<(x \div 256) % 256, x % 256>>
WordAt(bytes, k) == 256 * bytes[k] + bytes[k + 1]

(* One residual: the zigzag of its magnitude in one byte below 120, in a   *)
(* byte that carries three bits and a low byte below 1024, else behind an  *)
(* escape.                                                                 *)
EncodeDod(dod) ==
  LET zigzag == IF dod < 0 THEN -2 * dod - 1 ELSE 2 * dod
      short  == dod \in -119 .. 119
      high   == zigzag \div 256
  IN  IF short THEN <<zigzag>>
      ELSE IF high < 8 THEN <<240 + high, zigzag % 256>>
      ELSE <<254, high, zigzag % 256>>

Unzigzag(value) == IF value % 2 = 1 THEN -(value \div 2) - 1 ELSE value \div 2

-----------------------------------------------------------------------------
(* Writer. *)

Free == Capacity - 1 - Len(stream)

(* Faulty variant: room for a sample, not for a resynchronisation. *)
ReserveOfSample == 3 * Channels

Reserve == (16 * Channels) % 256

(* dod_encode: the state behind a vector x, and its residuals. *)
NextDod(x) ==
  [c \in Channel |->
    [sample |-> x[c], delta |-> Int16(x[c] - writer.dod[c].sample)]]
Residuals(x) ==
  [c \in Channel |-> Int16(NextDod(x)[c].delta - writer.dod[c].delta)]

(* What is behind the first k codes, for each k. *)
Joined(codes) ==
  LET joined[k \in 0..Len(codes)] == IF k = 0 THEN <<>> ELSE joined[k - 1] \o codes[k]
  IN  joined

(* An entry of the log: the code of one residual or the bytes of one       *)
(* control mark, how many bytes were put into the stream before it, the    *)
(* counter and the channel of the last residual up to it, and the counter  *)
(* the block begins with.                                                  *)
Logged(kind, bytes, at, n, channel, block) ==
  [kind |-> kind, bytes |-> bytes, at |-> at, n |-> n, channel |-> channel, block |-> block]

Newest == log[Len(log)]
Pushed == IF log = <<>> THEN 0 ELSE Newest.at + Len(Newest.bytes)

(* marks.push: a mark that finds the ring full is dropped. *)
Marked(mark) == IF Len(marks) < MarkCapacity - 1 THEN Append(marks, mark) ELSE marks

(* internal_resync: the control code, the counter, and the state of each   *)
(* channel in four bytes.                                                  *)
ResyncBytes(counter, dod) ==
  <<255>> \o Word(counter \div (2 * Half)) \o Word(counter)
    \o [k \in 1 .. 4 * Channels |->
         LET d == dod[((k - 1) \div 4) + 1]
         IN  (Word(d.sample) \o Word(d.delta))[((k - 1) % 4) + 1]]

(* Faulty variant: the state of before the sample is sent. *)
ResyncBlockStale(x) == ResyncBytes(Len(input), writer.dod)

(* internal_resync is called behind dod_encode. *)
ResyncBlock(x) == ResyncBytes(Len(input), NextDod(x))

(* pushSample refuses, and goes on refusing until the stream was emptied,  *)
(* but keeps track of the signal.                                          *)
PushRefused(x) ==
  /\ writer.backpressure \/ Free <= Reserve
  /\ writer' = [writer EXCEPT !.dod = NextDod(x), !.backpressure = TRUE,
                              !.tillSync = IF writer.backpressure THEN @ ELSE 0]
  /\ UNCHANGED <<stream, marks, accepted, log>>

(* Faulty variant: a period too long by one. *)
PushResyncLate(x) ==
  /\ ~writer.backpressure /\ Free > Reserve
  /\ writer.tillSync = 0
  /\ marks' = Marked([at |-> Len(stream), size |-> 5 + 4 * Channels])
  /\ stream' = stream \o ResyncBlock(x)
  /\ log' = Append(log, Logged("resync", ResyncBlock(x), Pushed, Len(input), Channels, Len(input)))
  /\ writer' = [writer EXCEPT !.dod = NextDod(x), !.tillSync = writer.syncPeriod + 1]
  /\ accepted' = accepted \union {Len(input)}

(* pushSample opens a block: the sample itself travels in the control      *)
(* bytes.                                                                  *)
PushResync(x) ==
  /\ ~writer.backpressure /\ Free > Reserve
  /\ writer.tillSync = 0
  /\ marks' = Marked([at |-> Len(stream), size |-> 5 + 4 * Channels])
  /\ stream' = stream \o ResyncBlock(x)
  /\ log' = Append(log, Logged("resync", ResyncBlock(x), Pushed, Len(input), Channels, Len(input)))
  /\ writer' = [writer EXCEPT !.dod = NextDod(x), !.tillSync = writer.syncPeriod]
  /\ accepted' = accepted \union {Len(input)}

(* pushSample appends the residuals to the block. *)
PushDods(x) ==
  /\ ~writer.backpressure /\ Free > Reserve
  /\ writer.tillSync > 0
  /\ LET codes  == [c \in Channel |-> EncodeDod(Residuals(x)[c])]
         joined == Joined(codes)
     IN  /\ stream' = stream \o joined[Channels]
         /\ log' = log \o [c \in Channel |-> Logged("dod", codes[c],
                     Pushed + Len(joined[c - 1]), Len(input), c, Newest.block)]
  /\ writer' = [writer EXCEPT !.dod = NextDod(x), !.tillSync = @ - 1]
  /\ accepted' = accepted \union {Len(input)}
  /\ UNCHANGED marks

(* The caller pushes a vector and counts it, taken or not. *)
PushSample ==
  /\ ~ended
  /\ Len(input) < MaxSamples
  /\ \E x \in Samples :
       /\ PushRefused(x) \/ PushResync(x) \/ PushDods(x)
       /\ input' = Append(input, x)
  /\ UNCHANGED <<chunk, reader, blocks, ended>>

(* flush, at the end of the feed; its callers do not look at the result.    *)
(* Without room for the mark it queues nothing: what is in the last block  *)
(* stays with the reader.                                                  *)
Flush ==
  /\ ~ended
  /\ ended' = TRUE
  /\ IF Free > 16
     THEN /\ marks' = Marked([at |-> Len(stream), size |-> 1])
          /\ stream' = Append(stream, 254)
          /\ log' = Append(log,
               IF log = <<>> THEN Logged("flush", <<254>>, 0, -1, Channels, 0)
               ELSE [Newest EXCEPT !.kind = "flush", !.bytes = <<254>>, !.at = Pushed])
          /\ writer' = [writer EXCEPT !.tillSync = 0]
     ELSE UNCHANGED <<marks, stream, log, writer>>
  /\ UNCHANGED <<chunk, reader, input, accepted, blocks>>

(* Faulty variant: the flag is looked at behind samples only. *)
RelievedBySamples(rest, type) ==
  writer.backpressure /\ (rest # <<>> \/ type = "Control")

(* Back-pressure ends when the stream is empty. *)
Relieved(rest, type) == writer.backpressure /\ rest # <<>>

(* readNext: the samples up to the next mark, as many as fit, or the       *)
(* control bytes at the mark, all of them or nothing.                      *)
ReadNext ==
  LET distance == IF marks = <<>> THEN Len(stream) ELSE Head(marks).at
      control  == marks # <<>> /\ distance = 0
      wanted   == IF control THEN Head(marks).size ELSE distance
      n        == IF wanted > BufSize THEN BufSize ELSE wanted
      rest     == SubSeq(stream, n + 1, Len(stream))
      type     == IF control THEN "Control" ELSE "Sample"
      left     == IF control THEN Tail(marks) ELSE marks
  IN  /\ chunk = None
      /\ stream # <<>>
      /\ control => wanted <= BufSize
      /\ chunk' = [type |-> type, bytes |-> SubSeq(stream, 1, n)]
      /\ stream' = rest
      /\ marks' = [k \in DOMAIN left |-> [left[k] EXCEPT !.at = @ - n]]
      /\ writer' = [writer EXCEPT !.backpressure = Relieved(rest, type)]
      /\ UNCHANGED <<reader, input, accepted, blocks, log, ended>>

-----------------------------------------------------------------------------
(* Reader: each operator takes a reader r to the one behind the call. *)

(* The counter and the state of each channel in the control bytes. *)
SentCounter(r) == 2 * Half * WordAt(r.scratch, 1) + WordAt(r.scratch, 3)
SentDod(r) ==
  [c \in Channel |-> [sample |-> Int16(WordAt(r.scratch, 4 * c + 1)),
                      delta  |-> Int16(WordAt(r.scratch, 4 * c + 3))]]

(* Faulty variant: the samples of the old block stay. *)
SyncUpdateKeepsSamples(r) ==
  LET dod == SentDod(r)
  IN  [r EXCEPT !.counter = SentCounter(r),
                !.samples = Append(@, [c \in Channel |-> dod[c].sample]),
                !.dod = dod, !.ready = FALSE, !.state = "DOD"]

(* syncUpdate: a new block begins with the sample in the control bytes. *)
SyncUpdate(r) ==
  LET dod == SentDod(r)
  IN  [r EXCEPT !.counter = SentCounter(r),
                !.samples = <<[c \in Channel |-> dod[c].sample]>>,
                !.dod = dod, !.ready = FALSE, !.state = "DOD"]

(* Faulty variant: what came before the first flush is not handed out. *)
DecodeControlFlushOnly(r, bytes) ==
  CASE bytes[1] = 255 -> [r EXCEPT !.scratch = Tail(bytes), !.inSync = TRUE,
                                   !.state = "Sample"]
    [] bytes[1] = 254 -> [r EXCEPT !.ready = @ \/ r.inSync]
    [] OTHER          -> r

(* decodeControl: either control code closes the block. *)
DecodeControl(r, bytes) ==
  CASE bytes[1] = 255 /\ Len(bytes) = 5 + 4 * Channels ->
         [r EXCEPT !.scratch = Tail(bytes), !.ready = @ \/ r.inSync,
                   !.inSync = TRUE, !.state = "Sample"]
    [] bytes[1] = 254 -> [r EXCEPT !.ready = @ \/ r.inSync]
    [] OTHER          -> r

(* emitSample, dod_decode. *)
EmitSample(r) ==
  LET dod == [c \in Channel |->
        LET delta == Int16(r.dods[c] + r.dod[c].delta)
        IN  [sample |-> Int16(delta + r.dod[c].sample), delta |-> delta]]
  IN  IF Len(r.samples) >= BlockCapacity THEN r
      ELSE [r EXCEPT !.dod = dod, !.dods = <<>>,
                     !.samples = Append(@, [c \in Channel |-> dod[c].sample])]

(* decodeDod, decodeLarge16, decodeVirtualBits: a byte is a residual, opens *)
(* a longer one or is part of one; 2 bytes of scratch_buf make a residual.  *)
AcceptByte(r, byte) ==
  LET word == Append(r.scratch, byte) IN
  CASE r.state = "DOD" /\ byte = 254 -> [r EXCEPT !.state = "WORD", !.scratch = <<>>]
    [] r.state = "DOD" /\ byte \in 241 .. 247 ->
         [r EXCEPT !.state = "WORD", !.scratch = <<byte - 240>>]
    [] r.state = "DOD" /\ byte \in 0 .. 240 ->
         [r EXCEPT !.dods = Append(@, Unzigzag(byte))]
    [] r.state = "WORD" /\ Len(word) < 2 -> [r EXCEPT !.scratch = word]
    [] r.state = "WORD" /\ Len(word) = 2 ->
         [r EXCEPT !.dods = Append(@, Unzigzag(WordAt(word, 1))),
                   !.scratch = <<>>, !.state = "DOD"]
    [] OTHER -> r

DecodeByte(r, byte) ==
  LET next == AcceptByte(r, byte)
  IN  IF Len(next.dods) = Channels THEN EmitSample(next) ELSE next

DecodeBytes(r, bytes) ==
  LET after[k \in 0..Len(bytes)] ==
        IF k = 0 THEN r ELSE DecodeByte(after[k - 1], bytes[k])
  IN  after[Len(bytes)]

(* What decode does before it looks at the bytes. *)
BlockBegun(r) == IF r.inSync /\ r.state = "Sample" THEN SyncUpdate(r) ELSE r

Decoded(r, piece) ==
  CASE piece.type = "Control" -> DecodeControl(BlockBegun(r), piece.bytes)
    [] piece.type = "Sample" /\ BlockBegun(r).inSync -> DecodeBytes(BlockBegun(r), piece.bytes)
    [] OTHER -> BlockBegun(r)

(* getSamples hands the block out once. *)
Taken(r) == [r EXCEPT !.ready = FALSE]

(* decode, and the application takes the block if it is ready. *)
Decode ==
  /\ chunk # None
  /\ chunk' = None
  /\ LET r == Decoded(reader, chunk)
     IN  IF r.ready
         THEN /\ reader' = Taken(r)
              /\ blocks' = Append(blocks, [counter |-> r.counter, samples |-> r.samples])
         ELSE reader' = r /\ UNCHANGED blocks
  /\ UNCHANGED <<writer, stream, marks, input, accepted, log, ended>>

-----------------------------------------------------------------------------
CodecNext == PushSample \/ Flush \/ ReadNext \/ Decode

(* The loop behind the feed reads and decodes to the end, as it does       *)
(* between the pushes.  Nothing makes the caller push or flush.  The last  *)
(* conjunct is weak fairness of Decode, which alone empties chunk and can  *)
(* always do so.                                                           *)
CodecFairness == WF_codecVars(ReadNext) /\ []<>(chunk = None)

CodecSpec == CodecInit /\ [][CodecNext]_codecVars

-----------------------------------------------------------------------------
(* The counters of the samples in a block. *)
Covers(block) == block.counter .. block.counter + Len(block.samples) - 1
Delivered == UNION { Covers(blocks[k]) : k \in DOMAIN blocks }

(* What comes out is what went in: every sample of a block is the one      *)
(* pushed under its counter, and was accepted, wherever the stream was     *)
(* cut, before and behind a gap (test_Codec.cpp:181), as long as both ends *)
(* agree on the residuals: none has a magnitude of 120 to 127 or is -128.  *)
BlocksAreTrue ==
  \A k \in DOMAIN blocks : \A m \in DOMAIN blocks[k].samples :
    LET at == blocks[k].counter + m - 1
    IN  at \in accepted /\ blocks[k].samples[m] = input[at + 1]

(* Blocks come in the order of their counters and do not overlap: no       *)
(* sample is delivered twice.                                              *)
BlocksInOrder ==
  \A j, k \in DOMAIN blocks :
    j < k => \A a \in Covers(blocks[j]), b \in Covers(blocks[k]) : a < b

(* pushFast never overruns the reader: "We have reserve bytes in the tank  *)
(* at least" (DAQCodec.h:79, 194).                                         *)
ReserveSuffices == Len(stream) <= Capacity - 1

(* emitSample always finds room in the block; if it did not, the next      *)
(* residual would be stored behind dod_buf (DAQCodec.h:450, 500).          *)
BlocksFit == Len(reader.dods) < Channels

(* Once the feed has ended, every sample the caller was told was taken is  *)
(* delivered in the end, if flush found room for its mark; if it did not,  *)
(* every one but those of the block that was still open.                   *)
EverythingArrives ==
  ended ~> \A n \in accepted \ Delivered : Newest.kind # "flush" /\ n >= Newest.block

(* The writer that refuses samples accepts them again.                     *)
BackpressureEnds == writer.backpressure ~> ~writer.backpressure
=============================================================================
