---------------------------- MODULE UsbxchLibusb ----------------------------
(***************************************************************************)
(* The PC side of the bulk link: UsbxchLibusb (EcoTool/Usbxch.cpp) with    *)
(* its RingBuffer, driven by the main loop of EcoTool/EcoTool.cpp.  The    *)
(* main thread connects, reads and reconnects; an I/O thread per           *)
(* connection moves what libusb receives into the ring; the device is      *)
(* plugged in and out.                                                     *)
(*                                                                         *)
(* libusb (external) ends a bulk IN transfer on a short packet, when its   *)
(* buffer is full, on an error, or after its time-out; the last two may    *)
(* strike a transfer that has received full packets already.  An error may *)
(* come with the device plugged in (a stalled endpoint, a bad packet), and *)
(* so may a failure to open or to claim it.  A byte is its position in     *)
(* what the device has sent.                                               *)
(***************************************************************************)
EXTENDS Integers, Sequences

CONSTANTS
  MaxPacket,            \* XCH_IN_MPS
  Transfer,             \* size of ioLoop's buffer, a multiple of MaxPacket
  RingSize,             \* capacity of rx_buffer_
  ReadMax,              \* size of the main loop's buffer
  MaxBytes,             \* bound: bytes the device sends
  MaxUnplugs,           \* bound: times the device is unplugged
  MaxErrors             \* bound: transfers that fail with the device there

ASSUME UsbxchLibusbAssumption ==
  /\ MaxPacket \in Nat \ {0} /\ ReadMax \in Nat \ {0} /\ RingSize \in Nat
  /\ Transfer \in Nat \ {0} /\ Transfer % MaxPacket = 0
  /\ MaxBytes \in Nat /\ MaxUnplugs \in Nat /\ MaxErrors \in Nat

VARIABLES
  connected, running,   \* connected_, running_
  handle,               \* handle_: closed, open, or open with its device gone
  main, looping,        \* where the main thread stands, past its first connect?
  io,                   \* where the I/O thread stands; "none" once joined
  xfer,                 \* bytes of the transfer in progress
  ring,                 \* contents of rx_buffer_
  plugged, unplugs,     \* the device
  errors,               \* transfers that failed with the device there
  sent, got,            \* history: bytes sent, bytes read by the main loop
  overflow,             \* history: bytes reported as "RX overflow"
  late,                 \* history: bytes of transfers that timed out
  failed                \* history: bytes of transfers reported as "RX error"

thread  == <<connected, running, handle, main, looping, io>>
device  == <<plugged, unplugs, sent>>
data    == <<xfer, ring, got, errors, overflow, late, failed>>
vars    == <<connected, running, handle, main, looping, io, xfer, ring, plugged,
             unplugs, sent, got, errors, overflow, late, failed>>

Init ==
  /\ connected = FALSE /\ running = FALSE /\ handle = "closed"
  /\ main = "connect" /\ looping = FALSE /\ io = "none"
  /\ xfer = <<>> /\ ring = <<>>
  /\ plugged = TRUE /\ unplugs = 0 /\ sent = 0
  /\ got = <<>> /\ errors = 0 /\ overflow = 0 /\ late = 0 /\ failed = 0

(* Faulty variant: the room is not looked at. *)
UptoUnlimited(n, limit) == n

(* std::min. *)
Upto(n, limit) == IF n < limit THEN n ELSE limit

-----------------------------------------------------------------------------
(* Main thread. *)

(* usb->read, RingBuffer::pop. *)
Read ==
  /\ main = "loop"
  /\ ring # <<>>
  /\ LET n == Upto(Len(ring), ReadMax) IN
       /\ got' = got \o SubSeq(ring, 1, n)
       /\ ring' = SubSeq(ring, n + 1, Len(ring))
  /\ UNCHANGED <<thread, device, xfer, errors, overflow, late, failed>>

(* Every five seconds: isConnected, and connect if not. *)
Reconnect ==
  /\ main = "loop"
  /\ ~connected
  /\ main' = "connect"
  /\ UNCHANGED <<connected, running, handle, looping, io, device, data>>

(* Faulty variant: returns early as soon as the connection is lost. *)
DisconnectIfConnected ==
  /\ main = "connect"
  /\ IF ~connected
     THEN main' = "open" /\ UNCHANGED <<connected, running>>
     ELSE main' = "join" /\ connected' = FALSE /\ running' = FALSE
  /\ UNCHANGED <<handle, looping, io, device, data>>

(* connect begins with disconnect. *)
Disconnect ==
  /\ main = "connect"
  /\ IF ~connected /\ handle = "closed"
     THEN main' = "open" /\ UNCHANGED <<connected, running>>
     ELSE main' = "join" /\ connected' = FALSE /\ running' = FALSE
  /\ UNCHANGED <<handle, looping, io, device, data>>

(* Waits for the I/O thread, then closes the handle. *)
Join ==
  /\ main = "join"
  /\ io \in {"none", "exited"}
  /\ io' = "none"
  /\ handle' = "closed"
  /\ main' = "open"
  /\ UNCHANGED <<connected, running, looping, device, data>>

(* The device is not found, or cannot be opened or claimed: connect leaves  *)
(* no handle and returns false.  The first time the main thread tries again *)
(* at once, later after five seconds.                                      *)
OpenFails ==
  /\ main = "open"
  /\ main' = IF looping THEN "loop" ELSE "connect"
  /\ UNCHANGED <<connected, running, handle, looping, io, device, data>>

(* Opened and claimed; the flags are set, then the thread is started.      *)
Open ==
  /\ main = "open"
  /\ plugged
  /\ handle' = "open"
  /\ connected' = TRUE /\ running' = TRUE
  /\ main' = "start"
  /\ UNCHANGED <<looping, io, device, data>>

(* Assigning to io_thread_ ends the program if it still owns a thread.     *)
StartThread ==
  /\ main = "start"
  /\ io' = IF io = "none" THEN "check" ELSE "terminate"
  /\ main' = "loop" /\ looping' = TRUE
  /\ UNCHANGED <<connected, running, handle, device, data>>

-----------------------------------------------------------------------------
(* I/O thread: ioLoop. *)

CheckRunning ==
  /\ io = "check"
  /\ io' = IF running THEN "transfer" ELSE "exited"
  /\ xfer' = <<>>
  /\ UNCHANGED <<connected, running, handle, main, looping, device, ring, got,
                 errors, overflow, late, failed>>

(* A packet of n bytes arrives for the transfer. *)
Packet(n) ==
  /\ io = "transfer"
  /\ handle = "open"
  /\ sent + n <= MaxBytes
  /\ xfer' = xfer \o [k \in 1 .. n |-> sent + k]
  /\ sent' = sent + n
  /\ io' = IF n < MaxPacket \/ Len(xfer') = Transfer THEN "push" ELSE io
  /\ UNCHANGED <<connected, running, handle, main, looping, ring, plugged,
                 unplugs, got, errors, overflow, late, failed>>

(* Faulty variant: the newest bytes replace the oldest. *)
PushOverwrites ==
  /\ io = "push"
  /\ LET all == ring \o xfer IN
       ring' = SubSeq(all, 1 + Len(all) - Upto(Len(all), RingSize), Len(all))
  /\ io' = "check"
  /\ UNCHANGED <<connected, running, handle, main, looping, xfer, device, got,
                 errors, overflow, late, failed>>

(* Faulty variant: pushed again and again until all of it has fitted. *)
PushRetries ==
  /\ io = "push"
  /\ LET n == Upto(Len(xfer), RingSize - Len(ring)) IN
       /\ ring' = ring \o SubSeq(xfer, 1, n)
       /\ io' = IF n = Len(xfer) THEN "check" ELSE "push"
  /\ UNCHANGED <<connected, running, handle, main, looping, xfer, device, got,
                 errors, overflow, late, failed>>

(* LIBUSB_SUCCESS: RingBuffer::push takes what it has room for. *)
Push ==
  /\ io = "push"
  /\ LET n == Upto(Len(xfer), RingSize - Len(ring)) IN
       /\ ring' = ring \o SubSeq(xfer, 1, n)
       /\ overflow' = overflow + Len(xfer) - n
  /\ io' = "check"
  /\ UNCHANGED <<connected, running, handle, main, looping, xfer, device, got,
                 errors, late, failed>>

(* LIBUSB_ERROR_TIMEOUT: whatever was transferred is not looked at. *)
Timeout ==
  /\ io = "transfer"
  /\ handle = "open"
  /\ late' = late + Len(xfer)
  /\ io' = "check"
  /\ UNCHANGED <<connected, running, handle, main, looping, device, xfer, ring,
                 got, errors, overflow, failed>>

(* The bulk transfer comes back with any other code: the device is gone,   *)
(* or is there and the transfer fails nevertheless.                        *)
TransferFails ==
  /\ io = "transfer"
  /\ \/ handle = "dead" /\ errors' = errors
     \/ handle = "open" /\ errors < MaxErrors /\ errors' = errors + 1

(* Faulty variant: the thread stops but the connection is still believed.  *)
ErrorKeepsConnected ==
  /\ TransferFails
  /\ failed' = failed + Len(xfer)
  /\ io' = "stop"
  /\ UNCHANGED <<connected, running, handle, main, looping, device, xfer, ring,
                 got, overflow, late>>

(* "RX error": what was transferred is not looked at, and the two flags are *)
(* cleared one after the other.                                            *)
Error ==
  /\ TransferFails
  /\ failed' = failed + Len(xfer)
  /\ connected' = FALSE
  /\ io' = "stop"
  /\ UNCHANGED <<running, handle, main, looping, device, xfer, ring, got,
                 overflow, late>>

Stop ==
  /\ io = "stop"
  /\ running' = FALSE
  /\ io' = "check"
  /\ UNCHANGED <<connected, handle, main, looping, device, data>>

-----------------------------------------------------------------------------
Unplug ==
  /\ plugged /\ unplugs < MaxUnplugs
  /\ plugged' = FALSE
  /\ unplugs' = unplugs + 1
  /\ handle' = IF handle = "open" THEN "dead" ELSE handle
  /\ UNCHANGED <<connected, running, main, looping, io, sent, data>>

Plug ==
  /\ ~plugged
  /\ plugged' = TRUE
  /\ UNCHANGED <<thread, unplugs, sent, data>>

MainThread == Read \/ Reconnect \/ Disconnect \/ Join \/ OpenFails \/ Open \/ StartThread
IoThread   == CheckRunning \/ Push \/ Timeout \/ Error \/ Stop

Next ==
  \/ Read \/ Reconnect \/ Disconnect \/ Join \/ OpenFails \/ Open \/ StartThread
  \/ CheckRunning \/ Push \/ Timeout \/ Error \/ Stop
  \/ \E n \in 1 .. MaxPacket : Packet(n)
  \/ Unplug \/ Plug

(* Both threads run.  The main loop does everything it can do again and    *)
(* again (Read, Reconnect); a transfer ends, by its time-out if nothing    *)
(* else does it.  A device that is plugged in does not refuse for ever to  *)
(* be opened (strong fairness: connect is called again and again).         *)
(* Nothing obliges it to send or to be plugged in.                         *)
Spec == Init /\ [][Next]_vars
FairSpec ==
  /\ Spec
  /\ WF_vars(Read) /\ WF_vars(Reconnect)
  /\ WF_vars(Disconnect \/ Join \/ OpenFails \/ Open \/ StartThread)
  /\ SF_vars(Open)
  /\ WF_vars(IoThread)

-----------------------------------------------------------------------------
TypeOK ==
  /\ connected \in BOOLEAN /\ running \in BOOLEAN
  /\ handle \in {"closed", "open", "dead"}
  /\ main \in {"loop", "connect", "join", "open", "start"} /\ looping \in BOOLEAN
  /\ io \in {"none", "check", "transfer", "push", "stop", "exited", "terminate"}
  /\ xfer \in Seq(1..MaxBytes) /\ Len(xfer) <= Transfer
  /\ ring \in Seq(1..MaxBytes) /\ Len(ring) <= RingSize
  /\ plugged \in BOOLEAN /\ unplugs \in 0..MaxUnplugs
  /\ sent \in 0..MaxBytes /\ got \in Seq(1..MaxBytes)
  /\ errors \in 0..MaxErrors
  /\ overflow \in Nat /\ late \in Nat /\ failed \in Nat

(* The I/O thread only ever uses an open handle (disconnect joins before it *)
(* closes), and no thread is started while another is still owned (connect  *)
(* and disconnect racing with the flags cleared by ioLoop).                 *)
ThreadIsSound ==
  /\ io # "terminate"
  /\ io \in {"check", "transfer", "push", "stop"} => handle # "closed"

Ascending(s) == \A k \in 1 .. Len(s) - 1 : s[k] < s[k + 1]

(* The bytes read come in the order they were sent, none twice, across     *)
(* overflows, time-outs and reconnections.                                 *)
NothingRepeated == Ascending(got \o ring)

(* A connection the main loop believes in is served by a thread that is    *)
(* not about to end (connected_ and running_ are cleared one by one).      *)
ConnectedIsServed ==
  (connected /\ main = "loop") => running /\ io \in {"check", "transfer", "push"}

inFlight == IF io \in {"transfer", "push"} THEN xfer ELSE <<>>

(* Across overflows, errors, unpluggings and reconnections, a byte the     *)
(* device has sent is lost in three ways only: with the message "RX        *)
(* overflow" or "RX error", or silently in a transfer whose time-out struck *)
(* after the byte had arrived (ioLoop, RingBuffer::push).                  *)
LostIsReported ==
  sent = Len(got) + Len(ring) + overflow + late + failed + Len(inFlight)

(* What makes the four above inductive: how the flags, the handle and the  *)
(* places of the two threads go together, and that the bytes of a running  *)
(* transfer are newer than all those before them.  Serving: a thread that  *)
(* connect has started has not been joined.                                *)
Serving == io \in {"check", "transfer", "push", "stop", "exited"}

MainAlone ==
  /\ Serving <=> handle # "closed" /\ main # "start"
  /\ main = "open" => handle = "closed"
  /\ main = "start" => handle # "closed" /\ connected /\ running
  /\ main = "join" => handle # "closed" /\ ~running
  /\ main \in {"connect", "join"} \/ handle = "closed" => ~connected
  /\ handle = "closed" => ~running

FlagsTell ==
  main \in {"loop", "connect"} =>
    /\ io = "check" => (connected <=> running)
    /\ io \in {"transfer", "push"} => connected /\ running
    /\ io = "stop" => ~connected /\ running
    /\ io = "exited" => ~connected /\ ~running

(* Only full packets keep a transfer going, so none is ever too long. *)
FullPackets ==
  io = "transfer" => Len(xfer) % MaxPacket = 0 /\ Len(xfer) < Transfer

OrderKept ==
  LET s == got \o ring \o inFlight IN
    Ascending(s) /\ \A k \in 1 .. Len(s) : s[k] <= sent

IInv ==
  /\ TypeOK
  /\ ThreadIsSound /\ ConnectedIsServed /\ LostIsReported
  /\ MainAlone /\ FlagsTell /\ FullPackets /\ OrderKept

(* A device that stays plugged in gets a connection with a thread that     *)
(* serves it, also when it was plugged out and in while the thread still   *)
(* used the old handle, and after a transfer that failed: the loss is      *)
(* noticed, and the main thread does not wait for ever in disconnect.      *)
Recovers ==
  plugged ~> (~plugged \/ (handle = "open" /\ connected /\ running))
=============================================================================
