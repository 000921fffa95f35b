# EcoDrive in TLA+

A verification development kept beside the EcoDrive repository: TLA+ modules of
the parts whose correctness depends on interleaving, ordering and boundaries,
the TLC runs that check them on small instances, and TLAPS proofs about the
byte ring, both directions of the USB link, the PC side of it, the framing of what
crosses it, the compression of samples, the motor's self-commissioning, the calibration of its current sensors, and
the timers and the capture of the simulation.

EcoDrive is firmware for a permanent-magnet synchronous motor drive. One
application (`EcoDrive/`) is built for an STM32F4 and, with the drivers replaced,
for the host as a software-in-the-loop simulation; `EcoTool/` is the PC program
that talks to the drive; `ecolib/` holds drivers, streams and containers. Most of
the repository's lines are vendored (CMSIS, HAL, ImGui, ETL, libusb) and are no
part of this development.

## 1. Inventory

"Context" names who runs the code: *main* is the super-loop of `Sys::init`,
*ADC* / *TIM11* / *USB* are interrupts of the STM32 (priorities 0, 15 and the USB
core's), *tick* is the host's simulation thread, *tool* and *I/O* are the two
threads of EcoTool.

| Component | State | Operations (context) | What makes it correct |
|---|---|---|---|
| `ecolib/el/el_ring.h` | `head`, `tail`, storage | reserve/commit on the write and on the read side (main, USB) | a FIFO of `capacity - 1` bytes although both sides preempt each other |
| `ecolib/driver/stm32f4/el_usbxch.c` | two rings, busy flag, bytes to release | write, flush, update, read (main); `TxComplete`, `RxComplete`, `GetRxStorage` (USB) | bytes cross once and in order; a transfer's storage stays intact; the busy flag tells the truth; bus resets |
| `thirdparty/stm32/usbd/Class/XCH` (own class), `usbd/App` | endpoint state in the stack | Init, DeInit, DataIn, DataOut (USB) | what it arms is what the driver may fill or send |
| `ecolib/middleware/ABFStream` | decoder state, payload buffer | encode, process (main, tool) | frames whole, in order, independent of how bytes are cut |
| `EcoDrive/sys.cpp`, `main.cpp` | the objects of the firmware | configuration, then the super-loop | every stream is served for ever |
| `EcoDrive/DAQSessionAPP.h` | - | send: encode, two writes, flush; marks | a frame is written whole or not at all |
| `EcoDrive/PmsmControl/PmsmControl.cpp` | configuration | configuration and mode API (main) | changes are atomic for the interrupts; modes change through Idle |
| `PmsmControlCore.cpp` | mode, tick counts, measurements | `pwmLoop` (ADC or tick), `xmcLoop` (TIM11 or tick), `setControlMode` (main) | the loops agree on the mode; Idle is safe |
| `PmsmControlCore_SComm.cpp` | stage, sub-stage, sums, results | its half of each loop | results come from settled samples of their own stage; stages in order; it ends |
| `PmsmControlCore_Foc.cpp`, `PosDriver` | currents, setpoints, angle | its half of each loop | numeric |
| `EcoTool/Usbxch.*`, `RingBuffer.hpp` | flags, handle, thread, ring | connect, disconnect, read, write (tool), `ioLoop` (I/O) | one live thread per connection, no byte twice, always reconnects |
| `EcoTool/EcoTool.cpp` | - | connect, read and process, reconnect | recovers from unplugging |
| `EcoTool/DAQSessionAPP.h` | objects found | `process` of every frame, `discovery_req` every five seconds (tool); its constructor names one of `daq::Session` that does not exist, so this commit of EcoTool does not compile | - |
| `EcoTool/Serial.hpp`, `TcpClient.hpp` | flags, threads, buffers | connect, disconnect, read, write; used by nothing | - |
| `ecolib/el/ring.h` (`ring_fast`) | head, tail, marks | push, pop, peek, distances | never overrun by `pushFast` |
| `ecolib/middleware/DAQCodec.h` | two DOD states per channel, marks, flags | `pushSample`, `flush`, `readNext`, `decode`, `getSamples` (used by its tests only so far) | the reader gets the samples written, or is told that some are missing |
| `DAQStream`, `IDV.h` | session tree, field buffers | discovery, serialise, process; the device never gives it data | - |
| `ScopeStream.h` | window, trigger, decimation | write, read, reset (tick), settings (main) | a window starts at its trigger and is evenly spaced |
| host: `TCPServer`, `el_uart`, `el_usbcdc`, `el_usbxch` | sockets | poll, read, write | a new client after the old one |
| host: `platform.cpp` | virtual timers, simulated time | register, configure (main), tick (tick) | timers are called, at their rates |
| host: SIL, GUI, `el_mc3p.cpp`, `el_hall.cpp` | simulated motor | numeric | numeric |
| STM32: `el_mc3p.c`, `_it.c` | timers, ADC, DMA double buffer | offset calibration (main, ADC), duty, sectors, scans | an offset is the average of its own channel; it ends |
| STM32: `el_hall.c`, `el_uart.c`, `el_usbcdc.c`, `eld_*`, `platform.c` | registers | - | - |
| `mempool.h`, `math/` | - | - | numeric or unused |

How they interact: on the device, `el_usbxch_read` feeds `abf::Stream::process`;
the USB interrupt and the main loop share the two rings and a flag. What the
device sends goes through `DAQSessionAPP::send` -> `el_usbxch_write`. The API of
`PmsmControl` changes, in a critical section, the mode that the two control
interrupts dispatch on, and these two share the stage variables of the
commissioning. On the PC, the I/O thread fills a ring that the main loop empties
into the same `abf::Stream`. In the simulation, the tick thread calls the control
loops and the capture as virtual timers, while the main thread registers and
configures timers and the user interface changes the capture.

Everything hard that was found in the code is listed, line by line, under
`hazards` in PROJECT.json: 40 entries, with the properties that cover them or
the reason why none does.

## 2. Modules

| Module | Models | Kind |
|---|---|---|
| `RingIndex` | index arithmetic of `el_ring_t` in 16 bits | pure operators |
| `Fifo` | what a ring promises | abstract specification |
| `Pipe` | what each direction of the USB link promises | abstract specification |
| `ElRing` | `el_ring.h`, both sides preemptible | component; implements `Fifo` |
| `UsbxchTx` | device-to-host half of `el_usbxch.c` with `usbd_xch.c` and the host | component over `RingIndex`; implements `Pipe` |
| `UsbxchRx` | host-to-device half of the same | component over `RingIndex`; implements `Pipe` |
| `AbfStream`, `MCAbfStream` | `ABFStream.cpp`, both ends | component; small instances |
| `DaqCodec`, `MCDaqCodec` | `DAQCodec.h` over `ring.h`, both ends | component; small instance |
| `SComm` | modes, `pwmLoop`, `xmcLoop`, self-commissioning | component |
| `UsbxchLibusb` | `Usbxch.cpp`, `RingBuffer.hpp` and the loop of `EcoTool.cpp` | component |
| `VTimers` | virtual timers of `platform/host/platform.cpp` | component |
| `ScopeStream` | triggered capture of `ScopeStream.h` | component |
| `HostSim` | the simulation's threads: `VTimers` calling `ScopeStream` | composition |
| `Mc3pCalib`, `MCMc3pCalib` | offset calibration of `el_mc3p.c` | component; small instance |
| `RingIndex_proofs` | - | lemmas on the index arithmetic |
| `ElRing_proofs`, `UsbxchTx_proofs`, `UsbxchRx_proofs`, `AbfStream_proofs`, `HostSim_proofs` | - | TLAPS proofs about the module they are named after |
| `DaqLink_proofs` | - | TLAPS proofs about `UsbxchLibusb` (first part) and `DaqCodec` (second part) |
| `Motor_proofs` | - | TLAPS proofs about `Mc3pCalib` and `SComm` |

Where a module has a "faulty variant" of a definition in front of it, the
variant is a plausible bug of that code; with it in the definition's place the
property it is listed with in PROJECT.json fails. They show that the properties
can fail, and are used nowhere else.

### The ring: RingIndex, Fifo, ElRing

`head` and `tail` are volatile and each is stored by one side. A reservation
reads the other side's index several times: `el_ring_write_reserve` once for the
free room, once to compare, once for the contiguous room;
`el_ring_read_reserve` once for "empty", once for the count, once to compare and
possibly once more for the contiguous bytes. Each of these readings is an action
(`WriteReserve`, `WriteCompare`, `WriteRoom`, `ReadReserve`, `ReadCount`,
`ReadCompare`, `ReadToHead`), and so is the copy of each byte; between any two
the other side may do anything. A side's own index cannot change under it, so
reading that is not a step. This is one core: an interrupt sees the stores of the
code it interrupts in program order. It is assumed that the compiler does not move
the `memcpy` of a caller across the volatile store of the commit (it may, by the C
standard; no barrier is written).

A byte is its position in the stream. So "the right byte" can be stated, and a
stale, repeated or missing byte is visible. `ReadTake` lets the caller take fewer
bytes than reserved (`el_usbxch_read` does), `WriteCommit` lets it commit fewer
(the receive path does).

### UsbxchTx

Main loop: `Write`; `StartTx`, `SetRelease`, `SetBusy` are the three steps of
`usbxch_start_tx` an interrupt can see (hand-over to the endpoint,
`tx_to_release`, busy flag), entered from `el_usbxch_update` and
`el_usbxch_flush`. The transfer the endpoint owns is `at` and `left`, the slot and
the number of the bytes still to be taken. USB: `HostPoll` takes a packet out of
the ring's storage, `TxComplete` is the whole interrupt, `BusReset` and
`SetConfiguration` are the class's DeInit and Init. `Prompt` says whether a
transfer may complete while `usbxch_start_tx` is still between the three steps.
Writes and reservations are one step each: `ElRing` shows that what the interrupt
does between their accesses changes nothing. Zero-length packets do not occur: the
driver never sends an empty transfer and the class adds none.

### UsbxchRx

`Packet` is the endpoint copying a packet into the window, `DataOut` the whole
interrupt (commit, reserve, arm), `Read` is `el_usbxch_read`. The window is `at`
and `size`; the endpoint (external) is armed for a number of whole `packets`, at
least one, and copies each packet in full, whatever the size of the window;
`count` is what it has taken. `Allowed` restricts the PC to what the window takes.

### AbfStream

The sender's two writes are two actions and the transport may refuse either
(`Drops`), as `el_usbxch_write` does when the ring has no room and
`DAQSessionAPP::send` does not notice. The receiver reads any prefix of what has
arrived and processes it byte by byte (`HuntSync`, `ReadHeader`, `ReadPayload`,
one action per state of `process`). Bytes are numbers modulo `ByteMod`, the
checksum is any function to a non-zero byte. `Shared` says whether the bytes are
read into the payload buffer itself, as in `sys.cpp`. `m_rxCapacity` is a variable
that is fixed at the beginning, as by the constructor. `due`, `orphan` and `sure` are
history: which of the frames sent fit the receive buffer, was a header left without its
payload, and which frames come right behind no such header. Frames with an empty payload
or service 0 are refused by `encode` and not sent; statistics are never updated by the
code and left out.

### DaqCodec

`PushSample` is `pushSample` and the caller's count, in its three outcomes: refused
by back-pressure (the signal is followed all the same), opening a block (the vector
travels in the RESYNCDOD control bytes), or residuals. `Flush` is the flush at the
end of a feed: without room it queues nothing, and its callers go on as if it had.
`ReadNext` one `readNext`, `Decode` one `decode` with the
`isReady`/`getSamples` that follows it in every loop of `test_Codec.cpp`. Samples have
16 bits and bytes 8, because the encoding chooses by size; the rings are sequences
and a mark is kept by its distance from the tail. If the block were full,
`emitSample` would leave the channel counter at its end and the next residual would be
stored behind `dod_buf`: in the model `dods` grows, and `BlocksFit` says it does not.
`LARGE16` and `VIRTUALBITS` are one state `WORD`: two bytes in `scratch_buf` make a
residual in both. `log` is history, all the codes ever put into the stream with the place
and the sample they stand for: no action looks at it, and the proofs say by it what the
bytes are.

### SComm

`ConfigControlMode` is the API call with its critical section; `PwmLoop` is one
ADC interrupt (or one call by the host's tick thread); `XmcLoop` is cut at the
points where one case of the `switch` falls through to the next, and
`Preempt` says whether `PwmLoop` may run there: it may on the STM32, where the
ADC interrupt has priority 0 and TIM11 priority 15, and not on the host, where one
thread calls both. The value of a current is abstracted to what excited the
motor, and for how long, when the sample was taken: `acc` counts samples per
kind, `model` remembers the counts a result was computed from. SComm may be left at
any point and entered again (`MaxEnter`). Positions are always `Override` after
initialisation, so `Foc_xmcLoop` leaves the setpoints alone.

### UsbxchLibusb

The main thread's `connect` is cut into `Disconnect`, `Join`, `OpenFails` /
`Open`, `StartThread`, the I/O thread into the points where the flags it shares
are read or written. libusb is external: a transfer ends with a short packet,
with a full buffer, on an error, or after its time-out (1 ms in `ioLoop`). The last two
may strike after full packets have arrived, and an error also while the device is there
(`TransferFails`, a stall or a bad packet), as opening or claiming it may fail
(`OpenFails`). The ring is a sequence: its mutex makes
`push` and `pop` atomic. The synchronous `write` is left out.

### VTimers, ScopeStream, HostSim

`Register`, `RegisterFields`, `RegisterCallback` and `LowerStep` are the stores of
`register_timer` in program order, `Configure` and `LowerStep` those of
`configure_timer_timestep`. The tick thread's `tick` is cut at each step of
simulated time and each timer it looks at (`Skip`, `Fire`); while a callback runs it
stands at "callback". Times are unsigned: a timer that was never called has a `last`
from the monotonic clock, ahead of the simulated time, and is due only because the
subtraction wraps (`Due`, with `Word` values). Periods need not divide one another:
the firmware asks for 40 and 250 us. A timer is then called at the first step at which
its period is over, and starts the next one there; `Interval` is that distance, and
`paced` is history: which timers were called since the step last changed.

`ScopeStream::write` is cut at each load and store of `decimation` and
`decimation_counter`, which `update_decimation` stores from the other thread. A
sample is its level against the trigger and the time it was taken at. The counter has
`CounterMod` values, 256 in the code: the control of the user interface takes any
integer from 1 on and `update_decimation` cuts it to a `uint8_t`, so that 256 becomes 0,
which takes one sample in 256 (`Stride`). `Show` is the copy and `reset` of a full window in `silgui_updateData`.

`HostSim` lets the callback of timer 0 be one `write` and calls the main thread and
the user interface at any point of it. Both are the same thread of the program, so
only one of them is inside a call at a time. The other timers' callback (the slow
loop) is `SComm`'s.

### Mc3pCalib

`mc3p_offset_calibration` is cut at each volatile access: the mode, the bridge, one
rank of the injected sequence after the other, one sum after the other, the counter.
`EndOfSequence` is the interrupt, and may come between any two. `Results` is
external: what the converter returns depends on the sequence selected and on whether
the bridge is held low. The driver calibrates if `offset_calibration` of its handle is
set, and `PmsmControlCore::init` sets it (`PmsmControlCore.cpp:38`): this happens at every
start. The sums have 16 bits (`SumMod` values) and wrap around.

## 3. Runs

Every run ends within about two minutes. In the ten passing runs, TLC explores the whole
state space.

| Run | Configuration | Shows |
|---|---|---|
| `elring` | Capacity 6, 15 bytes | every byte read is the right one; a reservation never touches unread data; the inductive invariant; refinement of `Fifo` |
| `tx` | Capacity 8, packets of 3, 20 bytes, no completion inside `usbxch_start_tx`, one bus reset (the enumeration) | storage in flight is intact; the flag tells whether a transfer runs; all that was accepted is sent; the inductive invariant; refinement of `Pipe` |
| `tx_reset` | Capacity 4, packets of 2, 6 bytes, a second bus reset | **violated**: nothing is ever sent again |
| `rx` | Capacity 8, packets of 3, 20 bytes, two bus resets, a host that sends no more than the window takes | the window is free and starts at `head`; what was received is read; the inductive invariant; refinement of `Pipe` |
| `scomm` | settling 2, 2 samples, no preemption, entered up to three times | results from their own settled samples; stages in order; it finds all three parameters; the inductive invariant |
| `scomm_skip` | the same with preemption, entered once | **violated**: a stage is skipped |
| `abf` | bytes 0..3, every {0, 2}-payload of 1 to 3 bytes, 2 frames, receive buffers of 2 and 3 bytes, headers may be refused, any cut into reads | frames delivered in order and unchanged; frames too long reported, once each, and nothing else; all delivered |
| `abf_drop` | bytes 0..3, three payloads whose code does not wrap, 3 frames, headers and payloads may be refused | a header without its payload costs its own frame and the one behind it, no other |
| `codec` | 1 and 2 channels, ring of 64, 8 marks, a block every 2 or every 4 vectors, pieces of 13 bytes, 2 vectors, 8 pushes | blocks hold the samples pushed under their counters; in order, none twice; the stream never outgrows its ring nor a block its buffer; all that was accepted arrives, but for the last block if `flush` found no room; back-pressure ends |
| `link` | packets of 2, transfers of 4, ring of 3, 7 bytes, two unpluggings, one transfer that fails with the device there, openings that fail | threads and handles are sound; no byte twice; a believed connection is served; losses are those reported or timed out; it always recovers; the inductive invariant |
| `hostsim` | two timers, periods 1, 3 and 4 in slices of 4, two slices, three calls of the main thread, windows of 2 samples, decimations 2 and 0 of a counter of 3 values | a timer registered or changed in the middle of a tick is called, at its rate in whole steps; a window is evenly spaced; a window needs a fall before its rise |
| `mc3p` | 5 samples, sums modulo 32, a range of readings per channel, of which some sums wrap around | wherever the interrupt comes, an offset comes from its own channel with the bridge low and from no sample too many or too few; the calibration ends |

### Bounds

*Rings.* A capacity of 6 (8 with packets) has an empty, a full and a wrapped ring,
spans of one and two pieces, a reader at slot 0 and, with 3-byte packets, a span at
the end that is shorter than, equal to and longer than a packet; 15 and 20 bytes go
around it more than twice. The theorems remove these bounds.
*AbfStream.* With `ByteMod` 4 the longest payload has 3 bytes and, if it has no zero,
its code wraps to 0 as with 255 bytes in the code; every pattern of zeros of up to
three bytes occurs; with a buffer of 2 the frames of 3 bytes are too long. Two frames
are enough for one to disturb the next, three for a header without its payload, the
frame it costs and one that must survive.
*SComm.* Two ticks of settling and two samples let each count be zero, in between and
complete; three entries, so that a commissioning entered again may be left once more.
*DaqCodec.* The vectors have residuals of one, two and three bytes, negative ones and
ones that wrap around 16 bits; eight pushes fill the ring to its reserve and go on
behind the gap when it has been emptied; `BufSize` is the least that takes a control
block, so that residuals are cut; `BlockCapacity` is exactly the samples of a long
block; with the short blocks most bytes are control bytes. `flush` can find no room only
with one channel: the reserve of 16 bytes a channel is looked at before a vector and its
control bytes, of which at least 20 bytes are left with two channels and possibly 8 with
one. `MCDaqCodec` therefore runs both.
*UsbxchLibusb.* Two unpluggings, so that one may happen while the main thread is
still reconnecting after the other; one failing transfer, which may come before, between
or after them; a ring smaller than a transfer, so that it overflows.
*HostSim.* Two slices, so that a change in the first shows in the second; the period of 3
divides neither the slice nor the others, so a slice of 4 has one step of 3 and ends before
a timer of 4 is called, as with 250 us in slices of 1 ms; three calls
let a timer be registered, another one registered and the first changed; the window of
two samples has one interval, and a second window begins in the time left.
*Mc3pCalib.* Five samples, so that no average hides one sample too many or of the other
stage: the readings of the channels are chosen apart. The sums of two channels are up to
or above `SumMod`, the others below it.

Each passing run's restriction is one the code needs. What happens without it:

| Restriction of the passing run | Without it |
|---|---|
| `MaxResets = 1` in `tx` | `tx_reset` |
| `Preempt = FALSE` in `scomm` | `scomm_skip` |
| `Prompt = FALSE` in `tx` | not a run: with TRUE, `ImplementsPipe` fails. A transfer that completes between `USBD_XCH_Transmit` and the two assignments behind it (`el_usbxch.c:202-204`) releases the count of the transfer before, and the host receives bytes twice; the busy flag is then set over it |
| `Allowed` in `rx` | not a run: a host that sends one short packet and waits until it was read loses bytes, because near the end of the storage the window is shorter than the packet |
| `Shared = FALSE` in `abf` | not a run: with one buffer of 13 bytes for both, as in `sys.cpp:73`, a frame is delivered that was never sent: the decoder writes the payload over bytes it has not looked at yet |
| `MCFewPayloads` in `abf_drop` | not a run: the code 0 of a payload without zeros (255 bytes in the code) is a sync byte inside the header, and an orphaned header then costs two frames |
| R of the first entry only, in `ResultsFromOwnSamples` | not a run: `SComm_onEnter` resets the stage but not the sub-stage (`PmsmControlCore_SComm.cpp:8`), and the R of a commissioning entered again is computed from what the interrupted one had sampled |
| no residual of -128 to -120 or 120 to 127 in `codec` | not a run: with the samples 0 and 120, `BlocksAreTrue` fails. The writer sends such a residual as two bytes, 240 and the low byte of its zigzag code (`DAQCodec.h:158-169`); the reader takes 240 for a residual of one byte (`:441` asks for more than 240) and the byte behind it for the next |
| `MarkCapacity = 8` in `codec` | not a run: with 4, `EverythingArrives` fails. Three blocks and a flush fit into the stream but their marks do not into their ring; the result of `marks.push` is not looked at (`DAQCodec.h:81`, `:196`) |
| `Flush` ends the feed in `codec` | not a run: the resynchronisation behind a flush closes the same block a second time (`DAQCodec.h:383`, `:395`), and it is delivered twice |
| at least 20 kHz in `hostsim` | not modelled: below, `el_mc3p_reconfigure_pwm` of the host (`el_mc3p.cpp:98-104`) leaves its search without a `break` and makes 1000 steps of the motor a period |

### Fairness

`tx`: the super-loop calls update for ever, the host keeps polling (EcoTool's
`ioLoop`), pending interrupts are taken, a host that has reset the bus configures
the device. `rx`: the super-loop reads, interrupts are taken, the host configures;
nothing obliges it to send. `scomm`: both timers run for ever; strong fairness of `PwmLoop`
says that a tick that has to wait for `xmcLoop` is taken afterwards; nothing
obliges the main loop to do anything. `abf`: a frame begun is finished, what has
arrived is read, what was read is processed. `codec`: the loop behind a feed reads and
decodes on, and nothing obliges the caller to push or to flush (weak fairness of `Decode` is written
`[]<>(chunk = None)`, which is the same because only `Decode` empties `chunk` and
nothing else can prevent it). `link`: both threads run, the main loop comes
around to each of its operations, and a transfer ends, by its time-out if by nothing else;
a device that is plugged in does not refuse to be opened for ever (strong fairness of
`Open`, which `connect` tries again every five seconds). This last one is an assumption
about the PC and the device, not the code's; nothing obliges the device to send or to be
plugged in. `mc3p`: the main thread runs and
the converter is triggered for ever. `elring`, `abf_drop` and `hostsim` check safety and
state no fairness.

Deadlock is checked in `elring` and `scomm`. The other systems stop, when the bound
on bytes, frames or time is used up and everything has been handed over, or, in `mc3p`,
when the calibration is over.

## 4. Findings

The two violated runs are disagreements between the code and what its comments and
headers say; PROJECT.json quotes both sides. More were met while modelling and are not
runs, beside those in the table above:

- A virtual timer restarts its period from the step it was called in (`platform.cpp:85`,
  whose comment says "advance by one period"). With the periods of 40 and 250 us the
  firmware asks for, the slow loop runs every 280 us within a slice of 1 ms. `KeepsRate`
  says by how much a period may be exceeded.
- 128 samples of 12 bits are summed in 16 bits (`el_mc3p.c:831`): of a channel with an
  average above 511, as a current sensor at half its range has, the offset is no average,
  although `el_mc3p.c:788` says "the reading is your offset". `OffsetsAreMeans` says what
  is stored: the sum modulo 2^16, divided.
- A decimation of 256 becomes 0 in the `uint8_t` of `update_decimation`, is shown as 0 and
  takes one sample in 256.
- `el_usbxch_write` returns 0 for "all taken" and `len` for "nothing taken"
  (`el_usbxch.c:83-86`); `el_usbxch.h:54` says "Number of bytes actually enqueued".
- A window of 0 bytes armed while the ring was full is not armed again when the
  main loop makes room; `el_usbxch.h:105` says that update "Prepares OUT endpoints
  for next reception".
- `USBD_XCH_GetRxStorage` arms the span up to the end of the storage even if it is
  shorter than a packet (`el_usbxch.c:214`).
- A payload that is refused after its header makes the decoder take the next frame's
  bytes for the payload; its sync byte resets the decoder (`ABFStream.cpp:129`) but is
  then stored all the same, and a frame that was never sent can be delivered.
- `Writer::reset` empties the stream and keeps the marks (`DAQCodec.h:114`);
  `reserve` is a `uint8_t` and is 0 for 16 channels (`:108`), which the reader's
  `scratch_buf` does not admit anyway (`:388`).
- With preemption, the LQ_ID case reached by falling through from REST0 can leave
  the sub-stage at `Active_Sampling` in REST0, which has no case for it: the
  commissioning then stays in REST0 for ever.
- `setControlMode(Idle)` leaves the bridge switching with its last duty, because
  `Foc_onExit` and `SComm_onExit` are empty; README.md:53 calls Idle "Safe state,
  motor disabled".
- The offset is added to a reading where it should be taken off, and the addition is
  one of narrow integers (`el_mc3p.c:800-802`).
- `el_mc3p.h:278` says that writing a space vector "updates ADC synchronization";
  `mc3p_adc_mode` is not called by it, and the ranks stay those of the last stage of the
  calibration, VSBUS, VSU, VSV and VSW, when `read_sync` reads its currents from ranks 1
  to 3 (`el_mc3p.c:685-688`).
- A vector of zero length has no sector: the branch marked "should not happen"
  (near `el_mc3p.c:581`) is taken, and `read_sync` leaves the currents as they were.
- On the device `daq_session.process` is called with no data (`sys.cpp:75`), so the
  discovery of README.md:98 is never answered.

## 5. Proofs

All theorems hold for every value of the constants that the modules' assumptions allow:
any capacity from 1 to 65535 (`uint16_t`), any positive packet size, any number of bytes,
resets, entries, unpluggings, samples, frames, timers or calls; any set of payloads of
fewer than `ByteMod` bytes, any checksum without the value 0.

| Module | Theorem | Statement |
|---|---|---|
| `ElRing_proofs` | `Inductive` | `Spec => []IInv` |
| | `TypeCorrect` | `Spec => []TypeOK` |
| | `ReadsAreInOrder` | `Spec => []ReadsInOrder` |
| | `HoldsStream` | `Spec => []RingHoldsStream` |
| | `WritesAreSafe` | `Spec => []ReservedSlotsAreFree` |
| | `RefinesFifo` | `Spec => ImplementsFifo` |
| `UsbxchTx_proofs` | `Inductive` | `~Prompt /\ MaxResets <= 1 /\ Spec => []IInv` |
| | `TransfersStayIntact` | the same for `InFlightIntact` |
| | `BusyIsExact` | the same for `BusyTracksTransfer` |
| | `RefinesPipe` | the same for `ImplementsPipe` |
| `UsbxchRx_proofs` | `Inductive` | `Spec => []IInv` |
| | `WindowsAreFree` | `Spec => []WindowIsFree` |
| | `RefinesPipe` | `Spec => ImplementsPipe` |
| `AbfStream_proofs` | `TypeCorrect` | `Spec => []TypeOK`, whatever is refused or shared |
| | `Inductive` | `Whole /\ Spec => []IInv` |
| | `FramesAreInOrder` | `Whole /\ Spec => []DeliveredInOrder` |
| | `ErrorsAreReal` | `Whole /\ Spec => []TooLongAreReported` |
| | `LossInductive` | `Clear /\ Spec => []LossInv` |
| | `LossStaysLocal` | `Clear /\ Spec => []LossIsLocal`, whatever is refused |
| `DaqLink_proofs` | `Inductive` | `Spec => []IInv` |
| | `ThreadsAreSound`, `ConnectionsAreServed`, `NothingIsEverRepeated`, `LossesAreReported` | `Spec => []ThreadIsSound`, `[]ConnectedIsServed`, `[]NothingRepeated`, `[]LostIsReported` |
| | `ReserveNeverOverrun` | `CodecSpec => []ReserveSuffices` |
| | `CodecInductive` | `CodecSpec /\ []Agreed => []CodecInv`, from `MarksSuffice` and `BlockSuffices` |
| | `BlocksTrue`, `BlocksOrdered`, `ResidualsFit` | from the same, `CodecSpec /\ []Agreed => []BlocksAreTrue`, `[]BlocksInOrder`, `[]BlocksFit` |
| `Motor_proofs` | `OffsetsAreOwn` | `CalibSpec => []OffsetsAreMeans` |
| | `FittingOffsetsAreMeans` | `CalibSpec => []MeansThatFit` |
| | `TypeCorrect` | `Spec => []TypeOK`, preempted or not |
| | `Inductive` | `~Preempt /\ Spec => []IInv` |
| | `ResultsAreOwn` | the same for `ResultsFromOwnSamples` |
| | `StagesAreInOrder` | the same for `StagesInOrder` |
| `HostSim_proofs` | `TimersKeepTheirRate` | `Spec => KeepsRate` |
| | `NoTimerIsForgotten` | `Spec => []EveryTimerIsCalled` |
| | `WindowsAreEven` | `Spec => []WindowIsEven` |
| | `TriggersNeedFalls` | `Spec => TriggerNeedsFall` |

The hypotheses are restrictions of the table above, without which the statements are
false: `~Prompt`, `MaxResets <= 1`, `~Preempt`, that no payload is refused after its header
and the bytes read have a buffer of their own (`Whole`), and that they have one and that no
payload has `ByteMod` - 1 bytes and no zero, whose code would be a second zero in the header
(`Clear`). For the codec: a behaviour in which no residual that was put into the stream is
one of those from -128 to -120 or from 120 to 127 (`[]Agreed`, which speaks of what was
sent and not of the samples: any set of samples is allowed, and residuals of vectors that
were refused or that open a block do not matter); that there is a mark for every control
code the ring of bytes has room for (`MarksSuffice`); and that a block has room for every
vector up to the next resynchronisation (`BlockSuffices`). The last two are sufficient and
not necessary; the configurations of `test_Codec.cpp` satisfy them, with 2048 marks for
streams of 2048 and 8192 bytes and blocks of at least 1024 vectors for periods of at
most 255. `HostSim` and `Mc3pCalib` need no hypothesis: the periods of the timers need not
divide one another, and sums may wrap around. `MeansThatFit` says of each channel whose own
sum fits, whatever the others read, that its offset is an average.

*ElRing.* None of the properties is inductive alone: that a copy is right depends on
what a reservation read several steps earlier, from an index that has moved since. `IInv`
adds what each of these readings still implies afterwards. The reader only frees
room, so a count that fitted goes on fitting (`WantFits`); the writer only adds
bytes, so a count that was there stays there (`AvailStays`). A side of the
comparison can only be left by a wrap: after "the reader is behind me" it still
is (`SideKept`), after "the reader is ahead of me" it either still is or has
wrapped, and then the room to the end is enough for the reservation; dually
`BelowKept`. From these follows that the two spans are where they should be
whatever mixture of readings they were computed from (`WriteSpansFit`,
`ReadSpansFit`), and `Filled` and `RingHoldsStream` carry the contents.

*UsbxchTx.* The running transfer is always the first span of the unread bytes
(`TransferKept`), of which `gone` have left; the ring holds the stream from there
(`RingHoldsStream`); and its length is in `span` until the main loop has stored it, in
`release` afterwards (`HandedOver`). `QuietUntilConfigured` is why one bus reset does no
harm. A byte that leaves is then the next of the stream, and a completion releases
exactly what left, which makes every step one of `Pipe` or a stutter.

*UsbxchRx.* What the endpoint has filled of its window are the bytes the host sends next
(`WindowFilled`), in room that no read takes away (`WindowIsFree`: reads only add to it),
so that the commit publishes exactly these.

*UsbxchLibusb.* `MainAlone` says which places of the main thread exclude a running I/O
thread or an open handle, `FlagsTell` what the two flags say in each place of the I/O
thread while the main thread is not between them; from the two the thread and the
connection are sound. For the bytes, `FullPackets` bounds a transfer (only full packets
keep it going, and its size is a multiple of theirs) and `OrderKept` says that the bytes
read, in the ring and in flight are in order and none newer than the device has sent.
`LostIsReported` counts: every byte sent is read, in the ring, in flight, or in one of the
three losses.

*AbfStream.* That the next frame is delivered says nothing of the bytes in between, so
`IInv` says where they are. The frames begun and not handled yet (`Open`) lie one behind
the other in the bytes that are left, byte for byte as `encode` writes them, and outside
of them there is no zero (`LaidOut`): so a decoder that hunts for the next zero stops at
the beginning of a frame, also behind the rest of a frame that was too long and behind a
payload whose header was refused. The frames begin at positions relative to the byte
processed next, which all move by one when it is (`LayoutShifts`) and stay when a read moves
bytes from the transport into the buffer. What the decoder holds is the beginning of the
first open frame (`Decoding`): in the payload, the bytes stored are those of the frame with
their zeros, and `nextZero` is the distance to the next zero. That distance falls by one
with each byte that is not a zero and, at a zero, is the byte on the wire (`CodeStep`);
stated position by position, this needs no induction over the payload, and it covers the
code that wraps to 0 for a payload of 255 bytes without a zero. `EncodedPayloadIs` says
that a payload on the wire has no zero: a code is only 0 where it is in the header. Each
frame handled is delivered if it fits and reported otherwise, exactly as `due` tells
(`DueListed`, `InTurn`, `NextDue`), from which the order and the number of errors follow;
when no byte is left no frame is open, and the number is exact.

With payloads refused behind their headers (`LossIsLocal`), a header is no longer followed
by its payload, and what the decoder holds may be no frame at all. `LossInv` therefore
speaks of a trail: every header the transport took, with the place of its first byte counted
from the first byte ever, its frame and which of `sent` it became, or 0 (`TrailIs`). The
bytes that are left are those of the headers and payloads of the trail, and every zero
among them begins one (`Lies`); this is where `Clear` is needed. Behind a header without
its payload the decoder is lost, but no further than up to the next sync byte, which resets
it (`LostBehind`): a decoder that hunts is never inside a frame that follows a whole one and
fits, so it finds each of these (`Tracks`) and hands it out. That they are among those
delivered, in order, is a function from their places in the trail to places in `delivered`
(`Handed`), to which each frame that ends adds a value above the others; frames put together
from pieces only add to `delivered`. When no byte is left, every frame that is owed is
over.

*DaqCodec.* `ReserveSuffices` needs no hypothesis: a vector is taken only if what its codes
can need is free behind it, whatever the codes are (`RoomInv`). That a block is true
depends on bytes that were pushed many steps before it is handed out and were cut anywhere
in between, so `CodecInv` follows every code on its way. The codes put into the stream lie
one behind the other, each being the code of a residual of its vector, of the writer's
state, or of a flush (`LogIs`); the stream shows the codes from the place of its tail on,
and no control code has the tail within (`StreamIs`); the marks stand on the control codes
that are left, each with its size (`MarksAre`), and are never overwritten because control
codes are `ResyncSize` apart and there is a mark for each; the piece read and not decoded
is the bytes before the tail (`ChunkIs`). The reader has rebuilt exactly the codes before
it, possibly up to the middle of a residual's bytes: the residuals of the vector begun, the
state of each channel and the samples of the block (`ReaderIs`). Its sums and the writer's
differences cancel in 16 bits, which is proved number by number, and a code of one, two or
three bytes is taken for what it stands for, which is where `Agreed` is used, of the one
code being decoded. The blocks
handed out end before the one being filled begins (`BlocksBefore`). What the two recursive
functions of the model return, the joined codes of a vector and the reader behind each byte
of a piece, is an induction over their domain, a finite interval. The library's induction
theorems are not needed for it: the numbers for which a statement holds are a set, which
has all of the interval if it has the first and with each the next (`Counting`, from the
least number that is not in it), and a value given step by step exists (`Recursion`).

*SComm.* A stage that measures counts each sample and starts from cleared sums
(`SumsAreOwn`); a case that falls through leaves the next one with nothing due
(`FallsThrough`), which is what preemption breaks.

*Mc3pCalib.* The interrupt sums only while the main thread waits (`OnlyWhileWaiting`),
and then the four ranks are those of the stage and the bridge is low
(`SequenceOfStage`). So after n samples each sum is n readings of its own channel, cut to 16 bits
(`SumsOfStage`), and the quotient is one of those `AveragesOf` allows; where the sum fits it
lies between two readings.

*HostSim.* A timer called while steady is overdue by less than a step, and not at all as
soon as the tick thread has looked at it (`OnTime`, `LookedAt`); as long as the step has not
changed since (`paced`), it is a whole number of steps behind. So it is called at the first
step at which its period is over. The step fits every timer not changed in the slice
(`StepFits`), because the callback is stored before the least period and last of a timer's
fields (`StoredInOrder`).
For `NoTimerIsForgotten`, a timer that was never called is due at every look, because the
difference to its `last` wraps (`LastKnown`); one that was called last before the slice is
due by the end of it, if its period is not longer than the steps of the slice together
(`SliceTimes`, `StillWaits`). For `WindowsAreEven`, the samples passed over since the last
one taken are counted twice, by `decimation_counter` and by the calls of timer 0, which are
an `Interval` apart; as long as neither the user interface nor a new step changes anything in
between (`Calm`), the two counts agree (`Counted`), a counter at 0 being one that goes all
the way round (`Remaining`). For `TriggersNeedFalls`, `hystTrig` is down only if a sample below the lower
threshold came since the last trigger (`Rearmed`), wherever `write` stands and whatever the
other thread stores.

The arithmetic of indices is in lemmas about `Advance`, `Size`, `Free` and the spans
(`RingIndex_proofs`), cited by name; each invariance proof has one step per action. TLC
checks each `IInv` of the ring, of both directions of the link and its PC side, and of
`SComm` itself, in the runs `elring`, `tx`, `rx`, `link` and `scomm`. Those of `AbfStream`
quantify over functions and sequences of unbounded places, which TLC cannot enumerate; that
of `DaqCodec` is stated in the module of the proofs, which no run loads. What follows from
them is checked by `abf`, `abf_drop` and `codec`.

With this, every safety invariant and action property of a passing run is stated by a
theorem. Only model-checked are the liveness properties, `PendingIsSent`, `ReceivedIsRead`,
`Commissions`, `AllDelivered`, `EverythingArrives`, `BackpressureEnds`, `Recovers` and
`CalibrationEnds`: fairness and ENABLED are out of the prover's reach.

## 6. Not modelled

PROJECT.json lists every component with its status. The reasons:

- *Never run.* `Serial.hpp` is included by nothing, `TcpClient.hpp` is not used by the main
  loop; `mempool` is used by nothing. EcoTool's `DAQSessionAPP.h` is constructed and called by
  `EcoTool.cpp` (every frame received is processed, and every five seconds a discovery is
  requested), but the device answers none (`sys.cpp:75` gives it no data), and its constructor
  names one of `daq::Session` that is not declared. `DAQStream` and `IDV` get no data on the device, so no field is ever
  yielded and no discovery answered; `PosDriver` is always in its override mode;
  `write_reserve` of `ring.h` does not compile and is instantiated by nothing;
  `setSetpoint` changes a number once before the loop.
- *Numeric.* Current controllers, start-up table, motor and inverter models, tables.
- *Register access.* The rest of `el_mc3p.c` and the other STM32 drivers; `el_uart`,
  `el_usbcdc` on the host are stubs.
- *One state that is never left.* The host's `TCPServer` accepts one client.
- *External.* The USB stack's endpoint 0, the HAL, libusb, the PC's operating system.
- *Interleaving of the codec's two sides.* Nothing in the firmware calls the codec yet;
  its tests have one thread. Which side would preempt the other is not decided.

## 7. Plan

1. `DaqCodec` with its two sides interleaved, as soon as the firmware calls it.
2. The DAQ session (`DAQStream`, `IDV`), as soon as the super-loop gives it data;
   composed with `AbfStream`'s promise as its channel.
