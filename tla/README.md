# Alex in TLA+

Alex is a small tele-operated robot. An operator types commands on a laptop;
a TLS client sends them to a Raspberry Pi on the robot; a server there passes
them over a serial line to an Arduino, which drives the two wheels, counts the
wheels' encoder ticks and stops a move when its distance or angle is covered.
Answers go back the same way. This directory holds TLA+ modules of the parts
of that system that are hard to test, the TLC configurations that check them
on small instances, and proofs of their main properties for every value of the
constants.

## The system

| Part | Source | State it keeps | Operations | Talks to |
|---|---|---|---|---|
| Firmware | `src/final_alex.ino` | `dir`, the goal (`deltaDist`, `newDist`, `deltaTicks`, `targetTicks`), the PWM registers, the tick and distance counters | `loop()`, `handleCommand()` and the handlers it calls; the interrupts `leftISR`, `rightISR` | the Pi over the serial line; the wheels |
| Packet framing | `src/ssl/serialize.cpp` | the statics of `assemble()`, `_privateBuffer` | `serialize`, `deserialize` | linked into the server and the firmware, at both ends of the line |
| Pi server | `src/ssl/tls-alex-server.cpp`, `make_tls_server.cpp`, `tls_server_lib.cpp` | `networkActive`, `tls_conn`, the TLS sessions | the listener thread, one `worker` per connection, `uartReceiveThread` | clients over TLS; the Arduino |
| Laptop client | `src/client/` | `networkActive`, `_exitFlag`, one TLS session | `readerThread`, `writerThread`, `_client_loop` | the server; the keyboard |
| Serial driver | `src/ssl/serial.cpp` | a file descriptor | `serialRead`, `serialWrite` | the line |
| Lidar reader | `src/alex/W7S1/w7s1.cpp`, with the driver `rplidar_driver.cpp` of `src/rplidar_sdk_v1.5.7` | `_isScanning`, the cached scan, `_lock`, `_dataEvt`, the last capsule | `main()`: `startScan`, `grabScanData`, `stop`; the cache thread | the lidar over a serial port; a file the map is plotted from |

What is hard about each part, and what makes it correct:

* **Firmware.** Interrupts fall between any two instructions of the main
  program, also between the byte loads of a 32-bit counter. A move must stop at
  its goal, not before and not after; the motors must run the way `dir` says,
  because the interrupt handlers choose their counters by it; the CPU must not
  be put to sleep, which stops the PWM timers, while a motor runs.
* **Framing.** `read()` returns chunks that have nothing to do with packets,
  and the line may drop bytes. Each packet must come out once, whole and in
  order, and no static buffer be overrun.
* **Server.** Three kinds of threads share two variables without a lock.
  `tls_conn` must not point to a session that was freed, the network must not
  be taken down without cause, a worker whose client has gone must end.
* **Client.** Two threads and a loop share one session, and each frees it, which
  must not happen while the client runs. The writer stores a variable it never
  assigned in the flag by which the reader lives and commands are sent: no
  answer may be lost or shown twice without cause, an operator who only watches
  must not be cut off, and the program must end when the server does.
* **The line end to end.** Both of the Arduino's rings are shorter than a packet,
  and the firmware is busy for 75 ms at a time, or waits for the transmit ring; a
  byte may arrive just before the CPU goes to sleep. An operator who waits for
  each answer must lose no byte, and get each command carried out and answered
  once.
* **Lidar reader.** A thread of the driver reads the lidar's samples, some of
  them lost or late, and publishes each turn in a slot that the main thread
  empties, stops and starts again. No turn may be published without waking who
  waits, grabbed twice, out of order or in parts; no array overrun; and neither
  thread wait for ever.

`PROJECT.json` lists each of these hazards at its line, with the properties
that cover it, or why none does.

## Modules

| Module | What it is |
|---|---|
| `Framing` | Abstract: packets sent are handed over once each, in order, in the end |
| `Assembler` | `serialize.cpp`, byte by byte; implements `Framing` |
| `AssemblerProofs` | Theorems about `Assembler` |
| `Motion` | The firmware's main program and its two encoder interrupts |
| `MCMotion` | Sets of command packets for TLC |
| `MotionProofs` | Theorems about `Motion` |
| `Server` | The server's listener, workers and UART thread |
| `ServerProofs` | Theorems about `Server` |
| `Client` | The client's loop, reader and writer, and its process |
| `ClientProofs` | Theorems about `Client` |
| `Dialogue` | Abstract: each command is carried out once, and its answer is received only then and before the next is given |
| `SerialLink` | The Pi's packets, the line, the Arduino's two rings and the firmware's `loop()`, in time; implements `Dialogue` |
| `SerialLinkProofs` | Theorems about `SerialLink` |
| `Slot` | Abstract: the last scan nobody has grabbed; a grab takes it, waits only if there is none, and what comes as its time runs out is kept |
| `Lidar` | The loop of `w7s1.cpp` and the driver's cache thread; implements `Slot` |
| `LidarProofs` | Theorems about `Lidar` |

### Assembler

A byte is named by its position in the stream the sender wrote, so what a
buffer holds says exactly which bytes were copied there. `Receive(len)` is one
call of `deserialize()` with a chunk of `len` bytes: all of `assemble()` (the
leftovers, the overflow into `leftoverBuffer`, the copy) and, when it completes
a packet, the tests of the magic number, of `dataSize` and of the checksum.
`CopyCount`, `Fills`, `BytesLeft` and the others are the local computations of
`assemble()`, in its order. `Lose` drops a byte from the line; `Overrun` is a
chunk longer than the caller's `buffer[PACKET_SIZE]`, after which nothing is
followed. A checksum over the bytes of two packets may match or not. A
magic number in the payload by chance is left out: the bytes FF FE FD FC are no
command, count or text that Alex sends.

`Framing` is implemented with `next <- frameStart`: `Assembler!Receive` is
`Framing!Deliver` when it completes a packet and a stutter when it does not.

### Motion

One action for each step of the main program another step can fall between:
`Aim` and `Aimed` are the two halves of the load of the counter in
`newDist = forwardDist + deltaDist`; `Face` sets `dir`; `Drive` writes one pin;
`Halt` writes one pin of `stop()`, from a command or from `loop()`; `Clear` is
one assignment of `clearCounters()`; `Check` and `Arrive`/`GoOn` are the two
halves of the load in `loop()`'s comparison. `leftISR` and `rightISR` run
to their ends between any two of them. `Byte` is the number of values of the
byte that is loaded first, so that a carry between the loads is the torn value
it is on the AVR. Float arithmetic is done in thousandths and truncated where
the code converts to `unsigned long`. `pwm` values are truncated to the
register they are written to. Two halves of a load stand for four byte loads:
one carry, which is what the properties tell apart.

`moved`, `logged`, `mark`, `disturbed` and `issued` are history: what the
wheels really did since the move began, what the firmware could know of it.

### Server

Every access to a variable the threads share, and every call that blocks or
fails, is an action. A worker goes `test`, `read`, `set`, `handle`, `send` and
round again, or `reset`, `exit`, `done`; the UART thread goes `read`, `active`,
`conn`, `write`, `set`. A client's connection is `away`, `queued` (for
`accept()`), `open` or `closed`; a session is `none`, `live` or `freed`. What
the code leaves undefined is a choice: `count` when there is no write
(`IfConn`), the result of a write to a freed session or to a client that has
gone (`Written`), and whether the compiler reads `tls_conn` once or twice
(`Write`). Such a write may also be the end of the process (`KilledWriting`): of
SIGPIPE, which the server neither handles nor ignores, or of the memory it
uses; so may `SSL_accept` with a client that leaves during the handshake
(`KilledAccepting`). Then nothing happens any more (`Running`). `main()` sets
`networkActive` before the listener starts; `Init` is
the state after it. `AnswerHello` is the one answer nobody asked for: the
firmware ignores a HELLO, but answers a garbled one with BAD_PACKET.

### Client

The same grain as in `Server`: each access to `networkActive` or `_exitFlag`
and each call that uses the session is an action. The client loop goes
`resolve`, `connect`, `verify`, `writer`, `reader` (the thread it starts next),
`wait`, `free`, `done`; the reader `test`, `read`, `set`, `show` and round
again, or `stop`, `exit`, `done`; the writer `key`, `active`, `write`, `set`
and round again, or the same end. `Main` is `main()` seeing `_exitFlag`: it
returns, `exited` becomes TRUE and every thread stops where it is.
`WriterSet` stores an arbitrary truth value, as `c` in `sendData()` is never
assigned. `HostUnknown` and `Refused` are the two early uses of
`_closeAndExit`, which despite its name does not exit. Once a session is
used that is not live (`misused`), a read of it may return anything; a crash
would only remove behaviours. Which key is pressed matters only as far as the
writer sends, stops or does nothing, so parameters are left out. `handleNetwork`
only prints.

`wrote`, `raised`, `lowered`, `repeated` and `dropped` are history: what
the writer's stores did to the flag, and what the reader's second look at it
did to the answers.

### SerialLink

Bytes are counted, not named: `backlog` on the Pi's side, `rx` in the receive
ring, `held` in `assemble()`; `pending` lists the packets they belong to, and
`air` and `tx` the answers and their bytes that have not left. A `Tick` is
the time of one byte at 9600 baud in both directions: it moves a byte each way,
counts `busy` down and wakes a sleeping CPU if a byte came. While the firmware
waits (`delay()`, a full transmit ring, sleep) Ticks follow one another; while it
does not, at most one falls in a pass of `loop()` (`late`): 16,000 CPU
cycles pass in the time of a byte, and a pass has no loop longer than a packet.
A step of the firmware is `Poll` or `Assembled` (`readPacket()`, and
`handlePacket()` when it has a packet), `Write` and `Written` (an answer goes
to the ring, or all have), `Colored`, `Rest` (the end of `loop()`, with
`sleep_cpu()`). `Nudge` is any interrupt that is not a byte from the Pi; a new
pass of `loop()` begins with it.

`handleCommand()` sends the OK of a movement or STOP first, and
`Serial.write()` keeps it until the ring has room; only then does it call
`forward()`, `stop()` and the like. So such a command is `doing` until
`Written`, where it is carried out; the statistics are answered as they are
handled.

What the bytes are worth is `Assembler`'s subject: here, while `lost = 0`, a full
packet is the first of `pending`, and after a loss it may be refused or be
anything. `boot` is how long after the HELLO `setup()` is still running;
`hurried` whether the operator ever gave a command before the last one was
answered. `Trusted` says neither went wrong; without it nothing is promised,
and `Dialogue` has the same variable.

`Dialogue` is implemented with its own three steps: `Ask` is `SerialLink!Ask`,
`Execute` is `Assembled` with `GET_STATS` or `CLEAR_STATS` and `Written` with a
movement or STOP, `Hear` the Tick that brings the last byte of the last answer.
That a command whose answer is sent first is still carried out before the
operator has the answer is a matter of the rings: the last bytes of the answer
are in the transmit ring when `Serial.write()` returns.

### Lidar

The main thread goes `disable`, `join`, `command`, `wait`, `check`, `lock`,
`copy`, `show` and round again, or `stop`, `rejoin`, `ended`; the cache thread
`first`, `test`, `read`, `loop` and, when a turn begins, `lock`, `copy`, `signal`
and back to `loop`. In `wait`, `Event::wait()` finds the event set (`WaitOK`) or goes
to `blocked` (`WaitBlocks`). From there it returns because the event is set
(`WaitOK`), because its time ran out (`WaitTimesOut`, whether or not the event has
been set in the meantime: it does not look again), or because the wait failed
(`WaitFails`). Each access to `_isScanning`, the event, the lock or the cached
scan is an action; so is each sample read. `Disable` and `Join` are
`_disableDataGrabbing()`, which `startScan()` reaches through
`checkExpressScanSupported()` and `getDeviceInfo()`.

`express` is the mode `startScan()` finds. A sample is its number in the
lidar's stream, and so is the node made of it, with its sync bit; a node nobody has
written is -1, with any sync bit. `ReceiveNode` and `NodesTimeOut` are
`_waitScanData()`, which reads batches and gives up in two ways, one of which
leaves `count` as it was. `ReceiveCapsule` is `_waitCapsuledNode()` with
`_capsuleToNormal()`: the nodes come out one capsule late, and the first of a turn is
known by the angle that falls; a capsule's 32 nodes are one here. `Lose` is a
sample of which bytes were dropped, `PortFails` an error of the port. `next'` in
`Start` is any sample of the next turn, as the lidar is not read meanwhile.

`harmed` is history: the samples lost, or dropped because the next came late; and,
once a read of single nodes has timed out with old nodes in `local_buf`,
all of them. `slot`, the refinement mapping, is the cached scan once it has been
announced: while its event is set, or the main thread is on its way to it.
`waits` of `Slot` is the main thread being `blocked`.

An operator with the comment "Mutant" is a wrong version of the definition
below it, kept to show that the named properties would notice: no
specification uses it.

## Runs

`tlc -config X.cfg M.tla`; every bound is a constant of the module.

| Run (cfg, module) | Bounds | States | Shows |
|---|---|---|---|
| `Assembler_lossless` (Assembler) | packets of 5 bytes (2 of magic, 1 of size), chunks of 1 to 5, 5 packets | 951 | `TypeOK`, `ImplementsFraming` with liveness |
| `Assembler_lossy` (Assembler) | chunks of 1 to 6, 4 packets, up to 6 bytes lost | 184,214 | `NothingWithheld`, `SizeMisreadOnlyByLoss`, `LockedOutUntilRealigned` |
| `Motion_safety` (MCMotion) | 3 commands, 4 ticks a counter, a byte of 2 values | 3.5 million | the six safety properties of `Motion` |
| `Motion_liveness` (MCMotion) | 2 commands at half speed, 4 ticks, no carries | 122,000 | `BoundedMoveStops` |
| `Motion_short_move` (MCMotion) | a move of 1 cm | | `OnlyZeroRunsForEver` is violated |
| `Motion_turn_speed` (MCMotion) | the client's turns | | `SpeedIsPercentage` is violated |
| `Server_threads` (Server) | 2 clients, 2 commands, up to 2 answers each, and the HELLO's | 538,000 | `TypeOK`, `TlsConnLive`, `MisusedOnlyIfGone`, `NetworkFallsOnlyByEnd`, `DownIsForGood`, `DiesOnlyByEnd`, `ClosedIsFreed`, `QueuedIsAccepted` |
| `Server_one_connection` (Server) | the same | | `OneConnection` is violated |
| `Server_freed_session` (Server) | the same | | `WritesToLiveSession` is violated |
| `Client_threads` (Client) | 4 keys, 3 answers | 503,000 | `TypeOK`, `MisusedOnlyAtEnd`, `WatcherStaysConnected`, `ShownAsRead`, `MuteUntilAnswer`, `ServerGoneEnds` |
| `Lidar_threads` (Lidar) | turns of 2 samples, 10 capsules or 6 nodes in batches of 2, 1 sample lost or dropped, arrays of 3 and 2 nodes | 1.8 million | `TypeOK`, `NoScanMissed`, `OneStart`, `WholeUnlessLost`, `NeverTwice`, `ReaderGoesOn`, `ImplementsSlot` |
| `SerialLink_dialogue` (SerialLink) | packets of 12 bytes, rings of 5, `readColor()` of 6, up to 6 bytes of boot, 2 commands | 554,000 | `TypeOK`, `NoLossIfTrusted`, `SleepsOnOneByte`, `AnsweredUnlessStranded`, `ImplementsDialogue` |

Why the bounds are enough. A packet of 5 bytes has every kind of byte (magic,
size, payload) and room for two chunks in each; the counters of `assemble()`
return to a state they have been in after every packet, so five packets see
every alignment of chunk and packet, and six lost bytes are one more than a
packet, the first amount at which the stream is realigned and lost again. Three
commands are a move, a disturbance and a second move; four ticks cover two
centimetre boundaries and two carries. Two clients suffice for one thread to
overwrite what another stored, and two commands for one client to be heard
after the other. Four keys are two commands, an unknown one and `q`, in any
order, and three answers are one read, one dropped and one left in the session.
The sizes of `SerialLink` keep the order of the real ones (a ring is less than
half a packet, `readColor()` a little longer than a ring, boot from none to more
than a ring); its second command meets a firmware that sleeps, moves, or still
reads the colour. Three commands pass as well, in 3.3 million states. Ten
capsules are a whole turn before a restart and one after it, a turn being known
only when the capsule after the next one's first is there, and one loss at
their seam makes two turns one that `local_scan` has no room for. Turns of 3
and two losses pass as well. Every invariant and every action property of the
passing runs is also proved, without the bounds.

Deadlock is not checked where the environment may fall silent for good:
the sender has sent its last packet, all clients have gone, the operator's
process has ended, he gives no command, or the lidar reader has ended.

### Properties

* `NothingWithheld`: what the receiver holds is less than a packet, and each
  byte it was given is in a packet, a buffer or lost.
* `ImplementsFraming`: the refinement, with its liveness.
* `LockedOutUntilRealigned`: an undisturbed packet is accepted exactly if the
  bytes dropped so far are a multiple of the packet size.
* `DriveMatchesDir`: outside the handlers the driven pins are among those of
  `dir`: no wheel is fed both ways.
* `NoMissedStop`: when `loop()` lets a move go on, its wheel had not covered
  what was asked; `NoEarlyStop`: when it ends one, the counter was at the goal.
  The exceptions (counters cleared, a carry between two loads) are what the
  code really does, and the properties say that there are no others.
* `DistanceFollowsTicks`: interrupts during `clearCounters()` do not bring an
  old distance back, because the ticks are cleared first.
* `BoundedMoveStops`: a move whose goal the wheels can reach ends with all four
  motor pins at 0, unless another movement command takes its place. That
  `loop()` has taken the goal away is not enough, and clearing the counters
  half-way only makes it longer.
* `SleepsOnlyAtRest`: also why the branch of `loop()` for `dir == STOP` with a
  goal set (lines 1021-1026) is not modelled: it cannot be reached.
* `TlsConnLive`: `tls_conn` is NULL or the live session of the client heard
  last. The variable is never dangling; it is the *copy* of it the UART thread
  holds between test and call that is (`WritesToLiveSession`).
* `MisusedOnlyIfGone`: how far that goes. An answer can only end up with NULL or a
  freed session, and only once a worker has left its loop; a session whose
  handshake still runs is never written to.
* `NetworkFallsOnlyByEnd`: the uninitialised `count` is harmless as long as no
  client goes and the HELLO is not answered, since an answer then has a
  `tls_conn` to go to.
* `DiesOnlyByEnd`: the process is killed by a write or by a handshake only if a
  client has left, or the HELLO was answered: while every client stays and only
  commands are answered, no write finds its session or its peer gone.
* `DownIsForGood`: once down, `networkActive` is never raised again: the server
  must be restarted.
* `ClosedIsFreed`: a worker whose client has gone frees its session, although
  other threads may raise `networkActive` behind its back, unless the process is
  killed by then.
* `QueuedIsAccepted`: if every handshake ends, every client in the queue is
  accepted, unless the process is killed: a client before it can keep it waiting
  only by being silent in its handshake or by taking the process along. The
  premise is needed, as the listener does the handshakes itself; and so is the
  exception, as a client that has left may end the process with SIGPIPE.
* `MisusedOnlyAtEnd`: three threads free one session, and still none of them
  finds it freed before one has stopped the client, because each sets
  `_exitFlag` first; but for the two early calls of `_closeAndExit`.
* `WatcherStaysConnected`, `ShownAsRead`, `MuteUntilAnswer`: what the store of
  an uninitialised value can do, and what it cannot. Until the first command
  nothing cuts the operator off; an answer is dropped, or shown again, only by a
  store of the writer in a window of the reader, one for each; and once commands
  are dropped, the next answer is all that can change it.
* `ServerGoneEnds`: the reader lowers the flag, the writer may raise it, and the
  reader still leaves its loop in the end.
* `NoLossIfTrusted`: `loop()` looks at a ring shorter than a packet only now and
  then, and is away for longer than a ring in `readColor()` and in
  `Serial.write()`. No byte is lost to an operator who waits, because the
  answer is still leaving while the firmware is away: the transmit ring is full
  when `readColor()` begins. (With `GET_STATS` answered OK first, it fails.)
* `SleepsOnOneByte`, `AnsweredUnlessStranded`: the byte that comes between
  `readPacket()` and `sleep_cpu()` is not looked at. If it is the last of a packet
  the CPU sleeps on a whole command until something else wakes it; that
  is the only way to wait for ever, and it ends with the first move, after
  which Alex does not sleep.
* `ImplementsDialogue`: the line, the rings and the firmware together: a
  command is carried out once, its answer is received only after that although
  most answers are sent before, and both come before the next is given, also when
  the HELLO and the command are in the line at once.
* `NoScanMissed`: whoever waits for a scan that was published and not grabbed is
  woken, although the cache thread publishes before it signals, the event is
  taken before the scan, and nothing is reset when a scan is started again.
* `OneStart`, `WholeUnlessLost`: what `grabScanData()` returns begins a turn and
  has no other beginning in it, whatever was lost, late or left over; and it is the
  whole turn, in order, if nothing of that turn was lost.
* `NeverTwice`, `ImplementsSlot`: a turn left from before a restart, or published
  while the last was copied, is grabbed once and before every later one; a call
  goes away with nothing only if nothing was there when it came or nothing is
  there when it goes, although the event is now and then left set for a scan that
  is gone; a scan announced just as the time runs out is left to the next call.
* `ReaderGoesOn`: the main thread comes round to a new scan for ever or the
  program ends: no join and no lock keeps it.

### Fairness

* `Assembler`: `WF(Read)`: both receivers poll the line for ever.
* `Motion`: `WF(Main)`: `loop()` runs for ever. `WF` of each encoder interrupt
  while its wheel is driven: a wheel with a duty above 0 turns. This excludes a
  stalled wheel, for which the code has no provision: a straight move whose left
  wheel stands still never ends.
* `Server`: `WF` of every worker, and of the listener outside `SSL_accept`: the
  kernel runs a thread that is not blocked. Nothing is assumed of clients, and
  nothing of a handshake: `SSL_accept` blocks for as long as a client says
  nothing. The properties need no fairness of the UART thread.
* `Client`: `WF` of the process, the loop, the reader, and the writer once it
  has a key. Nothing is assumed of the operator, of CTRL-C or of the server.
* `SerialLink`: `WF(Firmware)`: the CPU runs when it does not wait. `SF(Tick)`:
  time passes; strong, because a CPU that is woken again and again (`Nudge`)
  leaves the state in which the next Tick is allowed, but not the time.
* `Lidar`: `WF` of both threads: every read and the wait for the event have a
  time-out, so a thread is only ever blocked by the other. `SF(Lock)`: the cache
  thread holds `_lock` for one copy in a turn and then reads for the length of a
  turn, so a waiting main thread gets it.

`ClosedIsFreed` holds under the bound on commands: with commands and answers
coming without end, other threads could raise `networkActive` each time
the worker is about to test it. `ServerGoneEnds` holds under the bound on keys for
the same reason: someone who types without end might raise it each time.

### What the runs refute

1. A move of 1 cm never ends (`Motion_short_move`): `dist /= 2`, then the
   conversion to `unsigned long`, leave `deltaDist = 0`, the value `loop()`
   takes for "no goal". The comment says only 0 means for ever.
2. A turn at full power is slower than at half (`Motion_turn_speed`): 1.4 times
   the duty wraps in the 8-bit register.
3. Two connections are served at once (`Server_one_connection`), which
   the comment on `networkActive` says it prevents.
4. The UART thread writes to a session that was freed
   (`Server_freed_session`), although `sslWrite` is documented to be called
   from the worker.

The models have three more disagreements with a comment in them, listed with the
hazards instead of a run of their own:

* The client's loop does not "join the threads": it frees the session while the
  reader is in `sslRead`, or the writer in `sslWrite`, and they free it again
  (the exception of `MisusedOnlyAtEnd`).
* Two turns are grabbed as one when the capsule at their seam is lost: the driver
  goes on with what it has, and `rplidar_driver.h` promises exactly one turn (the
  exception of `WholeUnlessLost`).
* `grabScanData()` may time out without setting `count` (`CheckFails`): a turn is
  published after the event was taken and before the scan is copied, so the
  next call finds the event and no scan. `w7s1.cpp` then prints 720 nodes that
  nobody has written, and ends.

## Proofs

`tlapm AssemblerProofs.tla`, `MotionProofs.tla`, `ServerProofs.tla`,
`ClientProofs.tla`, `SerialLinkProofs.tla`, `LidarProofs.tla`. The only assumptions are the named
ones on the constants: sizes are natural numbers with room for a payload,
commands have natural amounts and speeds, NULL is no client; and for the line,
that both rings are shorter than a packet and `readColor()` takes at most four
byte times less than the two rings hold. With the real numbers that is
76 + 4 <= 63 + 65. For the lidar: arrays are not empty, a turn has two samples
or more, and the caller has room for less than `local_scan` holds (720 < 2048).

* **Assembler.** `TypeOK` is not inductive: the index of the leftovers stays in
  range only because at most one of the two buffers is in use (`OneBuffer`) and
  both together hold less than a packet (`NothingWithheld`). These three are
  `Shape`, kept by any chunk that fits, with or without loss. `InStream` adds
  what the buffers hold while nothing was dropped: the stream from `frameStart`
  on. `Tiled` says the sender's packets lie end to end, so `frameStart` is
  where a packet starts. Together, `IInv`; from it follow `TypeCorrect`,
  `Withholding`, `SizeTrusted` and, with a lossless line, `FramingSafety`, the safety part of
  the refinement. `LockedOut` is about a line
  that drops bytes. `Gridded` says that the packets sent begin at the multiples of
  the packet size and at nothing else, and that the receiver's frames begin at
  multiples of it in what has come through; so the byte a frame begins with is the
  first of a packet just when the bytes dropped before it are whole packets
  (`FrameDisplaced`), and the magic number is in place just then
  (`MagicOfContiguous`). What is needed of remainders is proved from Euclid's
  division (`MultipleHasNoRemainder`, `MultiplesApart`).
* **Motion.** `Inv` adds to `TypeOK`, `DriveMatchesDir` and the distances:
  `Control` (which handler runs for which command), `Written` (the pins a
  handler has written so far hold their new values, so that after the fourth
  nothing of the last move is left), `Distances` (which of the two distances is
  tied to its ticks at each assignment of `clearCounters()`), `Unarmed`
  (nothing is armed before the first move) and `Sampled` (a counter only grows
  between the two loads of the comparison). `StopsAtGoal` follows from `Sampled`
  and the arithmetic of a load in two parts (`LoadedInParts`), for every `Byte`.
  `StopNotMissed` needs two more parts. `Setting`: the goal a handler sets is
  counted from what it loaded, unless a tick carried. `Followed`: while a move is
  undisturbed its counter holds at least its start and what the wheel had covered
  when the counter was last brought up to date, and for a straight move the ticks
  under that distance do too. The step from one to the other is `DistOfSum`:
  a distance computed from a sum of ticks is no shorter than the distances of its
  parts, although each is cut to whole centimetres. `LoadedNotBelow` says that an
  interrupt between the two loads never makes a growing counter look smaller than
  it was.
* **Server.** `Served` (one worker for a client, after its handshake, with a
  live session until `done`), `TlsConnLive` itself, `Prompted` (an answer on
  its way was asked for, or answers the HELLO) and `Caused`: either a client that
  had a worker has gone or the HELLO was answered, and that stays so
  (`EndedStable`), or nothing has begun to bring the network down. The heart is
  `WriteSucceeds`: in the second case the session the UART thread has in hand
  is live and open, whichever of the two values of `tls_conn` it uses.
  `NetworkStaysUp` and `ProcessLives` both follow from it.
  `NetworkStaysDown` needs no more than the types. `MisuseAtEnd` adds `Gone`: a
  worker that is done has freed its session, and an answer about to be written
  still has a `tls_conn` unless a worker has left. The type of `misused` alone is
  not enough, since NULL is reached by way of a second read of `tls_conn`.
* **Client.** `Started` (the threads run after the loop has started them, and
  set `_exitFlag` before they free) carries `LiveUntilEnd`: the session is live
  from the handshake until someone has set the flag or the certificate was
  refused. `Watching` adds that the reader holds the result `end` only if there
  was an end; `OneStoreEach` that a test about to go wrong has a store of the
  writer nobody has counted yet. `MutedUntilAnswer` holds of every step by itself.
* **The line.** Four parts. `OutwardOK`: the answers under way and the bytes of
  them agree, and there are at most two. `Conserved`: while nothing is lost,
  what is due, in the ring and in `assemble()` adds up to the packets not
  handed over. `Talk`: while the operator waits, all is answered, or the
  command is on its way and no answer is, or the answer is on its way and
  nothing of a command is (with each of the ways GET_STATS's two answers can be
  split between the handler and the line), counting a movement or STOP as
  carried out from when its answer is sent (`Carried`). That this makes no
  difference to the operator is `HeardLast`: when the last byte of an answer
  reaches him nothing is left to be carried out. `Timing`: how full the ring can be
  wherever the firmware is; at its heart, in `readColor()` the bytes received and
  the byte times left are at most what is left of the answer and the room the
  ring has beyond it. Each part needs the others before it; `Quiet` is what
  they have in common. `NoLoss`, `OneByteAtMost` and `DialogueImplemented`
  follow.
* **Lidar.** `IInv` is `TypeOK` with four parts. `Looping`: the loop stays inside
  `local_buf`, and a thread that publishes stands at the first node of a turn with
  `local_scan` beginning one (the step that copies no longer tests it).
  `Locking`: the lock is held by who copies, and no thread is started beside
  another. `Waking`: a scan nobody has grabbed is announced, about to be, or has
  the main thread on its way to it; and a grab never meets an empty slot after its
  check. `OneEach`: at most the first node of `local_scan`, of the cached scan and
  of what was grabbed begins a turn. `AddProperties` and `GrabProperties` are
  about the two places where arrays are written. `SlotImplemented` is the
  whole refinement: `Slot` has no fairness.

  `TurnsInOrder` and `TurnsWhole` follow every sample from the lidar to the caller,
  by `TurnInv`, which adds five parts to `IInv`. `Lo .. Hi` is what of `local_buf`
  is still to go into `local_scan`, and `Done` the next sample to go there (or to
  come, when nothing is pending). `Numbered`: nothing is held that was not sent,
  and a capsule that is kept is the last that came. `Linking`: between a pending
  sample and the next lies nothing but what was lost, and its sync bit is right; for
  capsules that is `TurnWraps`, the angle falls after the last of a turn and only
  then. `Ordered`: `nodes`, the cached scan, `local_scan` and `Done` are in that
  order of the stream, except that a scan just published is still in `local_scan`.
  `Growing`: a turn in `local_scan` is there up to `Done`, as far as there is room,
  unless part of it was harmed; and if `Done` is past the turn without its having been
  published, part of it was. `Published`: a turn unharmed is published whole. A step
  of the thread goes over harmed samples only (`Advanced`, `ReadingStep`, `AddStep`),
  and turns begin `PerTurn` apart (`TurnsApart`), so a turn that is published ends
  where the next begins. All but `Numbered` are claimed until old nodes in
  `local_buf` are scanned again (`Streaming`); from then on no turn counts as unharmed
  (`Spoilt`). `TurnsWhole` takes `Room < MaxScan`: without it, and with turns that do
  not fit `local_scan`, nodes the caller has room for are dropped and the property is
  false.

Model-checked only: liveness (`BoundedMoveStops`, `ClosedIsFreed`, `ReaderGoesOn`,
`QueuedIsAccepted`, `ServerGoneEnds`, `AnsweredUnlessStranded`, the fairness of
`ImplementsFraming`), which needs ENABLED and is out of the prover's reach. Every
other property of the passing runs has a theorem. The properties of the runs that
end in a violation are false of the code, so there is nothing to prove.

## Not modelled

* The fields of commands and answers. The client's `sendData()` sends 8 of a
  command's 10 bytes where pointers have 64 bits; the server fills in the upper
  half of the speed from whatever its buffer held. No module follows it: none
  of the properties depends on a parameter on the way.
* The keyboard: what `scanf()` leaves in `ch` and `params` at the end of the
  input or after a letter where a number is due. The operator of `Client` presses
  any key at any time, which includes that.
* The exit of the server on a signal: the listener notices it at the next
  connection, `main()` at once, and the process ends.
* In the firmware, the four counters only `sendStatus()` reads and what the
  colour sensor returns; its time is in `SerialLink`.
* What OpenSSL does when two threads use one session at once, or with a session
  that was freed. In `Client` and `Server` such a call returns anything, and in
  `Server` it may end the process. What OpenSSL writes of its own accord, in a
  read or when a session is freed, is left out, and so is a SIGPIPE from it.
* The server after it was killed, and its restart: nothing of it is kept.
* `Assembler` after a chunk longer than the caller's buffer (`Overrun`):
  `serialRead()` asks for up to 1024 bytes, and what the rest of them overwrites
  is undefined.
* Of the lidar reader: `connect()`, the device's health and the motor, which come
  before and after the scans; the angles, `ascendScanData()` and the file. A
  magic nibble or a checksum that matches by chance, a capsule lost without a
  trace, and a byte lost inside a node after its first two, which gives one node
  with wrong contents and a next one read from the wrong byte
  (`rplidar_driver.cpp:638-668`): `Lose` drops samples, one or several in a row,
  and never falsifies one. That `join()` on Linux keeps the handle, so that an ended thread is joined
  again (`thread.hpp:133`), and that `Event::wait()` asserts against spurious
  wake-ups (`event.h:152`): neither has a defined outcome to follow.
* After a byte is lost, `SerialLink` follows the line, but the verdict on a
  packet is arbitrary; `Assembler` has the bytes and the verdict.
* Client, server and line composed in one state space: `Server` gives the
  Arduino's answers any order in time, which includes those of `SerialLink`, and
  `Client` the server's, so each is checked against more than the others do.

Left out for good: the echo test programs, the serial exercise and the older
copies of the firmware and the server; TLS set-up, which is straight-line calls
into OpenSSL; the Arduino IDE, the rest of the RPLidar SDK (there twice) and the ROS
and SLAM build trees, which are third-party or generated. These trees are nearly
all of the repository's lines: the modules cover most of the code that is Alex's
own, and a small share of the whole.
