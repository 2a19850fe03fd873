# A TLA+ model of modbus_c

modbus_c is a Modbus RTU slave for small microcontrollers and for Linux, with a
simple master for Linux. These modules model the slave (its framing state
machine, the handlers of its register memory, the four ports that run it), the
durations it depends on, the CRC, and the Linux master's transactions with it.
TLC checks them on small instances, and TLAPS proves the central safety
properties for all values of the constants. Paths such as `rtu.c` are relative
to `src/`.

## The system

| component | files | state | operations |
|---|---|---|---|
| slave core | `rtu.c`, `rtu.h` | status word (`updated`, `error`, `prev`, `curr`), `rxbuf`, `txbuf`, the installed timer callback | `modbus_rtu_init`; callbacks for timer, received byte, reception error, transmission complete; `modbus_rtu_event` |
| register memory handler | `rtu_memory.c` | `bytes[]` between `addr_begin` and `addr_end` | five function codes, exceptions |
| register memory instance | `atmega328p/rtu_memory_impl.c`, `linux/rtu_impl.c` | the memory and the slave's address | `rtu_memory_impl_clear`, `_init`, `_pdu_cb` |
| ATmega328P slave | `atmega328p/rtu_impl.c`, `rtu_main.c` | hardware timer and USART, sleep | interrupt handlers, main loop |
| Linux slave | `linux/rtu_impl.c`, `tty.c` | software timer, tty, the thread's stack | `modbus_rtu_run`: `recv_impl`, `timeout_impl`, `send_impl` |
| STM8, STM32 slaves | `stm8s003f3/`, `stm32f103c8/` | hardware timer and USART, the NVIC's pending requests | interrupt handlers |
| frame timing | `*/rtu_impl.c`, `linux/master_impl.c`, `linux/tty.c` | - | intervals of the timers, the master's response timeout |
| master | `master.c`, `linux/master_impl.c` | the request and reply buffers | frame builders and parsers, synchronous transactions |
| CRC | `crc.h`, `*/crc.c` | - | CRC-16, from a table or bit by bit |
| tty layer, utilities, log | `linux/*.c` | file descriptors | wrappers of system calls |

How they interact. The port calls the core's callbacks, from interrupt handlers
or from the Linux thread. A callback changes the status word, the buffers and
the timer, and sets `updated`. The main loop calls `modbus_rtu_event`, which
looks at the status word the callbacks left behind. It restarts the machine,
hands a confirmed frame to `pdu_cb` (the register memory handler), or does
nothing. A reply is completed by its CRC and given to the port's `serial_send`,
which reports its end through `serial_sent_cb`.

The states of the core:

    INIT --3.5t--> IDLE --byte--> SOF --byte--> RECV --1.5t--> EOF --3.5t--> IDLE
    IDLE --frame with a reply--> BUSY --sent--> INIT
    any state --error, seen by modbus_rtu_event--> INIT

What is hard here:

* any number of callbacks run between two calls of `modbus_rtu_event`, which
  sees only the last two states and the error bit;
* `adu_process` raises an error after `modbus_rtu_event` has done its work, so
  the error waits for the next event;
* a transmission that an error has overtaken still reports its end later;
* the AVR sleeps after each event, so a wakeup that never comes stops the slave;
* the Linux thread calls `modbus_rtu_event` from within itself (`send_impl`) and
  may read bytes after their gap has expired;
* the master's timeout races the slave's reply, which stays in the tty for the
  next call;
* the STM32 delivers a timer interrupt that was latched before the timer was
  stopped or restarted;
* the end of a frame takes 1.5t and then 3.5t, while a master keeps 3.5t between
  its frames, so a frame is finished by the difference of rounded intervals;
* the Linux thread sleeps for a whole interval before it reads again, and takes the
  time of the read for the time of the byte;
* the memory handlers compute addresses in 16 bits and ignore the end of the
  reply buffer.

What makes each part correct: the core keeps timer, buffers and state in step
and is never left waiting for nothing; `pdu_cb` sees the master's frames and
nothing else; every frame, good or bad, ends with the slave ready for the next
one; a master sees a register file; replies fit and reads stay inside; a master's
call that returns success has done what it was asked to; a master that keeps the
times of the protocol never meets a slave that is not ready; the ports agree on
the CRC.

## Modules

    Rtu                                  RegisterFile        Crc16
     |                                        ^ refinement
    Line ------------- RtuProofs         RtuMemory --- RtuMemoryProofs
     |-- McuSlave ---- McuSlaveProofs         |               |
     |-- LinuxSlave -- LinuxSlaveProofs  MasterLink -- MasterLinkProofs
     |       |
     |-- TimedLine --- TimedLineProofs
     |    |-- McuTimed ---- McuTimedProofs
     |    `-- LinuxTimed -- LinuxTimedProofs     (extends LinuxSlave too)
     `-- MCFrames

* **`Rtu`** is the core. Each callback is an action named after its function,
  and `modbus_rtu_event` is the disjunction of its branches (`event_error`,
  `event_init`, `event_frame`, `event_sof`, `event_none`). `rxbuf` and `txbuf`
  are the bytes before `rxbuf_curr` and `txbuf_curr`. `timer` is the interval
  the platform's timer is armed for, `sending` says that the transmitter has not
  reported its end, and `suspended` is the last of `suspend_cb` and `resume_cb`.
  The platform is the most general one: an armed timer may expire, a byte may
  arrive and the transmitter may finish at any time. Every port is a restriction
  of it. `CalcCrc` and `Replies` (what `pdu_cb` may answer) are constants.
  An expiration leaves the model's timer armed, as the timer of the
  ports is periodic until it is stopped or reset.
* **`Line`** adds a master that keeps the rules: it sends a frame of `Frames`
  without gaps, and only when the slave is at rest. It remembers which good frame
  `pdu_cb` owes it (`owed`), and whether the last frame and the one before were
  good. This is the environment of the ports.
* **`McuSlave`** is the slave on a microcontroller; `port` says on which. The
  handlers `tmr_cb`, `tim_cb`, `isrTIM2` (timer), `usart_rx_recv_cb`,
  `uart_rx_recv_cb`, `rx_complete` (receiver) and `tx_complete` wake the CPU, and
  `main_loop` calls `modbus_rtu_event` and goes back to sleep in one step, since
  interrupts are off until `sleep_cpu`. The STM8 and STM32 ports come without a
  main loop (and with a call of `modbus_rtu_init` from before it lost its address
  parameter); they are given the one of the ATmega328P. The line may damage a
  byte; the handler then flushes what the receiver has queued behind it. A
  timer may expire while another handler keeps its own from running. The
  ATmega328P and the STM8 forget that when the flag is cleared, the STM32 latches
  it (`pending`). Bytes without gaps keep the timer from expiring, unless one did
  not reset it (`unreset`).
* **`LinuxSlave`** is the Linux port: one thread with a program counter `pc`, a
  kernel queue, the chunk that `recv_impl` has read and not passed on, and the
  nested `modbus_rtu_event` of `send_impl`. The bytes may arrive between any two
  steps. The thread may be late, or someone may set the clock (`timestamp_us` is
  the time of day), and either tears a frame. `tty_read_ll` may return early,
  since it adds up overlapping times; that costs a round of the loop and no more.
* **`TimedLine`** gives the line durations, in microseconds: 11 bits for a byte, the
  gaps in a frame, the silence between frames, and the response timeout of `read_impl`
  (`parse_speed`, `calc_tmin_ms`, `calc_tmax_ms`). What takes time is a clock that counts
  down (`wait`), and time passes straight to the next event.
* **`McuTimed`** is the core on such a line, on a microcontroller: the intervals of the
  three ports with the rounding of their timers, the time a reply takes, and how late
  `modbus_rtu_event` runs after an interrupt. Bytes and expirations are handled by
  interrupts, at once.
* **`LinuxTimed`** is `LinuxSlave` on such a line, with the timeouts of `calc_1t5_us`,
  `calc_3t5_us` and the options `-t` and `-T`. A byte lies in the kernel until the
  thread gets to it. While a timer runs, `tty_read_ll` reads what there is; if there is
  nothing it sleeps for the whole interval (`Sleeps`) and reads again (`Reads`). The timer
  starts at the read (`Takes`), and the thread looks at it only after it has read
  (`FindsTimeOver`). Each sleep, `poll` and `tty_drain` may end late by a latency, which
  stands for the scheduler and for all that the thread computes.
* **`RtuMemory`** is the memory handler. Requests are records of the fields that
  the handlers parse; the chains of checks keep their order, since the exception
  depends on it. `WORD` and `BYTE` are the ranges of a 16-bit and an 8-bit
  number, and `INT_BITS_16` tells whether `addr + num` wraps. `bytes` is defined
  for each 16-bit offset, those outside the memory too, and `touched` has the
  offsets of the last access. A behaviour ends with an access outside: what
  follows it is undefined.
* **`RegisterFile`** is the abstract specification of the memory handler:
  registers written and read by address, in which a rejected write of several
  registers may have stored a part.
* **`MasterLink`** composes the Linux master with `RtuMemory`, so that the builders
  and parsers of `master.c` meet the checks of `rtu_memory.c`. `rtu_master` is a
  call up to its request on the line, `tty_read` and `timed_out` are how it ends,
  and the slave's end is the handler itself. The field `api` of a call tells the
  transactions of `linux/master_impl.c` from an application that uses builders and
  parsers itself, as `linux/tests/rtu_tests.c` does: the latter reads what comes
  until the time is over. The line may cut a reply, change a byte of it or lose a
  request. With `LATE` a timeout may come before the reply; without it, it does
  not, which the theorems `RepliesComeInTime` and `LinuxRepliesComeInTime` justify.
  Bytes are known by their reply and position, and the CRC is ideal.
* **`Crc16`** is `modbus_rtu_calc_crc` twice: with the tables of `linux/crc.c` at the
  sender, bit by bit at the receiver, as on the microcontrollers. A step is one
  iteration of both loops; noise may invert bits of the byte between them.
* **`RtuProofs`** (about `Line` as well), **`McuSlaveProofs`**, **`LinuxSlaveProofs`**,
  **`TimedLineProofs`**, **`McuTimedProofs`**, **`LinuxTimedProofs`**,
  **`RtuMemoryProofs`** and **`MasterLinkProofs`** hold the theorems (see Proofs).
  **`MCRtu`**, **`MCMcuSlave`**, **`MCLinuxSlave`**, **`MCMcuTimed`**, **`MCLinuxTimed`**,
  **`MCRtuMemory`**, **`MCMasterLink`**, **`MCCrc16`** give the constants their values, and
  **`MCFrames`** holds the bytes, frames and CRC that four of them share.

Definitions marked as mutants are plausible mistakes in the code. Each takes the
place of the definition it is a mutant of to see that a property notices it.

## Runs

Run one with `tlc -config X.cfg M`.

| run | module, cfg | states | result |
|---|---|---|---|
| `rtu_core` | `MCRtu`, `MCRtu.cfg` | 3146 | holds |
| `rtu_overlap` | `MCRtu`, `MCRtuOverlap.cfg` | | violated |
| `mcu_slave` | `MCMcuSlave`, `MCMcuSlave.cfg` | 13465 | holds |
| `mcu_loss` | `MCMcuSlave`, `MCMcuSlaveLoss.cfg` | | violated |
| `linux_slave` | `MCLinuxSlave`, `MCLinuxSlave.cfg` | 18317 | holds |
| `memory` | `MCRtuMemory`, `MCRtuMemory.cfg` | 760 | holds |
| `master_link` | `MCMasterLink`, `MCMasterLink.cfg` | 32434 | holds |
| `master_late` | `MCMasterLink`, `MCMasterLinkLate.cfg` | | violated |
| `timed` | `MCMcuTimed`, `MCMcuTimed.cfg` | 1701 | holds |
| `linux_timed` | `MCLinuxTimed`, `MCLinuxTimed.cfg` | 34441 | holds |
| `linux_timed_default` | `MCLinuxTimed`, `MCLinuxTimedDefault.cfg` | | violated |
| `crc` | `MCCrc16`, `MCCrc16.cfg` | 102189 | holds |

**`rtu_core`**. The core under every order of callbacks and events. The timer is
in step with the state, which is what the ports assert (`TimerMatchesState`).
Outside IDLE something is always going to happen (`NeverStuck`). The `goto
error` checks are dead code (`ChecksNeverFire`). `txbuf` is free whenever
`pdu_cb` is called (`ReplyOnlyInBusy`). A flagged error survives every
callback and is answered by a restart alone (`ErrorDiscardsFrame`).

**`rtu_overlap`**. A byte received while a reply goes out flags an error, the
restart rewinds `txbuf` under the running transmitter, and a second frame can be
confirmed before `serial_sent_cb`. The comment at `rtu.c:283-284` says that this
case should never happen. The check in the code, of `txbuf_curr`, cannot see it.
The run uses the general platform of `Rtu`. On a port it takes a reply that is
longer on the line than 3.5t, a frame, 1.5t and 3.5t together, and a master that
speaks meanwhile. What comes after that, a second `serial_send` into a transmitter that
still runs and whose end is reported first, is up to the drivers, which are not part of
the repository; `sending` is one bit for that reason, and a behaviour in which it matters
goes through the state that this run shows. `NoErrorOnGoodLine` of the timed runs keeps a
line that is in time from getting there.

**`mcu_slave`**. On all three microcontrollers: the CPU never sleeps through its
own work (`WakeupComes`). `pdu_cb` gets exactly the frames that were sent, also
after rejected, damaged, torn and too long ones (`PduCbSeesTheFrame`). A good frame
is lost only after a bad one (`LossOnlyAfterBadFrame`). A bad frame ends in an error
without `resume_cb` and leaves the application suspended, but not beyond the next good
one, even if that one is lost (`SuspendedOnlyAfterBadFrame`). Every frame ends with the
slave in IDLE and asleep (`FrameEndsInIdle`). A timer interrupt that the NVIC of the
STM32 has latched never meets a stopped timer, and never the middle of a healthy
frame (`LatchedOnlyAfterError`). It may meet the timer that `modbus_rtu_event` has
just restarted, which `TIM_ENABLED` does not tell from the old one: the silence of
3.5t is then cut short, and the rest of a frame that is on the line is taken for a
frame of its own. Such a frame counts as a bad one here, so that on the STM32 two
good frames in a row may be lost after a bad one.

**`mcu_loss`**. That loss does happen: after a frame with a wrong CRC the next,
good, frame is dropped, because the pending error is seen only when its first
byte wakes the CPU. `README.md:167-168` says that `pdu_cb` is "invoked by the core
after a CRC-valid frame arrives in EOF->IDLE transition".

**`linux_slave`**. At each call of the thread all earlier callbacks have been
dealt with, nested events included (`EventsKeepUp`). It waits without a timeout
in IDLE alone (`WaitsOnlyInIdle`), and otherwise the properties are those of
`mcu_slave`. Deadlock is not checked, since the program may return or abort.

**`memory`**. Where `int` has 16 bits (ATmega328P, STM8), `addr + num` at
`rtu_memory.c:80` is computed modulo 2^16, and in a memory that ends near the last
address a read may pass the check and leave the memory. The memory of the run lies there,
and no other read leaves it (`ReadsStayInside`). Replies fit an ADU (`ReplyFitsAdu`), and
the handlers implement `RegisterFile` (`ImplementsRegisterFile`). `RegisterFile` has writes
that begin before the registers or end after them, since the write handlers compare only the
first address, and only with `addr_end` (`rtu_memory.c:124`, 164 and 278): such a write is
carried out, although `README.md:101` says that accesses outside return an
exception. Deadlock is not checked, since a behaviour ends with an access outside the
memory.

**`master_link`**. While no reply comes after its timeout, success means that the
slave's memory holds what was written, or that the values read are those of the
memory (`SuccessIsReal`). No call leaves bytes for the next (`NothingLeftBehind`).
The read transactions check no limit, and a call may wait for more bytes than its `rx_buf`
takes. It never gets them, since the slave answers such a request with an exception
(`ReadsFitBuffer`).
The slave rejects only calls that are out of range (or longer than a reply, as the read
transactions check no limit), so builders and handlers agree
on sizes, counts and limits (`LegalCallsAreServed`), and each reply that arrives
whole is taken by its parser if it is positive and by `find_ecode` if it is an
exception, so handlers and parsers agree on the layouts
(`WholeRepliesAreUnderstood`). Every call returns (`CallReturns`).

**`master_late`**. With late replies `SuccessIsReal` fails: the reply of a call that
has timed out is read by the next one, whose parser looks at CRC and size alone.
`linux/master_impl.h:18` says "fail: NULL, success: data + count". Deadlock is not
checked here, since `BACKLOG` stops the calls.

**`timed`**. A master that keeps the times of the protocol has each of its frames
processed before the next one begins (`ProcessedInTime`), and no byte ever meets a
state that does not expect it (`NoErrorOnGoodLine`), on each of the three
microcontrollers. The slave answers after 3.5 characters of silence and not before
(`ReplyKeepsSilence`), its reply is complete before the call that waits for it
times out (`ReplyComesInTime`), and the application is suspended when a frame is
confirmed, so no first byte was coalesced with the second (`SuspendedForFrame`). It is
close: at 19200 a byte takes 572 us, so a gap in a frame may be 177 us. The end of a frame
is confirmed 2500 to 2544 us after its last byte, and the next frame's first byte is
complete after 2577 us: `modbus_rtu_event` may be about 30 us late.

**`linux_timed`**. Frames in time, no errors and replies in time for the Linux slave, if the
master leaves more silence than the protocol asks for. (That it is not too early with
a reply is proved; see `LinuxRepliesKeepSilence`.) `tty_read_ll` reads the last byte up to
1.5t late, and 1.5t and 3.5t count from that read, so a frame is finished up to
`2 * 1.5t + 3.5t` and three latencies after its last byte (`ProcessingTime`). The run leaves exactly that between the last byte
of a frame and the end of the first of the next:

| setup | facts |
|---|---|
| 19200 and above, no options | 1.5t and 3.5t are the fixed 750 and 1750 us: a frame takes 3250 us and the latencies, at whatever rate |
| `-r 38400` | unknown to `parse_speed`, which takes 19200 for it |
| 9600 | works with `-t 1800 -T 2300`, and not without options (see below) |
| 19200, `-t 10000 -T 20000` | the options of `README.md:369`: 40 ms and the latencies, which `timeout_exec_ms` has to cover |

**`linux_timed_default`**. With the default timeouts at 19200, no latency, and a master
that leaves 3.5 characters: the last of five bytes that complete 572 us apart is read
712 us late, and the sleep in EOF ends 3212 us after it. The first byte of the next frame
is complete after 2577 us and is read then, before the thread looks at the timer: an
error, and both frames are dropped. (Of eight bytes the last is read 496 us late, with the
same result.)
`README.md:13-14` says "strict t1.5 / t3.5 timer enforcement". The repository's own example
runs the slave with much longer timeouts.

In the timed runs the response timeout starts at the return of `tty_write`, when the request is
still in the kernel, and counts the bytes of the reply alone. `timeout_exec_ms` and the
10 ms of `calc_tmax_ms` have to cover the request on the line and the slave as well: the
10 ms do for the short requests of `timed`, and `linux_timed` needs 43 ms more for the
setup with `-t 10000 -T 20000`. The longest request, of 255 bytes, takes 146 ms at
19200, more than the 100 ms that `linux/tests` allow.

Below 19200 bit/s the default timeouts do not work at all, which the theorem
`LinuxDefaults` proves: `calc_1t5_us` is shorter than one byte (859 us against 1145 us at
9600), and the timer is reset at the end of a byte. So each frame ends in SOF with an
error, and none is processed, though `linux/rtu_main.c:19` lists these rates and
`linux/rtu_impl.c:76` says "time interval required to transmit 1.5 characters".

**`crc`**. The tables and the bitwise loop compute the same CRC in the same byte
order (`PortsAgree`). Two frames that pass the check differ in at least four bits, up
to the longest ADU, and in an even number of them (`FourBitsApart`): noise of up to
three bits, or of any odd number, is detected. This is what the ideal CRC of
`MasterLink` and the toy CRC of `MCFrames` stand for. Deadlock is not checked, since a
message ends.

### Bounds

* `RXBUF_CAPACITY` 5 (`rtu_core`) and 6 (ports): one and two bytes more than the
  shortest ADU, so that frames that are too short, just right, one byte short of
  full, full and too long all occur. `TXBUF_CAPACITY` 4 is the smallest that
  takes a reply of address and function code.
* `MCRtu` has two byte values and a CRC of two parities, so that of the frames of
  each length some pass and some do not.
* `MCFrames` has two-bit bytes and seven frames: two good, of different lengths,
  one with a wrong CRC, a good one cut in two, one byte, and one with a right
  CRC that overruns `rxbuf`. The toy CRC is idealised: `NoFrameInsideAFrame`, an
  assumption of `Line`, says that no part of a frame passes for a frame, which a
  real CRC makes unlikely and not impossible.
* `READ_CAPACITY` 3 in place of 256: less than a frame, so that a frame takes one
  read or several. The receivers queue two bytes (ATmega328P) or one.
* `WORD` 8, registers at 3 .. 5: addresses before, inside and after the memory, reads that
  end after it without a wrap of `addr + num` and others with one. `BYTE` 2 makes values 0
  and 1 fit a byte and 2 not. The limits of 3, 2 and 4 stand for 0x7D, 0x7B and 249, and
  `ADU_CAPACITY` 11 is the ADU they fill. Requests have every address, every number up to
  one over the limit of a read, every value, and each malformed shape the handlers
  distinguish.
* `MasterLink`: limits of 4, 2 and 6 with `ADU_CAPACITY` 13 keep the relation of
  0x7D, 0x7B and 249 to 256: a full request or reply just fits, and one value more
  does not. Calls of either kind read 0, 1, 2 and too many values inside, across and
  outside two registers; writes stay inside, as one that does not ends the behaviour of
  `RtuMemory`. `BACKLOG` 8 is one late reply.
* `McuTimed`, `LinuxTimed`: two good frames, one for this slave and one for another; in
  each gap either none or the longest that 1.5t allows; the shortest silence between
  frames that the slave can do with; main loop and thread at once or late by 30 us
  (microcontrollers) or 60 us (Linux), each hardware timer with the least or the most
  that its rounding allows. Only extremes can break an order of instants. How a Linux sleep
  falls between the bytes follows from the length of the frame; five and eight bytes, with
  and without gaps and latencies, make it fall early and late.
* `Crc16`: `MAX_FREE` 2 bytes reach every pair of table index and high register, all
  that an iteration depends on, so that agreement carries over to any length.
  `MAX_PAYLOAD` 254 is an ADU without its CRC, `MAX_FLIPS` 2 bits in it leave one or two
  for the CRC itself. The CRC is linear, so the distance does not depend on the
  bytes; 0 and 165 are tried for the first.

### Fairness

`McuSpec` assumes weak fairness of the main loop (a `for(;;)` without a
condition), of an armed timer, of the running transmitter and of the bytes of a
frame whose sending has begun. `LinuxSpec` assumes weak fairness of the thread
and of the line, and strong fairness of `elapsed`. The thread looks at the clock
once in each round, so the step is not continuously enabled, but time passes, and
the interval is over at some look (of a clock that is not set back again and again).
`LinkSpec` assumes weak fairness of the master's thread, of its timeout and of the
slave. The timed specifications, whose properties are all safety, assume none. No fairness is assumed of what the master's application calls, of
errors or of the user event.

## Proofs

`tlapm M.tla` checks the proofs of the module `M`. The theorems hold for every value of
the constants that satisfies the named assumptions of the modules, which TLC evaluates
on the instances above.

**The core** (`RtuProofs`), for all `Byte`, capacities, `CalcCrc` and `Replies` that
satisfy `CapacityAssumption`, `CrcAssumption` and `RepliesAssumption`: the receive
buffer holds a byte at least, a CRC is two bytes, and `pdu_cb` leaves room for
it. `Invariance` proves the inductive invariant
`IInv == Control /\ BuffersTypeOK`, where `Control` joins the type of the status
word with the properties of `rtu_core`. None of these is inductive alone.
`TimerMatchesState` needs `ChecksNeverFire` (a timer callback that found an
unexpected state would keep the timer armed), `ChecksNeverFire` needs
`ReplyOnlyInBusy`, since a confirmed frame with a used `txbuf` is a `goto error`,
and `TimerMatchesState`, and `NeverStuck` needs `TimerMatchesState` for the timer
that INIT waits for. `Control` mentions the buffers only through
`txbuf` being empty; the proof has one step per action for `Control` and another
for the buffers, because the arithmetic of lengths and the case split over
states want different provers. From `Invariance` follow `TypeCorrect`,
`TimerAssertionsHold`, `NoLostWakeup`, `DeadChecks`, `TxBufferFree` and the action
property `ErrorsStick`.

**The ports** (`McuSlaveProofs`, `LinuxSlaveProofs`), for all frames that satisfy
`FramesAssumption` and `NoFrameInsideAFrame`, all three microcontrollers, and on Linux
all sizes of the read buffer. `McuImplementsCore` and `LinuxImplementsCore` show that the
ports implement the core (`McuSpec => Spec`, `LinuxSpec => Spec`): each step of a port
is a callback, an event or a stutter of `Rtu`, so that the theorems about the core are
theorems about every port. What the core alone cannot promise rests on the inductive
invariants `McuInv` and `LinuxInv`, which join `IInv` with four facts:

* control (`PortControl`, `SleptOn`, `EndIsEnd`; `ThreadControl`, `ChunkUsedUp`): what
  the main loop or the thread has left undone when it sleeps or waits, and that on a
  line without gaps a frame ends, for a slave without an error, when it has ended.
  From these follow `SleepIsSafe` (`WakeupComes`), `LatchIsHarmless`
  (`LatchedOnlyAfterError`), `ThreadKeepsUp` (`EventsKeepUp`) and `WaitIsSafe`
  (`WaitsOnlyInIdle`);
* `RxbufFree`: an empty receive buffer where a frame may begin;
* `Assembly`: what is in `rxbuf` is a contiguous part of the frame on the line, up to the
  byte that has arrived last, and with `Linux` the chunk, the kernel's queue and the line
  together (`Unread`) are the rest of it. With `NoFrameInsideAFrame` (lemma
  `OnlyWholeFrames` of `RtuProofs`) a confirmed `rxbuf` that passes `adu_check` is the
  whole frame: `McuDeliversTheFrame` and `LinuxDeliversTheFrame` (`PduCbSeesTheFrame`);
* `Progress`: a good frame is done, or received from its first byte on without an error,
  or lost after a bad one. This is why two good frames in a row are both processed:
  `McuLosesNothingElse` and `LinuxLosesNothingElse` (`LossOnlyAfterBadFrame`). With it,
  `McuResumes` (`SuspendedOnlyAfterBadFrame`) proves that the application is not left
  suspended when the slave is at rest after a good frame.

`McuTypeCorrect` and `LinuxTypeCorrect` are the type invariants. The proofs have one lemma
per fact and action; the facts about sequences (`RestStep`, `PartStep`, `GoodFrame` and so
on) are in `RtuProofs`.

**Time** (`TimedLineProofs`, `McuTimedProofs`, `LinuxTimedProofs`), for all frames and
replies, and all setups, gaps, silences and latencies that satisfy `TimingAssumption`: among
the gaps and latencies there is a longest. The properties about the order of instants follow
from inequalities between the durations of a setup, which `McuTimed` and `LinuxTimed` state,
each for its timers, and the theorems have as hypotheses:

| condition | says | for |
|---|---|---|
| `GapsAreShort` | a gap and the byte after it are shorter than the shortest 1.5t | all |
| `SpaceIsLong` | `ProcessingTime` is shorter than the silence between frames and a byte | all |
| `TimersAreLong` | the shortest 1.5t and 3.5t make 3.5 characters | `ReplyKeepsSilence` |
| `TimeoutIsLong` | the response timeout covers request, `ProcessingTime` and reply | `ReplyComesInTime`, `ProcessedInTime` |
| `LoopIsQuick` | the latency is shorter than a byte | `SuspendedForFrame` |

`ProcessingTime` is 1.5t, 3.5t and one latency on a microcontroller, and 1.5t twice, 3.5t and
three latencies on Linux. The first two conditions together are `OnTime`.

On a microcontroller `TimedTypeCorrect` (types, and that a clock runs when what it times
does) and `TimedImplementsCore`
(`TimedSpec => Spec`) need no condition. `NoErrorsInTime` (`NoErrorOnGoodLine`) rests on
`LineInv`. "No error" is not inductive, as
nothing in the states keeps a byte away from EOF or BUSY but the clocks; `LineInv` says for
each state what is on the line and in `rxbuf` and which clock runs out first: inside a
frame the next byte before the timer, after it the timer, 3.5t and the latency before
the first byte of the next (`Due`). `SilenceInv` adds that the clock of the silence is
never ahead of what is left of the timers (`RepliesKeepSilence`), `SuspendInv` that the
main loop runs before the second byte (`FramesSuspend`), and `CallInv` that the
clock of a call has more left than bytes, timers, latency and reply together
(`RepliesComeInTime`, `FramesProcessedInTime`). Each relates differences of clocks, which
`Tick` does not change; that is why one lemma (`TickPasses`) does for all of them.

On Linux the argument goes through `LinuxSlave`. `LinuxTimedImplementsSlave` proves, under
`OnTime`, that the steps of the thread in real time are steps of `LinuxSlave` in which
nothing is torn; `LinuxInv` therefore holds, and says what is in line, kernel, chunk and
`rxbuf`. `TimeInv` adds the clocks: the timer has run out when a sleep ends (`SleepInv`), every
sleep inside a frame ends with a byte to read (`FrameInv`), and after the
last byte what is left of sleep, 1.5t, 3.5t and latencies (`Left`) ends before the first byte
of the next frame. The two hold each other up: that `elapsed` is a step after the end of
a frame alone (`ElapsesAfterFrame`) needs `TimeInv`, and what a step does to the core
needs `LinuxInv`. `LinuxTimedTypeCorrect`, `LinuxNoErrorsInTime`, and with
`SilenceInv` and `CallInv` of their own `LinuxRepliesKeepSilence`, `LinuxRepliesComeInTime` and
`LinuxFramesProcessedInTime` follow.

Three theorems put the numbers of the code in. `McuKeepsTime`: the compare values of the
three microcontrollers satisfy the first three conditions for gaps up to 177 us, a silence
of 2005 us and a latency up to 32 us. `LinuxDefaults`: the timeouts that the Linux program
takes by default can satisfy `GapsAreShort` and `TimersAreLong` from 19200 bit/s on and at
no lower rate, whatever the master does.
`LinuxNeedsMoreSilence`: no options satisfy `GapsAreShort`, `TimersAreLong` and `SpaceIsLong`
for a master that leaves 3.5 characters, which is the finding of `linux_timed_default`.

**The memory** (`RtuMemoryProofs`), for all widths, regions, limits and requests that
satisfy `WidthAssumption`, `RegionAssumption`, `LimitsAssumption` and
`RequestsAssumption` (the data of a write is what the size of its PDU leaves for it):
`ReadsInside` (a read leaves the memory only where `addr + num` wraps in 16 bits, for
every memory), `ReadsInsideBelowTheEnd` (none does where `int` has 32 bits or the
memory ends some 250 addresses below 2^16, the hypothesis `NoIntWrap`), `RepliesFit`
(each reply fits an ADU) and `MemTypeCorrect` (memory cells stay bytes; the handlers reject
a register value with a high byte before they store it). The first three are consequences of
what one request does (`RepliesOK`); the last is inductive as it stands.

**The register file** (`RtuMemoryProofs`): `MemoryIsRegisterFile` proves that
`RtuMemory` implements `RegisterFile` (`MemSpec => ImplementsRegisterFile`), request by
request: `ReadStep` for reads, `WriteStep` for writes, whole, in part or not at all,
`ExceptStep` for exceptions. Its hypothesis `NoOffsetWrap` says that memory and longest
write together are not larger than the 2^16 offsets, for otherwise a write that leaves the
memory at its end comes round to its beginning.

**The master** (`MasterLinkProofs`), for all calls that satisfy `CallsAssumption` (what
the C types of the parameters allow): `LinkTypeCorrect`, with or without late replies, and
under the hypothesis `~LATE` `BufferSuffices` (`ReadsFitBuffer`), `SuccessMeansDone`
(`SuccessIsReal`), `CallsDoNotMix` (`NothingLeftBehind`), `SlaveServesCalls` (`LegalCallsAreServed`) and
`RepliesAreUnderstood` (`WholeRepliesAreUnderstood`). `SuccessIsReal` is not inductive: it
speaks of the moment a call returns, and the reply that it returns was read from the
memory earlier. `LinkInv` says what holds in between: the request is on its way (`Asked`),
was ignored (`Ignored`), or the slave has answered it (`Replied`), and then everything on
the line and in the buffer are bytes of that one reply, not more than it has, and the
memory has not changed since. The lemma `SlaveReplies` follows a request through the
handler; `ReplyAsExpected` compares sizes, and is why nothing is left behind;
`ParsedIsReal` is why an exception is never taken for data. With `LATE` the invariant fails
where a call begins while bytes of the last one are on the line, which is the finding of
`master_late`.

## Only model-checked

* Liveness (`FrameEndsInIdle`, `FrameEndsInTtyRead`, `CallReturns`), which the prover does
  not do.
* `Crc16`, whose `Bitwise` operators the prover does not take.

## Not modelled

* The statistics counters of the core, logging, debug dumps and the RTU log: nothing
  reads them back.
* The set-up of the tty and the options of the Linux programs but for rate and
  timeouts; thin wrappers of system calls.
* Time on Linux below the thread: the FIFO of a UART and the latency timer of a USB
  adapter, which hand over several bytes together and later, a `usleep` that a
  signal ends early, and a write that the kernel does not take at once.
* What is undefined when it happens. `ReadsFitBuffer` rests on a slave that rejects what a
  buffer does not hold, and on replies that are not late; a longer stream of bytes from
  elsewhere would not stop at the end of `rx_buf`. A `read` that a signal
  interrupts before its first byte leaves `curr` before the buffer (`tty.c:238`). A
  `write` that is interrupted sends a byte twice (`tty.c:331`), which `MasterLink` has
  as a request that is damaged.
* Two slaves on one line. A slave that sees the reply of another takes it for a
  frame; `MCFrames` has frames for another address, and the memory handler ignores
  them (`rtu_memory_impl_pdu_cb`).

## Plan

Done: all modules, and the proofs about the core, the ports, their timing, the memory,
the register file and the master. Left to TLC is what the section on that names.
