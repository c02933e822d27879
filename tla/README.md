# A verification project for the JAviator quadrotor

TLA+ modules that model the control software of the JAviator helicopter
(`src/quadrotor`), TLC configurations that check them on small instances, and
theorems about them that the TLA+ proof system checks for every value of the
constants.  All line numbers refer to the sources as they are.

## 1. The system

Three programs on three computers make up the system.

* **JAP**, on one or two ATmega128 boards ("Robostix"), drives the rotors and
  reads the sensors.  `robo1.c` is a polling main loop; timer and UART interrupts
  are the only concurrency.
* **FCS**, on the Gumstix, is the program `control`: one control thread
  (`control_loop.c`), one terminal thread (`terminal_port.c`), both fed by byte
  channels (`communication.c` over serial, TCP or UDP).
* **GCS**, the Java `ControlTerminal` on the ground, sends commands and shows
  reports.

The pilot's requests go terminal -> terminal thread -> flags -> control thread,
and the state switch and the shut-down also straight on to the board.  Motor
signals go control thread -> serial line -> board -> PWM.  Every motor packet is
answered by the board with its sensor data, which the control thread waits for.
The board's watchdog takes over when motor packets stop.

### Inventory

| Component | State it keeps | Operations | Hard behaviour | What makes it correct |
|---|---|---|---|---|
| Control loop (`control_loop.c`, `main.c`, `us_timer.c`) | `heli_state`, `heli_settled`, signals to send next, revving speed and its limit, age of the last command, time of the next period, winding numbers of yaw and yaw command, command in place, trim | one iteration: send, receive, check connection, take command or request, compute signals, wait | flags the terminal thread changes meanwhile; signals sent one iteration after they were computed; iterations counted for time; loop ends in flight on an I/O error; program killed before it saves the trim | no rotor turns while settled or shut down; no flight without a terminal or after a shut-down, and none broken off while the terminal is there, unless the loop was held up for long; landing is gentle and ends; the heading is continuous |
| Terminal port (`terminal_port.c`) | flags of requests and of new data, idle limit, four sets of parameters | one handler per packet type; readers for the control thread, half of them without the lock | read-then-clear races; order of requests is not kept; forwarding happens after the unlock | no request is lost or served in an order that lets rotors turn; gains are used as whole sets |
| JAviator port (`javiator_port.c`) | `local_id`, last data, `new_data` | send with a fresh id, poll, take an answer, forward | pipelined exchange, polls that send packets, 16-bit ids, giving up | answers are taken in order, losses are noticed |
| Robostix 1 (`robo1.c`, `wdog.c`, `pwm.c`) | `flag_shut_down`, `flag_check_delay`, `flag_new_signals`, stored signals, PWM outputs, new-data bits | handler per packet type, `check_receive_delay`, answers, sonar and battery | interrupt between decision and clearing; signals stored while locked; 16-bit decrement; answers refused while one is transmitted | a locked board is off; silence stops the rotors; no decrement wraps around |
| Wire protocol (`protocol.h`, `communication.c`, `serial.c`) | receive state, item counter, buffers | byte by byte receive in two implementations, transmit, reset | lost bytes, marks in bodies, cut-off packets, 8-bit counter | every packet of an undisturbed line arrives once and unchanged; the receiver gets back in step |
| Channels to the terminal (`udp_`, `tcp_socket_channel.c`), serial channel | descriptor, `connected`, receive buffer | poll, receive, transmit, close | two threads at one unlocked struct; the first datagram opens the session; calls that fail; a terminal that restarts | no descriptor is lost; a terminal that sends is heard; what is read is what was sent |
| SPI channels (`spi_dev_`, `spi_dma_channel.c`, `spi.c`) | lists of buffers, buffers and indices of master and slave | reader thread, receive in pieces, one byte each way per clock | master and slave not in step; older packets dropped while one is read | buffers are conserved; packets of either side arrive whole |
| Filters and controllers (`*_filter.c`, `*_ekf.c`, `pidd_controller.c`, `transformation.c`) | arrays and sums of values | init, reset, update | which sample a full filter drops; outliers that turn out to be true | the output follows the input |
| Original control loop (`control_loop_original.c`) | as the control loop, and mode, tilts, last places | mode switch, position control with a cadence of its own | command data are a place or a tilt, by the mode, which changes in flight | a flight begins level; after a switch to position mode the tilt is soon within its limit |
| Drivers of Robostix 1 (`adc.c`, `minia.c`, `dm3gx1.c`) | current and waiting conversion, pulse, buffers | request, interrupt handlers, get data | one waiting slot; buffer shared with an interrupt | every request is served, no sample is torn |
| Robostix 2 (`robo2.c`, `parallel.c`, `bmu09a.c`, `lsm215.c`) | as above; direction of the shared port | request and answer between the boards, start, stop, polling | both boards may want to send; a stop in the middle of a transfer | bytes in their order and requests answered until one board is ahead of the other; samples from the chips they are taken for |
| Other sensors (`srf10.c`, `ltc24.c`) | state machines of timer and bus | set, start, stop, get data | no acknowledge; a stop half way through a value | a sample is one measurement outside known windows; the driver keeps going |
| Ubisense port (`ubisense_port.c`) | last position | a third thread that parses positions | shared without a lock | positions of one sample belong together |
| ControlTerminal (Java) | connection state, changed parameters | connect, halt, send on report | reply loop, reconnect | sends commands as long as it is connected |
| JAviator3D, JoyDrv, kernel patch, tools | - | - | - | visualisation, third-party and build material, outside the project |

## 2. Plan

The order of the work; all of it is done but the last entry.

1. `ControlLoop`: both threads of the control program, every access to a shared
   flag a step of its own.  Invariants of the flight states; landing and silence.
2. `MotorGate`, `Robo1`: the abstract promise of the board (a locked gate is off,
   only a state switch opens it), and the board that implements it.
3. `Javiator`: the composition of 1 and 2 through the serial line; the promises
   that need both computers.
4. `JaviatorLink`: ids, polls, refusals and losses of the exchange.
5. `Framing`, `RobostixReceiver`, `GumstixReceiver`: the byte level.
6. `Heading`, `TiltCommand`, `Filters`, `OriginalLoop`: what becomes of the data.
7. `TerminalParams`, `AttitudeTrim`, `LoopTiming`: the rest of the terminal port, and
   time.
8. `UdpChannel`, `TcpServer`: the two channels to the terminal.
9. Drivers: `AnalogSensors`, `ImuPort`, `ParallelLink`, `Bmu09a`, `LaserPort`, `Srf10`,
   `Ltc24`, `SpiLink`, `SpiBuffers`.
10. Proofs: `ControlLoop_proofs`, `Robo1_proofs`, `Javiator_proofs`.
11. Proofs of everything `MCLines` promises: `Link_proofs` (the exchange),
    `Framing_proofs` (both receivers), `Lines_proofs` (SPI line, buffers, and the
    properties of the whole).
12. Proofs of what `MCGumstix` promises: `Gumstix_proofs`.
13. Proofs of what `MCDrivers` promises: `Drivers_proofs`.
14. Open: the Java terminal's transceiver, the Ubisense port.

## 3. Modules and the code

A definition named `X_Variant` is not part of a model.  It is `X` with a
plausible slip in the code and serves to show that a property would notice it.

### `ControlLoop`
The control thread walks through `pc`: `send` (677), `recv` (683), `check` (691),
`shut` / `ack` (`get_command_data`, 231-236), `read` / `clear` (the two halves of
`terminal_port_is_state_switch`), `fresh` (266-295), `act` (710-726), and `exit`
when the loop has ended.  Each label is one access to something the terminal
thread also touches, so between any two of them the terminal thread may run.
The terminal thread sets a flag under the lock (`Recv...`) and forwards the packet
after the unlock (`Forward`); a packet it has no case for goes straight on to the
board (`ForwardOther`, `terminal_port.c` 200-202).  `last_request` is a history variable.  Raw output of
the flight controllers is any member of `Outputs`; `compute_motor_signals`
saturates it.  The delay counter only matters relative to `COMMAND_THRESHOLD` and
saturates one above it.  After `exit` the terminal thread goes on in the model,
which is weaker than the code, where the process ends.  `control_loop_stop` is
never called by the program, so `running` is constant.  Left out: trim values,
mode switch, altitude control, reports and traces.

### `MotorGate` and `Robo1`
`MotorGate` says what a pilot may expect of a board.  It shares the line with the
board: the gate opens only by taking a state switch from the line and closes only by
taking a shut-down, which turns the outputs off in the same step; the outputs move
only while it is open; and whatever else the board takes, or the line loses, leaves
both alone.  `Robo1` is the main loop at the level of packets.
`check_receive_delay` is two steps, the decision and the clearing of the flags,
because the timer interrupt comes in between.  Handlers are single steps: nothing
but the timer interrupts them, and it touches only `flag_check_delay`.
Signals are 16-bit, PWM values are clamped as in `pwm_set_signals`.  The packets are
motor signals, the same with a wrong size (`robo1.c` 198), state switches, shut-downs, and
others, which count for nothing but are taken.
`Robo1` implements `MotorGate` with `armed <- ~flag_shut_down`.

### `Javiator`
Joins the two: the variable `wire` is shared, what the two threads put on it is
what the board takes, and the line may lose packets.  The answers of the board are
left open (they come at once, late or never), since what they decide in the loop
is only whether it polls, goes on or ends.  The history `switch_asked` tells whether the
terminal has ever asked for a state switch; no other request sets it.  `BoardAsAssumed` checks the
assumption `Robo1` makes about its packets.

### `JaviatorLink`
One packet is on its way before the first iteration (`javiator_port_init`); each
iteration sends one and takes one answer; a poll sends another.  The board refuses
to answer while it transmits (`serial_send_data`), but clears the new-data bits
all the same (`robo1.c` 334).  `parse_javiator_data` takes every answer and only
warns when its id is not the one before the last sent.

### `Heading` and `TiltCommand`
Whole units of angle, `2 * Half` to a turn.  `prepare_sensor_data` unwinds the
wrapped yaw relative to an offset taken while settled; `get_command_data` unwinds
the command and filters it (`Filtered` is any value on the way to the update);
`compute_motor_signals` takes the windings out again.  `true_yaw` and `settled_yaw`
are history.  `TiltCommand` adds the roll/pitch command, of which only the direction
is kept, and its rotation by the yaw.

### `Framing`, `RobostixReceiver`, `GumstixReceiver`
`Framing` holds the packet format, the transmitter and a line that may lose bytes.
`RobostixReceiver` is `serial_is_new_data` with its 8-bit item counter;
`GumstixReceiver` is the state machine of `comm_recv_packet`, where one step per
byte covers every way in which calls and chunks can divide the stream.  The
histories `quiet` and `calm` tell for how many bytes of plain packets the line has
been undisturbed.  A packet is plain if no byte of type, size, payload or sum is
as large as `ByteMod - Overhead` (250).  Negative motor signals and angles are not
plain: for those, being back in step is not promised, and a periodic stream
whose body looks like a header could keep a receiver out of step.  A write past
`rx_buf` is not modelled: the receiver takes no more bytes there.

### `LoopTiming`
`wait_for_next_period` and `check_terminal_connection`.  `lead` is the time to the
next period, negative if the loop is behind; a loop that was held up runs without
sleeping until it has caught up, and counts every such iteration as one without
command data.  `TimingAssumption` says how far it may be behind for a threshold of
`COMMAND_THRESHOLD` iterations: by `MaxBehind`.  The loop may well be further behind, up to
the bound `MaxLate`: `javiator_port_get_data` polls a Robostix that does not answer 1000
times, a millisecond apart at least (181-201), which is more than 35 periods of 15 ms.
The history `late` says that the loop was that far behind when it last took command data,
and only then may it give up a terminal that keeps sending.  The check and the taking of
the data are one step;
`ControlLoop` has them apart.

### `TerminalParams`, `AttitudeTrim`
The terminal thread stores a packet field by field under the lock; the control
thread looks at the flag without the lock, then copies the fields and clears the flag
under it.  A set of gains is known by the number of its packet.  In `AttitudeTrim` the
flags are read and cleared without the lock, the offsets live in the loop, and
`main.c` loads and saves them around it; a program that is killed, or that cannot open the
file, saves nothing.

### `OriginalLoop`
`control_loop_original.c` on one axis.  A command or a tilt is a number, and the
histories `moved` and `regulated` tell which of them the controller has had its say
in.  Filters, EKF and controllers return any value in their range.  `PositionModeSettles`
says that a flight begins level, that the helicopter is at place 0 until it is reported
elsewhere, and that the tilt is within the limit of the y controller after as many
iterations in position mode as its cadence allows.  It does not say that a place is never
flown as a tilt: it is for up to a cadence after the switch to position mode, and after a
switch back to manual mode, where the command in force is taken as it is (813).  Nor does
it say where the helicopter flies to: without fresh command data the tilt written at 818
is read as the place at 772.

### `Filters`
All four filters are fed the same signal, with a reset at any time.  `recent` keeps the
last updates, against which the outputs are compared.  Values are whole numbers and
the quotients are not taken.  What the median of some values is, is said by counting
(`IsMedian`): at most half of them are below it, and more than half not above it.

### `UdpChannel`, `TcpServer`
Each call of the operating system that a thread makes is a step, and so is each access
to the shared struct, where the two threads meet.  The kernel's side and the terminal
are modelled by what the code in `src` expects of them and are marked external.
In `UdpChannel` the receive buffer of the channel and the receiver of
`communication.c` are the real ones, on datagrams of one short packet: `udp_read` copies
out of its buffer, and the first byte that opened the session has been read before
there was a connection; `connect` may fail, and leaves the socket as it was.  In
`TcpServer` the history `mishap` tells that the control thread found the descriptor it
was writing to closed by the other one, or that `setsockopt` failed on a new descriptor
(82-87, which then is lost); after that nothing is promised.  `killed` tells that a write
raised SIGPIPE.

### Drivers of the boards
In each of them an interrupt handler is a step that may come between any two accesses
of the main loop to something it shares with the handler, unless interrupts are
disabled there.  A byte or a sample is known by where it came from (its channel,
reply, chip or ranging, and its place), so a property can say that what was copied
belongs together.  Where the code tears a sample all the same, a history says so, and
`SamplesAreWhole` leaves that window out.  There are three: `tainted` (the BMU was started with
a transfer of before its stop pending, `bmu09a.c` 132-146), `stray` (the LTC24 converters were
stopped in the middle of a transfer, `ltc24.c` 165-182), `raced` (the handler of the SRF10
came in between the check of `new_data` and `cli`, `srf10.c` 176-181).

* `AnalogSensors`: `adc.c`, `minia.c` and the sonar part of a round of `robo1.c`.
* `ImuPort`: `dm3gx1.c` with the sensor answering.  The order of the two stores of
  `tx_buf[ tx_items++ ]` is the compiler's choice, and left open.  Motor packets, each of
  which makes a request, are only as far apart as the bytes of one packet take on the line
  (`RequestGap`), since the Gumstix polls every millisecond; that is less than a reply
  takes, so a request may cut a reply off, or not be heard.
* `ParallelLink`: both boards with `parallel.c`; `robo2.c` answers requests.  The two main
  loops run freely, so a board may change its RDY line before the other has looked, and
  both may drive the data lines; the history `upset` says that it has happened.  Lines
  that nobody drives may read as any byte, and `rx_items` has 8 bits.
* `Bmu09a`, `Ltc24`: converters in turn on one SPI bus; a transfer under way at a stop
  leaves its interrupt behind.
* `LaserPort`: one laser, whose lines and error messages have different lengths.
* `Srf10`: the timer's state machine and the bus handler, with a sonar that may not
  answer any number of times in a row, and a main loop that changes settings at any
  time.

### `SpiLink`, `SpiBuffers`
`SpiLink` is the exchange of bytes: the handler takes a byte and gives the one that was
laid ready, the main loop of the slave polls once per byte if it is in time, or is late
at most `MaxLate` times.  After a late byte either side may take another byte for the size.
The slave's item counter has 8 bits (`spi.c` 40, 124-127), so that it may come round to less
than the overhead (`SlaveTotals`), where the index passes it and runs to the end of the
buffer; the master's has more and does not (`MasterTotals`).  As with the other receivers, what
lies behind `rx_buf` is not modelled.  `SpiBuffers` is the reader thread with its free and pending
lists and a receiver that takes packets in pieces.

## 4. Runs

`tlc -workers 2 -config <run>.cfg <module>` in this directory; `PROJECT.json` names the
module.

| Run | Shows |
|---|---|
| `ControlLoop_flight` | with two motors, all safety properties of the flight states, gentle landing, and that landing, revving up, shut-downs and silence come to their end |
| `Robo1_board` | the board implements `MotorGate`, which only a state switch from the line opens; decrements stay in 16 bits, the sonar only runs unlocked, silence stops the rotors |
| `Javiator_system` | through both computers and a lossy line: rotors need a state switch that the terminal has asked for; a shut-down, a silent terminal or an ended loop brings them to rest; the Gumstix keeps to the board's assumptions |
| `Lines_delivery` | serial and SPI: undisturbed packets arrive once and whole, any marks in them; both receivers are back in step within one false packet after losses and resets; answers keep their order, warnings have a cause, the index of an SPI slave that is in time stays in its buffer, buffers are conserved |
| `Drivers_samples` | outside the three windows named above samples are of one measurement and from where they are taken to be; the sonar's value is plausible and follows; each request of the inertial sensor is one command, and bytes between the boards keep their order until one board is ahead of the other; the drivers go on after failures, stops and lost bytes |
| `Gumstix_terminal` | a terminal that keeps sending is given up only by a loop that was further behind than `MaxBehind` when it last took command data, one that is gone is given up; heading and filters follow; the position mode has its tilt within the limit before its cadence is over; gains and trim are used whole; sessions over UDP and TCP are heard and lose no descriptor |
| `ControlLoop_lost_switch` | violation: a state switch set between the read and the clear of its flag is lost (`terminal_port.c` 343-348) |
| `Javiator_stale_signals` | violation: signals stored while the board was locked are put out by the first silent period after it is unlocked (`robo1.c` 198) |
| `Heading_restore` | violation: without fresh command data the winding of the yaw command is taken out twice (`control_loop.c` 627) |
| `Heading_rotation` | violation: without fresh command data the rotated roll/pitch command is rotated again (`control_loop.c` 549) |
| `Filters_median` | violation: the value of the median filter leaves the range of the last updates (`median_filter.c` 134) |
| `RobostixReceiver_overrun` | violation: with size bytes from 250 on the item counter comes round and bytes are stored past `rx_buf` (`serial.c` 170) |

`MCLines`, `MCDrivers` and `MCGumstix` join small models that share nothing: the variable
`part`, chosen at the beginning and kept, says which of them a behaviour is of, and the
others stay as they begin.  The state space is the sum of theirs, not the product, and
fairness is given to the actions of the part.  A property of such a run is the
conjunction of what the parts promise of one kind; each conjunct is a definition of
its module, with the comment that explains it, and for each conjunct that carries a
promise of its own the module has a variant that breaks it.

Observed while modelling and not the subject of a run:

* A poll in `javiator_port_get_data` makes the exchange one packet deeper for good, so
  every later answer prints the warning of a lost packet although none was lost.
* A state switch requested before a shut-down but read after it takes the loop from
  `shutdown` to `ground` (no further, see `NoFlightAfterShutDown`).
* After a silent period the sonar stays off although the link recovers, until the next
  state switch (`robo1.c` 309).
* The item counters of `spi.c` (124-127) and `parallel.c` (269-272) come round as that of
  `serial.c` does: with `IndexInBuffer` of `SpiLink` as an invariant TLC finds the slave's index
  at the end of its buffer after one late byte, and in `ParallelLink` that of a board after one
  change of RDY that fell on another.
* The samples of the three windows are torn: without `~raced` in `SampleIsOneRanging` TLC
  finds two bytes of different rangings copied.
* In the first control loop a tilt that the position mode has brought within its limit
  does not stay there when the pilot switches back to manual mode in flight
  (`control_loop_original.c` 813, 384-404).
* A UDP terminal that restarts at another port is not heard: the socket stays connected
  to the old one.  `TerminalIsHeard` says it of those at the port the socket knows.
* The two threads may close a TCP connection at once; the second `close` then hits
  whatever the descriptor is by then; and one on which `setsockopt` fails is never closed.
  `SessionsAreKept` excepts both.  A
  report written to a connection that was reset raises SIGPIPE, which nothing catches.
* An address of the SRF10 sonar that is set while another transfer is under way may be
  taken for set although the sonar never got it (`srf10.c` 496-505); `SonarKeepsMeasuring`
  excepts it.

### Bounds, and why they are enough

* `ControlLoop_flight`: two motors, so that landing meets motors at different
  speeds; `MotorMax = 5` and `RevStep = 2`, so that a landing takes several steps
  and ends below zero; idle limits below and above zero; `Threshold = 1`, so that a
  single iteration without data is tolerated and a second is not;
  `MaxAttempts = 1` poll.  `WireCap = 1` makes writers wait for the line, and each
  other, at every packet.
* `Robo1_board`: two motors, one of them far below the other, `MotorDec = 2`,
  `NotifyTicks = 2`; the 16-bit range is scaled to -9 .. 8, the smallest for which
  the constants' assumption holds, so that the mutant without its guard wraps.
* `Javiator_system`: one motor, `MotorMax = 3`, `RevStep = 4` (a landing ends below
  zero), `MotorDec = 2` (silence takes two periods), no idle limit and no poll, to
  keep the product of the two components within reach; both are covered by the
  runs of the components.
* `Lines_delivery`, exchange: ids modulo 8, two packets each way, one poll.  The
  assumption `IdMod > 2 * (LineCap + MaxAttempts) + 1` says what the bound stands for:
  no id under way is as old as there are ids (65536 in the code).  Each poll makes the
  exchange one packet deeper, so the number of polls counts.
* `Lines_delivery`, receivers: bytes modulo 16, a buffer of 8, payloads of 0 or 2
  bytes; at most `RobostixLosses` and `GumstixLosses` disturbances until the line has
  been calm for `ResyncAfter` bytes, after which they may happen again.  `ResyncAfter` is
  for how long a false packet can hold a receiver.  The Gumstix takes a size up to
  `BufSize`, so it is `BufSize + 4`, the longest packet behind its marks.  The Robostix
  takes one up to `BufSize - Overhead`, but a byte of zero in the place of the type
  or of the size is passed over and does not count as an item, and a plain packet of
  zeros brings up to `BufSize - 4` of those: `2 * BufSize - 6`.  The payloads contain
  bytes that pass for a type and for the largest size each receiver takes; with
  `BufSize - 2` for the Robostix, which is enough where no packet carries more than two
  zeros, TLC finds a packet lost with `BufSize = 12` and a payload of six zeros.
* `Lines_delivery`, SPI: three packets each way, and one late byte, which is enough for
  either side to take another byte for a size.  `SpiOverhead` is that of the code (6), so
  that all totals below it that the 8-bit counter comes round to are there.  The packet of
  the slave is the longer one, as in the code (`MasterSize <= SlaveSize`, 10 and 30
  bytes): the master goes on until its own packet is out and none of the slave's is half
  in.  With 7 bytes for the master and 6 for the slave TLC finds answers out of turn.
  The number of buffers is at least that of
  types and two more (`NumBuffers`), one that is being filled and one that is being
  read, or the thread would find none free; four buffers and four packets of two types, so
  that a packet displaces one of its type while another is being read, and one
  read that fails.
* `Drivers_samples`: samples and commands a few bytes long, so that an interrupt meets
  every index; the gaps between requests are the shortest the assumption of the module
  allows, which each follows from the speed of a line.  For the IMU that is the time of
  one motor packet: `RequestGap = 3` byte times with replies of 3 bytes that take 6, so
  that requests come in the middle of replies, as between polls 1 ms apart.  A packet
  on the parallel lines is all overhead and fills the buffer, which is the least for which
  an index may pass the counter.  Sonar values 100 and 200 are further
  apart than `Near`, so each is an outlier after the other; three SPI converters,
  so that one is neither the first nor the last; two sonar addresses and periods and
  one change of a setting.
* `Gumstix_terminal`: the loop may be behind by more than a period (`MaxBehind = 3`)
  with the least threshold `TimingAssumption` allows, and by twice as much (`MaxLate = 6`),
  so that a terminal that keeps sending is given up, but for the guard `late`; four units to
  a turn, one unit of spin per
  iteration, headings up to three quarters of a turn either way, so that each
  wrap-around happens in both directions and from every offset (`Bound` is a guard);
  filters of three values, four signal values of which some are outliers; two
  parameter packets of two gains, so that one overtakes the other; two attitudes; two
  ports, two restarts and three connections on two descriptors, so that a
  descriptor is used again.

### Fairness, and why the code justifies it

* Control thread, strong: `start_terminal_thread` (256-273) gives the terminal
  thread a priority below that of the control thread, so the control thread is not
  passed over when the line has room again and again.  Strong fairness is on the
  whole thread, never on one of its branches: whether an exchange fails stays open.
  For the same reason it is strong for the control thread taking the lock of the
  parameters, which the terminal thread takes again and again.
* Threads of `UdpChannel`, `TcpServer`, `AttitudeTrim` and the iterations of `LoopTiming`,
  weak: each is a loop that never waits for the other.
* Line, weak: the UART sends what is in its buffer.
* Watchdog and time, weak: timer T0 runs from `wdog_start` on and is never stopped.
* Main loop of a board, weak, once for each thing a round looks at: each round looks at
  all of them.  Strong for a poll of `Bmu09a` and of `Srf10` that is possible again and
  again: it waits for a converter or a sonar, and every round asks it.
* Interrupts, transfers and rangings, weak: once started, the hardware ends them.
* The terminal of `UdpChannel`, weak: it is the assumption of the promise, that it goes
  on sending; another is that `connect` does not fail for ever.  That the sonar of `Srf10`
  measures again has the premise that transfers fail no longer.
* Not fair: what the terminal asks for, what the line loses, what answers and samples
  bring.

## 5. Proofs

`tlapm M.tla` for each module `M` named `*_proofs`.  The theorems hold for every value of
the constants that satisfies the named assumption of the module (`ConstantsOK`,
`RoboConstantsOK`, `JaviatorConstantsOK`, `TimingAssumption`, `LinesConstantsOK`,
`GumstixConstantsOK`, `DriversConstantsOK`); these ask for no
more than ranges and signs, `TimingAssumption` also for a threshold that makes up for the
time the loop may be behind, `HeadingConstantsOK`, a part of `GumstixConstantsOK`, for a spin
of less than half a turn between two iterations, `LinesConstantsOK` for what the section on bounds says of ids,
sizes and buffers, `DriversConstantsOK` for requests that come no faster than lines and converters allow:
two conversions fit between two motor packets and one into a pulse phase
(`AnalogConstantsOK`), the command for the sensor, though not its reply, between two
requests (`ImuConstantsOK`), a command of three bytes between two commands
(`LaserConstantsOK`).

* `ControlLoop_proofs`: `TypeCorrect`, `SignalsStayInRange`, `RotorsOff`
  (`SettledMeansOff`), `ShutDownStopsRotors` (`ShutDownMeansOff`),
  `TerminalNeededToFly`, `ShutDownEndsFlight`, `LandingIsGentle` (`GentleLanding`, a
  property of steps).  `NoFlightAfterShutDown` is not inductive: a state switch
  may be pending, or already read, when the shut-down is taken down.  The
  inductive invariant therefore follows the control thread label by label: which
  states are possible after the check of the connection, while a shut-down is
  acknowledged, and between the read and the clear of a switch.
* `Robo1_proofs`: `TypeCorrect`, `NoWrapAround`, `LockedBoardIsOff`,
  `BoardImplementsGate`.  The decrement needs three facts that hold together only:
  signals of all motors lie within one range of packets of each other
  (`SpreadKept`), none is above the range (`NoneAbove`), and a decrement happens
  only while one is above zero.  The gate needs that a locked board holds zeros at
  its outputs (`LockedMeansOff`): then every step of the board is one of the gate's, and
  the one step that clears `flag_shut_down` takes a state switch from the line.
* `Javiator_proofs`: `SystemImplementsBoard` (`BoardAsAssumed`), `NoRotorUnasked`
  (`RotorsNeedSwitch`).  The first is a refinement: a step of either thread is a
  `PacketSent` of the board or leaves the line alone, because `Sendable` holds: what
  the threads are about to send is in the range the board was built for.  So what
  `Robo1_proofs` says of the board holds of the whole system.  The second is not
   inductive on the board alone; `NoSwitchAnywhere` says that, as long as no state
  switch was asked for, there is none with the terminal thread, none on the line, and the
  board is locked - whatever else, a shut-down included, was.
* `Gumstix_proofs`: all safety properties of `MCGumstix` (`TypesCorrect`,
  `AliveTerminalIsKept`, `TiltSettles`, `HeadingIsTrue`, `FiltersAreTrue`,
  `SettingsArrive`, `SessionsHold`), from one inductive invariant for each of its eight
  parts; `AllInv` joins them.
  - Clock, `TimingInv`: that a terminal is not given up while it sends is not inductive:
    the count of iterations has no relation to time but through the clock of the loop.
    `CountIsPaidFor` is that relation: as many periods as were counted since the last
    command data are made up for by the time that went by since it was sent, by the lead
    over the clock, and by what the loop was behind when it took them.  Unless that was
    more than `MaxBehind` (`late`), the assumption on the threshold then bounds the count.
  - Heading, `HeadingInv`: what the controllers get is not inductive: the winding number is
    right because the wrapped yaw of the last iteration, less the offset, is kept beside
    it.  `Tracks` says so from the first zero adjustment on.  `WindingMakesUp` is the
    arithmetic: the wrapped angle jumps by a whole turn, and the winding number by one the
    other way, if the angle itself moved by less than half a turn.
  - First control loop, `OriginalInv`: a tilt that is no longer the y controller's has
    been so for no longer than its cadence counter says (`TiltIsYoung`), and a flight is
    never settled.
  - Gains, `ParamsInv`: who holds `terminal_lock` and which flag is set tell how much of
    which packet is in the stored gains and in the copy: gains in use are the stored
    ones, or the flag that there are newer ones is set, or they are about to be set.  That a copy
    is made under the lock, and the flag cleared before it is released, is what keeps
    it.
  - Trim, `TrimInv`: a trim of one attitude is worth that attitude (`IsSum`), and what is
    saved is what the program ended with, unless it was killed.
  - UDP, `UdpInv`: `ThirdFits` says that from the third datagram on
    `comm_recv_packet` is as many bytes into its packet as `udp_read` is into the
    datagram.  The second one is why: wherever the packet stood when it began, after its
    first four bytes it is either in step or idle, with no mark left to begin with
    (`SecondFits`).  So this holds whatever sessions before were cut off at.
  - TCP, `TcpInv`: without a mishap the control thread closes nothing, and `FileIsKnown`
    says for each place terminal_thread can be at whether a descriptor is open.
  - Filters, `FilterInv`: the outputs are compared with the last updates, but follow from
    the buffers, so `Follows` says how each buffer follows from the updates (`Ago`).  The
    median filter forgets which value came when: it keeps its buffer in order, and as
    many copies of a value as updates of it came last stand side by side in it
    (`Copies`), since an update of the same value goes beside them, and what is dropped
    is at the other end of the order, or one copy of many.  While the signal does not fall the
    buffer is the last updates themselves.  The buffer of the average filter is the last
    updates from its index backwards (`InRing`); that it then has the same sum is
    `SumInAnyOrder`: the fold of the community modules takes one index after the other in
    an order of its own, so the sums over all sets of indices are shown to exist and to
    be what it computes.  A value that is far from the one the outlier filter holds was turned down as
    often as it came (`Rejected`).
* `Link_proofs`, `Framing_proofs`, `Lines_proofs`: all six properties of `MCLines`
  (`TypesCorrect`, `WarningsHaveCauses`, `AnswersComeInOrder`, `UndisturbedIsDelivered`,
  `ResyncedIsDelivered`, `BuffersAreConserved`), from one inductive invariant for each of
  its five parts; `LinesInv` joins them.
  - Exchange, `LinkInv`: the age of an id is how many packets were sent after it.
    Along the line from the packets on their way up, over the answer in transmission
    and the answers on their way down, to the data last taken, ages strictly grow;
    each is bounded by what may still be sent before that answer is taken.  So
    no age comes to `IdMod`, different ages are different ids, and what is
    taken is always younger than what was taken before.
  - Receivers, `RobostixInv` and `GumstixInv`: a receiver is in step (its state is
    the function of the packet and the place in it that the transmitter has come to),
    or it is lost: idle, or in a false packet with no more bytes to come than the line
    needs to be calm.  A byte that comes to a lost receiver makes it idle, lets it go on
    in its false packet with one byte less, or begins a false packet, which no plain
    byte does once no mark is on the line.  Idle at the beginning of a packet is in
    step.  The Gumstix sums up byte by byte what the
    transmitter sums at once; that this is the same takes an induction over the place in
    the packet, done with `Induct`.
  - SPI line, `SpiInv`: the slave is in step with the number of bytes clocked; as long
    as it is never late, its index stays in the buffer, and what was in its transmit
    register, in the data register
    and in the master's buffer are the consecutive bytes of one packet
    (`Stream`, `MasterInStep`).
  - Buffers, `BuffersInv`: every buffer is free, pending, being filled or being
    read, and only one of these (`Conserved`).  As long as no read failed, what
    is pending are whole packets of different types, each newer than the last one of its type
    that was received.  That a free buffer is left is a count: of the types that
    are pending, one buffer each.
* `Drivers_proofs`: all four safety properties of `MCDrivers` (`DriverTypesCorrect`,
  `CommandsApart`, `SamplesWhole`, `SonarPlausible`), from one inductive invariant for each
  driver; `DriversInv` joins them.
  - Converter and sonar, `AnalogInv`: that no pulse is lost or converted twice is a matter
    of time.  `Elapsed` bounds the rounds a conversion has taken, so a packet that asks
    for the battery never overwrites a request of the sonar in the one waiting slot
    (`PacketInv`); `Phase`, the rounds since the pulse fell, bounds where its sample may
    still be on its way, so it is fetched before the pulse falls again (`PulseInv`).
    `OwedInv` counts the places a pulse can be in: never more than one.  For the filter
    `RecentInv` says that the last `outlier_count` samples are the wild ones and the one
    before them is the value that is reported.
  - Inertial sensor, `ImuInv`: `RequestInv` says how far request, command and
    interrupt have come, in particular when the interrupt comes between the two
    stores of a command.
  - Parallel link, `ParallelInv`: as long as no board was ahead of the other (`upset`),
    the right to change a RDY line goes back and forth between them, and the receiver's
    place in the packet follows the sender's (`InTurn`).  The theorem says nothing of what
    comes after.
  - BMU, `BmuInv`: the chain of conversions is in exactly one place (`Chain`):
    it waits for the conversion of the chip the next byte is from, or it fetches that
    byte, unless the sensor was started with a transfer pending.
  - Laser, `LaserInv`: the bytes on the line are those of one command, in order.
  - Ultrasonic ranger, `SrfInv`: the step of the timer tells what is on the bus
    (`BusInv`); from the second ranging after a failed transfer on a value is offered only
    when both of its bytes are from the ranging that was last commanded (`CalmInv`,
    `OfferInv`), and it is copied so unless the handler came in between (`raced`).
  - SPI converters, `LtcInv`: only the converter whose turn it is is selected, and the
    byte being fetched is the one `rx_index` waits for (`Turn`), unless a stop left a
    transfer under way.

The inductive invariants of `ControlLoop_proofs`, `Robo1_proofs`, `Link_proofs`,
`Gumstix_proofs` and `Drivers_proofs` were checked by TLC on the instances of the runs, the theorems of the other
modules by the runs that list them.

What the proofs showed of the models: the two bounds on ids and on `ResyncAfter` had been
chosen to fit the instance TLC checks, and were too small for others; that the slave's
packet must not be the shorter one and how many buffers are needed were not stated.

Model-checked only: all liveness (fairness and ENABLED are out of the prover's
reach).  The induction theorems of the library take an operator as a parameter, which
the installed provers cannot instantiate; `Induct` in `Link_proofs` and `Induction` in
`Gumstix_proofs` state induction over the natural numbers with a set in the operator's
place, from the least element of a set, and serve for the recursive function `Checksum`
in `Framing` and for the sums of `Filters`.  There is no RECURSIVE operator in modules
that are proved about.

## 6. Not modelled

* Floating-point arithmetic of Kalman filters, controllers and transformations, and
  with it stability; the altitude controller, whose state is all of that kind.
* Channels of the operating system beyond what two threads do to them:
  `serial_transmit` never returns on a lasting error, which the models take for a line
  without room.  Two threads that write to the serial channel at once are taken to
  write packet by packet.  The client side of the TCP channel is used by no program.
* The Ubisense port: its positions are used by no control loop that is built.
* The Java terminal, the visualisation and the joystick driver: the terminal is the
  environment of the models, which let it do more than it does.
* `control_loop_minimal.c` is the same file, byte for byte, as `control_loop.c`.
  `motor_test_*.c`, `inertial_port.c`, `restore_spi.c`, `timer.c` and `ports.c` are tools or
  empty of state.
* Traces, statistics and formatted output of all programs.
