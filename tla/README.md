# A verification project for ESP8266-PN532

The firmware runs on an ESP8266 and reads MIFARE cards through a PN532 reader
chip, over a bit-banged I2C bus.  It has no operating system to speak of: timer
callbacks of the vendor's SDK and one GPIO interrupt share a handful of global
variables.  This directory models that in TLA+, checks small instances with TLC
and proves the most important results for every instance with TLAPS.

## Inventory

All sources are under `src/esp8266_pn532/driver` unless named.

| Component | Source | State | Operations | Modules |
|---|---|---|---|---|
| Boot sequence | `pn532.c` 215-409, 777-837; `gpio_pins.c` 11-61 | `booting`, loop counters | `pn532Connection`, `pn532GetFirmwareVersion`, `pn532SamConfig`, `pn532ReadPassiveTargetID`, `pn532SetIrqPin` | Pn532Driver, Pn532Boot |
| Interrupt handlers | `gpio_pins.c` 64-110; `pn532.c` 158-213, 449-528, 699-756, 839-924, 993-1010, 1024-1047 | `pn532IrqInt`, `pn532IrqState`, `readingBlock`, `recvBuffer`, `uid` | `pn532IntrHandler` and the six handlers it dispatches to | Pn532Irq |
| Timer callbacks | `pn532.c` 89-156, 411-447, 530-536, 660-697; `wifi.c` 175-202 | four `os_timer_t` | `enablePn532Interrupt`, `pn532SendAuthenticationKey`, `pn532MifareSendReadBlockCommand`, `loop` | Pn532Tasks |
| Writing build | `pn532.c` 190-199, 950-1022 | - | `mifareSendWriteCMD`, `pn532ReadWritenDataFromBlock` | Pn532Tasks, Pn532Irq |
| Build with lights | `pn532.c` 1024-1122; `wifi.c` 175-202 | - | `pn532_led_color`, `pn532_readGpioResp` | Pn532Tasks, Pn532Irq |
| Frames | `pn532.c` 43-87, 613-658, 926-948, 1124-1138 and the commands | `cmd`, `cmdLength`, `uid`, `uidLength` | `commandBuffer`, `pn532ReadAckFrame`, `checkUID`, sector arithmetic, the tests on received bytes | Pn532Bytes; abstracted in Pn532Frame |
| I2C master | `brzo_i2c.c` | `i2c_error`, the two lines | `brzo_i2c_write`, `_read`, `_start_transaction`, `_end_transaction`, `_setup` | BrzoLines, I2cCalls; abstracted in BrzoI2c |
| The reader's promise | all of the above | the console | READY, a report, READY | CardReader |
| Chip, cards, I2C slave | external | pending command or frame, IRQ line, selected card | takes commands, acknowledges, answers | Pn532Chip, I2cSlave |
| Start-up | `user/user_main.c`; `pn532.c` 16-41 | - | `user_init`, `post_user_init_func`, `initVariables` | Wifi, and the initial state of Pn532Driver |
| Wi-Fi | `wifi.c` | `wifi.connection` | `wifi_configuration`, `wifiEventHandler`, `loop` | Wifi |
| UART | `uart.c` | receive ring, transmit FIFO | `uart0_rx_intr_handler`, `uart1_write_char`, `uart1_tx_one_char` | UartRx, Uart |

*How they interact.*  The SDK task runs one timer callback at a time, to its end.
The GPIO interrupt preempts it anywhere outside `brzo_i2c_write` and
`brzo_i2c_read`, which disable interrupts, and so does the UART's receive interrupt,
which is let in on top of the GPIO handler as well: these two calls end by enabling
all interrupts (`RSIL 0`), wherever they are made.  Both sides call the same I2C master,
whose error code `i2c_error` is global and sticky: once set, every later call is
skipped until `brzo_i2c_end_transaction` reads and clears it.  Which handler an
interrupt runs is a global variable, `pn532IrqInt`, set by whoever sent the last
command.  Timers are armed and disarmed from both sides.  Both sides print, and
share the transmit FIFO of UART1.  The Wi-Fi events set `wifi.connection`, which
`loop` reads, and which in the build with lights decides whether it sends commands
to the chip.

*What is hard.*  Lost edges: the handler masks its pin, reads the chip, clears
the pin's status and unmasks it, while the chip goes on; an edge that falls
while the pin is masked or just before the status is cleared is lost, and a
reader that waits for it waits for ever.  Order: two senders select the
handler only after the command is on the wire, and the lights take over the
handler in the middle of a listing.  Partial failure: nearly every
function has early returns that leave a transaction open, a timer disarmed or a
variable changed.  Stale data: the receive buffer, the chip and `i2c_error`
outlive the exchange they belong to.  Boundaries: buffers that are one byte short,
lengths that come from the wire, a clock that is not sampled, a FIFO that two
printers fill.  `PROJECT.json` lists each hazard at its line, with the properties
that are about it.

*What makes each part correct.*  Boot: it ends.  The reader: it never falls deaf
(`NeverDeaf`), it reports a resting card again and again (`CardRead`), it never
reports a card that was not there (`FreshUid`), once per READY
(`OneReportPerReady`); as a whole it does what `CardReader` says (`KeepsPromise`).
The handlers: each finds the answer it was written for (`AnswerMatchesHandler`).
The reading and writing builds: blocks are exchanged with the reported and
authenticated card only (`BlocksOfReportedCard`).  The frames: what is sent is
what was meant (`SentAsMeant`), to the card that was reported
(`PrintedIsAuthenticated`), and no answer to a listing makes the driver write beyond
its struct (`OnlyStraysReachBeyond`).  The I2C master: the bytes arrive and the error
code is right (`ImplementsCalls`), the bus is left free (`BusLeftFree`).  The
UART: no byte is stuck, overwritten out of order or lost (`NoByteStuck`,
`RingHoldsLatest`, `NothingLost`).  Wi-Fi: the flag is late but never wrong
(`FlagCatchesUp`).

## The modules

    Pn532Frame         frames, as far as the driver's decisions depend on them
      Pn532Chip        the chip and the cards (external)
        BrzoI2c        the I2C master's calls, the IRQ pin, the receive buffer
          Pn532Driver  the driver's variables, the two threads of control
            Pn532Boot  pn532Connection and what it calls
            Pn532Tasks the timer callbacks after the boot
            Pn532Irq   the interrupt handler and its handlers
              Pn532Reader          Init, environment, Next, fairness, properties
                MCPn532Reader      small instances for TLC
                Pn532ReaderProofs  the inductive invariants; types and fresh UIDs
                  Pn532ControlProofs   where the threads of control stand
                    Pn532DeafProofs    no edge is lost, no answer mistaken
                      Pn532PromiseProofs  the reports are those promised
      Pn532Bytes       the same frames byte by byte, and all commands
        MCPn532Bytes
        Pn532BytesProofs  the commands are right, the abstract frames true

    CardReader         what the reader promises; Pn532Reader implements it

    I2cSlave           two open-drain lines and a slave (external)
      BrzoLines        brzo_i2c_write and brzo_i2c_read, store by store
        MCBrzoLines
        BrzoLinesProofs    how far the slave is at each piece of the routines;
                           types, the bus left free, the calls implemented
    I2cCalls           what the calls promise; BrzoLines implements it

    UartRx             the receive handler and its ring
      Uart             the two printers and what both sides share
        MCUart
        UartProofs
    Wifi               the station, the events, wifi.connection and loop
      WifiProofs

*Builds.*  The firmware's switches are a variable `build` that `Init` chooses from
the constant `Builds` and nothing changes: `"uid"` (as committed), `"reading"`
(`PN532_READING_BLOCK`), `"writing"` (`PN532_WRITING_DATA`), `"leds"`
(`PN532_CONNECTED_LEDS`).  The operators `PN532_READING_BLOCK` ... stand for the
`#ifdef`s.  One run covers several builds, and a theorem holds for all of them
or names the one it is about.

*Pn532Frame, Pn532Chip.*  `chip` is what the chip is doing: idle, holding a
command, an ACK, busy, or a response.  Its IRQ line is low while a frame waits.  A
new command drops what was pending, which is what the driver's new listings rely
on.  A listing is answered only when there is a card in the field, because
`pn532SamConfig` sets the number of retries to 0xFF.  A frame is two fields: the
kind, for its first 13 bytes, and the UID it carries.

*BrzoI2c.*  `brzo_i2c_write` and `brzo_i2c_read` are one step each, because they
disable interrupts.  A call is skipped (`i2c_error` set), succeeds, or fails; a
failed write may or may not have reached the chip, and a failed read leaves
nothing, a head, a cut UID or everything in the buffer.  `ChipMoves` latches an
edge of the IRQ line if the pin is unmasked and loses it if not.

*Pn532Driver, Pn532Boot, Pn532Tasks.*  `task` and `pc` say which callback the SDK
task runs and which of its steps comes next.  A callback's step is one I2C call
together with the code up to the next point where the interrupt could tell the
difference: the two lines of `brzo_i2c_end_transaction` are two steps.  The boot
sequence runs with the pin masked and its waits are fixed delays: a read that
comes before the chip's answer is a late answer and counts as a fault.

*Pn532Irq.*  `isr` is the handler's next step: entered, read, finished, sending,
exit.  `IsrEnter` is lines 65-66 of `gpio_pins.c`, `IsrExit` lines 106-109.  An
interrupt that is due is taken before the task's next step.

*Pn532Reader.*  Puts these together with cards that come and go and states the
properties.  `seen`, a history variable, holds the cards that have been in the
field since READY was printed; `console` keeps the last report and the last UID.

*CardReader.*  Three variables (`field`, `seen`, `console`) and five actions:
cards enter and leave, READY is said, a card seen since is reported, or refused.
Its fairness says that READY follows every report and that a card that stays is
dealt with.  The refinement mapping is the identity on the three variables; all
the rest of `Pn532Reader` stutters.

*Pn532Bytes.*  One action per function that reads, and one per command that is
written; `uid`, `uidLength` and `recvBuffer` are bytes.  `Offers` pairs the bytes
the chip may send with the frames of `Pn532Frame` that stand for them, so that
`FramesStandForBytes` ties the reader model to the bytes: wherever a read breaks
off, some frame that `BrzoI2c` leaves in the buffer passes exactly the tests
that the bytes pass.  A refused UID is cleared with the length that came from the
wire, which may be 255: `uid` holds `pn532.uid` and `tempUid`, the end of the struct,
and `beyond` how many bytes behind it have been cleared.  The overrun is in the model
and happens in it, with junk (a length of 128) and with the data of a block;
`printed`, a history variable, is the UID that was printed last.

*BrzoLines, I2cSlave, I2cCalls.*  One action is one store to a line with the
half-cycle delay behind it, or one sample of a line; the registers of the inline
assembler are the variables.  The slave reacts to an edge at once (the delays are
there for that) but may hold SCL low for as long as it likes.  In the refinement
a running routine's error register is hidden until it returns.

*UartRx, Uart.*  The handler's loop is one byte per step; bytes come in between.
`uart1_write_char` is a step per character, `uart1_tx_one_char` a look at the
FIFO's level and a write, between which the GPIO interrupt may print.  The receive
handler may run on top of either printer (`isr = "nested"`).  The GPIO handler lets
it in from its first call of `brzo_i2c_read` on; the model, from its beginning.

*Wifi.*  The firmware without the reader, where the Wi-Fi is configured at start-up.
This is not the build that is committed: `user_config.h` 20 defines `PN532_CONNECTED`, and
there `post_user_init_func` starts the reader and not the Wi-Fi.  The SDK's station
joins and loses networks, first by itself with what flash holds, and its events reach
the handler in order and late, or nobody before it is registered.  As a callback of the
SDK `post_user_init_func` runs to its end before any event is delivered, so that it is one
action: between its order to connect and the registration nothing can come.

Assumptions about time, each named in the model:

- `ExchangeOpen`: in the reading and writing builds the exchange that follows a
  UID (two delays of 10 ms and three short commands) is over before
  `enablePn532Interrupt` is due a second later.  If not, it counts as a fault.
- `InItsTime`: in the build with lights a listing is acknowledged before `loop`
  is due, and a command to the lights is over before the next, 100 ms later.  If
  not, it counts as a fault.
- `SwiftIn`: after its last I2C call a handler or a callback has some
  microseconds of instructions left.  Whether the chip may produce its next
  frame in that time is a constant of the model, per build: in a `"handler"`, in a
  `"callback"`, or not.  The properties that hold with any number of faults hold
  at any speed.  `NeverDeaf` needs a chip that does not overtake a handler: with
  `"handler"` in `SwiftIn` TLC loses an edge at once, as the code does.  The
  reading and writing builds, which select their handlers after sending, need a
  chip that does not overtake a callback either.

Data left out of the reader model: what is printed beside the kind of report,
`authenticateBlock`, `uidLength` and `dataInBlock`, which no decision there depends
on (Pn532Bytes has the last two); `brzo_i2c_setup` after an error, which sets the
pins up as they were; `version`, which is zero or not.

## The runs

| Run | Module, bounds | Checks | Shows |
|---|---|---|---|
| Live | MCPn532Reader; four builds, 3 cards (1 refused), no fault, fair, `SwiftIn` = NotInHandlers | NeverDeaf, AnswerMatchesHandler, BlocksOfReportedCard, OneReportPerReady, CardRead, Heartbeat, KeepsPromise | no edge is lost, doubled or taken by the wrong handler; cards are reported again and again; CardReader is implemented |
| Faults | MCPn532Reader; four builds, 3 cards (1 refused), 2 faults, any speed | TypeOK, FreshUid, ReportedThenReady, HandlerNotNested, LoopKeepsGoing | what survives any two faults anywhere: no old UID is reported, a report is followed by a listing, only a refused UID stops the loop callback |
| BootLive | MCPn532Reader; default build and lights, 1 card, 5 faults, fair, any speed | BootGoesOn, CallbacksEnd, BootCompletes | the boot sequence ends, and so does every callback |
| Bytes | MCPn532Bytes; 4 cards, 2 blocks of data, 6 places where a read may break off | TypeOK, SentAsMeant, FramesStandForBytes, TextEnds, OnlyStraysReachBeyond, PrintedIsAuthenticated, CommandFits | the commands are right, the abstract frames true, and what takes the driver beyond its struct |
| Lines | MCBrzoLines; 3 byte values, transfers of up to 3, 2 kinds of slaves | TypeOK, ImplementsCalls, BusLeftFree, CallsEnd | the bit-banged routines implement the calls and end, whatever the slave does; how they leave the bus |
| Uart | MCUart; ring of 2, receive FIFO of 3, transmit limit 2 of 4 | TypeOK, RingHoldsLatest, NoByteStuck, AtMostOneMore, NothingLost, Served, AllPrinted | nothing is stuck or lost in either direction |
| Wifi | Wifi; the build without the reader, 2 networks, 4 events | TypeOK, FlagCatchesUp, LoopTellsTheTruth | the flag is late but never wrong |
| StaleError | MCPn532Reader; default build, 1 fault | TransactionsStartClean | violated: an early return leaves the error set |
| ReadyIsTrue | MCPn532Reader; default build, 1 fault | ReadyIsTrue | violated: one failed write and no UID is read again |
| WholeUid | MCPn532Reader; default build, 1 fault | WholeUid | violated: a cut UID is printed |
| BlocksRead | MCPn532Reader; reading build, no fault | AuthenticatedIsRead | violated: `readingBlock` is left at 3 |
| LinesAck | MCBrzoLines; a slave that stretches its acknowledge | ZeroMeansDone | violated: zero is returned, and the bytes are not those meant |

*The five findings* behind the violated runs, in the code's terms: functions that
return without `brzo_i2c_end_transaction`, so that the next transaction is skipped; a
failed listing that nothing repeats after READY has been printed; a UID that is
printed before the error of its read is looked at; `readingBlock` that stays at 3 when
the second block is refused; the ninth clock of a byte, on which SCL is not sampled, so that
a slave that stretches it falls a bit out of step while the call returns zero.  (SCL is not
sampled on the clock of the STOP either: `BusLeftFree` says what comes of that.)

*The bounds.*  In the reader model cards are compared for equality only, and at
most three UIDs are in play at a time: one in the buffer or chip, one on the
console, one in the field.  One refused card exercises the refusal.  Two faults
suffice for an error of one transaction to meet that of another, and five make
the boot sequence use up its four tries and start again; the build with lights adds
to BootLive the one other callback that loops.  `SYMMETRY` permutes
the accepted cards and is used only in Faults, which checks no liveness.  In Bytes
the UIDs have every length a card's UID has (4, 7, 10) with 0x80 in some and in all
of the bytes that `checkUID` looks at, one block reads as a UID of four bytes and one as a
length of 128, and a read breaks off before, between and after the places that the driver
looks at.  In Lines the bytes have long runs of equal bits and
alternating ones, three of them have a first, a middle and a last, and a limit of
two samples has a sample within it and one beyond.  In Uart the ring wraps after
two bytes, a byte can come beyond the trigger level, the limit is as far from the
depth as in the code (126 of 128), and with two characters for a line feed the one text
is as long as it and the other longer.  In Wifi four
events let a link be lost and won again while earlier events are still on their way;
beyond that the queue makes the SDK wait.  Deadlock is checked everywhere: cards,
networks and bytes can always come or go, and a call can always be made.

*Fairness.*  Reader: weak for the boot sequence, a callback that has begun, the
interrupt handler and the chip: the processor runs code to its end and the chip
executes commands.  Strong for the expiry of each timer after the boot: the SDK
queues an expired timer and runs its callback, though interrupts and other
callbacks may come first again and again.  Strong for the answer to a listing
while no callback runs: it takes milliseconds, and callbacks are seconds apart, so
that a card in the field is found before the lights drop the listing for ever.
BrzoLines: weak for the routine's own steps and nothing for the slave, which may
hold SCL low for ever.  Uart: code that has begun goes on, the line takes what is in
the FIFO, an interrupt that is enabled again and again is taken.  Strong for the two
printers, as the receive handler may come again and again on top of them, and for that
handler's look at an empty FIFO; `AllPrinted`
states its own condition on the bytes that come in, `[]<>(rxFifo = <<>>)`.  Wifi:
the SDK makes its calls and its station keeps trying.  There is no fairness for
cards, networks, incoming bytes or faults.

## The refinements

- `KeepsPromise`: `Pn532Reader` without bus faults implements `CardReader`, fairness
  included, in all four builds (Live).  The safety part is a theorem.
- `ImplementsCalls`: `BrzoLines` implements `I2cCalls`: bytes arrive unchanged and
  in order, the error code says how far the call got, and every call returns
  (Lines).  All of it but the return is a theorem, and that a call takes a bounded
  number of steps is another (`CallsReturn`).
- `FramesStandForBytes`: every buffer of `Pn532Bytes` is represented by a frame of
  `Pn532Frame` on which the driver decides alike (Bytes; proved in `Pn532BytesProofs`).

## The theorems

`Pn532ReaderProofs`, for every set of cards, every bound on faults, every choice of
builds and every value of `SwiftIn`, from the assumptions named in the modules:

- `TypeCorrect`: `Spec => []TypeOK`.  One lemma per group of actions, on lemmas
  about the operators of the chip and the bus (`BusReadType`, `AnswersType` ...).
- `OnlyFreshUids`: `Spec => []FreshUid`.  `FreshUid` alone is not inductive:
  where the UID on the console came from must be traced back through the buffer
  and the chip's response to the field.  `FreshInv` does that.  Its point is the
  implication that the UID handler is selected only when a response in the chip
  is fresh: it is selected by an ACK read without error, READY unselects it, and
  a chip that has just given an ACK holds no response.

`Pn532ControlProofs`, under no more assumptions than those two:

- The first half of the invariant below, `ControlInv`: where the task and the handler
  can stand, that the pin is masked exactly inside a handler, that a handler runs
  with the status latched.  It is inductive by itself, whatever the bus does.
- `HandlerAlone`: `Spec => []HandlerNotNested`.  `brzo_i2c_read` ends with `RSIL 0` also
  inside the handler; the pin is what keeps a second GPIO interrupt out.
- `LoopScheduled`: `Spec => LoopKeepsGoing` and `BootScheduledAgain`:
  `Spec => []BootGoesOn`, what remains of `Heartbeat` and `BootCompletes` without
  fairness: the next callback is due, whatever has failed.  `LoopKeepsGoing` begins with
  the boot sequence, which is to hand over to `loop`, and no step may end it but the
  refusal of a UID; that a UID accepted later starts `loop` again is part of it too.
- `CallbacksReturn`: `Spec => CallbacksEnd`, the other half of that: a callback that has
  begun gets done.  `StepsLeft` counts the steps it may still take, the retries of the
  boot sequence and the three calls of the lights included; every step of the
  callback lowers it, and nothing that comes in between raises it.  `TriesInv`
  says that no loop is beyond its last round.

`Pn532DeafProofs`, for all four builds, every set of cards and a chip that does not
overtake an interrupt handler (`NotOvertaking`):

- `ReaderNeverDeaf`: `Spec => []NeverDeaf`, `AnswersMatch`:
  `Spec => []AnswerMatchesHandler` and `BlocksOfItsCard`: `Spec => [](faults = 0 =>
  BlocksOfReportedCard)`, for any bound on faults as long as none has happened, and
  `OneReport`: `Spec => OneReportPerReady` for `MaxFaults = 0`.
- They rest on one inductive invariant, `DeafInv`: `ControlInv` and, as its second
  half, `ExchangeInv`, which places the
  current exchange with the chip at one of eight stations: `Parked` before the
  first listing; `Announced`, by a callback that selects the handler first and
  then sends; `Sending`, by a callback that sends first; `Chained`, the second block
  asked for inside the handler of the first; `Sent`, `Awaited`, `Taken`, the way from the
  command to its answer; `Done`.  Each says where the edge is that will move
  the exchange on (still to come with the pin unmasked, or latched and not yet
  used), which handler is selected for it and which answer the chip will give, and
  for the commands to a card that it is the card printed last, authenticated, and
  that the timer of the next listing runs (`CardKept`).  A station is left for
  another only in the order of the code, or back to `Announced` by a timer; only
  `Parked`, `Taken` and `Done` may rest without an edge to come, as the timer runs
  there.  `NeverDeaf` speaks of the state at rest only and says nothing of the steps
  between, so it is not inductive; nor is `AnswerMatchesHandler`, which says nothing
  of an answer that is still in the chip.
- `NotOvertaking` is needed.  With `"handler"` in `SwiftIn` `NeverDeaf` is false; in the
  reading and writing builds, whose senders select the handler after the command is on
  the wire, it is false with `"callback"` as well.  The Live run is an instance of it.

`Pn532PromiseProofs`:

- `NoLastReport`: `Spec => []ReportedThenReady`, with no assumption beyond those of
  the modules: all builds, any number of faults, any speed.  `ReportInv` adds what
  holds between the disarming of the timer and its being armed again inside one
  handler.
- `ReportsAsPromised`: `Spec => Promise!SafeSpec` for all four builds, under
  `MaxFaults = 0` and `NotOvertaking`: the safety part of `KeepsPromise` for every set
  of cards.  Every step that prints is shown to be one
  of `CardReader`'s and every other to stutter.  That the card reported was seen
  comes from `FreshInv`; that READY is what was said last, from `DeafInv`; that a
  refusal has a refused card in `seen`, from `TargetInv`: without a fault what the
  UID handler finds is always a whole card, so that what it refuses is one that
  `checkUID` rejects and not a damaged frame.
- `CleanStarts`: `Spec => [](faults = 0 => TransactionsStartClean)` and `WholeReports`:
  `Spec => [](faults = 0 => WholeUid)`, with any bound on faults as long as none has
  happened, the second under `NotOvertaking`.  They are the limits of two findings: what StaleError and
  WholeUid show takes exactly the one failure that these runs allow.

`BrzoLinesProofs`, for every buffer length, every set of bytes, every clock stretch
limit and, unless said otherwise, every slave that does not stretch its acknowledge
(`NoAckStretch`):

- `TypeCorrect`: `Spec => []TypeOK`; the registers keep to their widths and the index
  to the buffer.  `LeavesBusFree`: `Spec => BusLeftFree`, in words: after a success or a
  NACK both lines are high and the slave has seen the STOP, or it still holds the STOP's
  clock.  The latter is possible only after a write that has returned zero, with a slave
  that stretches the clock after a byte; the next call then finds the bus taken (code 1)
  or, if the slave has let go, gives it a START.
- `CallsAsPromised`: `Spec => I2c!SafeSpec`, the safety part of `ImplementsCalls`: what a
  write hands over are the caller's bytes, what a read stores are the slave's, and
  the code returned is one that says how far the call got.  Every store and every
  sample is shown to be a step of `I2cCalls` or unseen by it.
- The inductive invariant, `LinesInv`, says of each piece of the routines how far
  the slave is: how many bits of the byte have passed, that the slave's shift
  register holds exactly those bits (`Arrived`), or that what has been received are
  the upper bits of what it is sending (`SendsBack`), how many whole bytes it has
  taken or given, and who holds which line.  While the slave stretches the clock of
  a bit, that bit has not passed yet.  That eight bits make the byte is arithmetic
  with quotients and powers of two (`Top`, `Kept`).
- `ZeroIsDone`: `Spec => ZeroMeansDone`.  LinesAck shows it violated without
  `NoAckStretch`: that one clock is all the finding rests on.
- `CallsReturn`: `Spec => CallsEnd`, for every slave, also one that stretches its
  acknowledge or holds SCL low for ever: each step of a call leaves fewer to be taken.
  The clock stretch limit, the bits and the bytes are counted down (`StepsLeft`);
  `CountInv` keeps these counters in their ranges.

`UartProofs`, for every ring, FIFO, trigger level, limit and text:

- `TypeCorrect`: `Spec => []TypeOK`; the write position stays inside the ring.
- `FifoBounded`: `Spec => []AtMostOneMore`.  `RoomKept` says what a
  printer about to write knows of the FIFO: the handler, which nothing preempts,
  still has the room it has seen; of the task's room the handler may have used all
  but the limit's last place.
- `NothingStuck`: `Spec => []NoByteStuck`.
- `RingRight`: `Spec => []RingHoldsLatest`.  `RingInv` adds that no more bytes are
  remembered than the ring has places, without which an overwritten place could
  still be claimed.
- `TextsWhole`: `Spec => []NothingLost`.  `TextInv` adds that a printer between two
  characters has sent the last one whole; that the write to the FIFO never finds it
  full comes from `RoomKept`.  The texts are joined with `FlattenSeq`, whose laws at both
  ends (`FlattenAppend`, `FlattenHead`) are shown by induction.

`WifiProofs`, for every bound on the events under way:

- `TypeCorrect`: `Spec => []TypeOK`, `FlagNeverWrong`: `Spec => []FlagCatchesUp`.  `Told` is what the last
  telling event of the queue says, or the flag when there is none; the handler
  leaves it alone (`HandleTold`), and every change of the link changes it to the
  truth (`PostTold`).  `StartUp` is the strengthening: before the handler is
  registered events are dropped, so that `Told` may be worse than the truth but
  not better (`DropTold`), and the disconnect of `setup_wifi_st_mode` makes the two
  meet.  The types need it too: the network the station is given is the one
  `initVariables` has set.

`Pn532BytesProofs`, for every set of cards, of blocks and of places where a read may
break off that `BytesAssumption` allows: UIDs of four, seven or ten bytes, of which the
bad ones are exactly those the driver refuses, blocks of sixteen bytes:

- `TypeCorrect`: `Spec => []TypeOK`; it is all that the others but one need of the state,
  as each is about one function and its event.
- `SentRight`: `Spec => []SentAsMeant`, every command is a frame the chip's manual would
  read as that command; `Fit`: `Spec => []CommandFits`.
- `FramesTrue`: `Spec => []FramesStandForBytes`, so that what is proved of the reader on
  the frames of `Pn532Frame` is about the bytes the driver tests; `TextStops`:
  `Spec => []TextEnds`, the text of a block that is printed without a terminator ends in
  the receive buffer, as an accepted status means that a preamble or nothing has come
  before it (`PreambleIsThere`).
- `ListingsStayInside`: `Spec => OnlyStraysReachBeyond`.  An answer to a listing has a card's
  length at its byte 13, or nothing when the read broke off before (`ShortUids`), and a
  refused UID is cleared as far as that length and no further (`UidNoted`).  It is the part
  that holds of a claim that does not, that a refused UID is cleared inside the struct.
  What else the UID handler can read is a matter of the reader model: without a failed
  transaction nothing but such answers (`AnswersMatch`, for a chip that does not overtake a
  handler); after one failure, or with a faster chip, junk, acknowledgements and the data
  of blocks as well.
- `AuthenticatesPrinted`: `Spec => []PrintedIsAuthenticated`.  `UidIsPrinted` is the
  strengthening: a UID whose length is not zero is the one that was printed last, however
  many longer ones have been refused in the same array since.
- The sums are recursive functions.  That they exist, are the only ones and depend on
  the bytes alone (`SumsExist`, `SumsUnique`, `SumFrame`) is shown by `SetInduction`,
  which states induction over the naturals for a set, from their well-foundedness.
  `WholeSum` and `FrameRead` then say that what `commandBuffer` puts around a command
  makes the sum zero.  `OfferKinds` sorts what the chip may send into four kinds by the
  bytes the driver looks at; the rest is a case distinction on whether a read broke off
  before or after the status and the length.

Every invariant and action property that a passing run checks is a theorem, under the
assumptions named above.  Model-checked only is all liveness (`CardRead`, `Heartbeat`,
`BootCompletes`, `Served`, `AllPrinted`, `LoopTellsTheTruth`, the fairness in
`KeepsPromise` and `ImplementsCalls`): the prover has no rule for `ENABLED`.  Of `Heartbeat`, `BootCompletes` and the return of the
I2C calls the parts that need no fairness are proved, as said above: the next
step is due, and there are only so many of them.

## Not modelled

- Combinations of the build switches: each switch is modelled alone.
- The reader on a bus that stays taken: `BrzoI2c` lets any call fail, but not all
  calls for ever, which is what follows a time-out in the middle of a byte
  (`brzo_i2c_reset_bus` is empty, "Not yet implemented", `brzo_i2c.c` 947-949).
- The repeated start and the empty transfer of `brzo_i2c`, which `pn532.c` never asks
  for.
- An edge of the IRQ line inside a call of `brzo_i2c`: a call is one step for the chip,
  and how fast the chip may go on after it is `SwiftIn`.
- The SDK's inside, and the interrupt levels other than "enabled" and "disabled".  That
  `RSIL 0` enables interrupts inside the GPIO handler is modelled where it can be seen: in
  Uart, where the receive interrupt comes in.  In the reader the pin is masked there, so
  that no second GPIO interrupt can come (`HandlerAlone`).
- What lies behind the struct `pn532`: Pn532Bytes counts the bytes that are cleared
  there and does not say what they hold.
- The values of uninitialised locals: `j` (`pn532.c` 416, 959) is zero in the committed
  firmware; `authenticate_block` (90) is read on a path no caller takes.
- `uart0_tx_buffer`, `disablePn532Interrupt` and other functions nobody calls;
  `user_rf_cal_sector_set` and `bootingInfo`, which compute or print; debug texts.
- Declarations, build and workspace files.
