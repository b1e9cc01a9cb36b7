---------------------------- MODULE Pn532Reader ----------------------------
(***************************************************************************)
(* The card reader as a whole: the firmware (boot, timer callbacks, the    *)
(* IRQ pin's interrupt), the chip, and the cards that come and go.         *)
(***************************************************************************)
EXTENDS Pn532Boot, Pn532Tasks, Pn532Irq

vars == <<bus, envVars, pinIntr, booting, irqVars, readingBlock, timerVars,
          taskVars, isr, console>>

firmware == <<i2c_error, recvBuffer, pinIntr, faults, booting, irqVars,
              readingBlock, timerVars, taskVars, isr, console>>

Init == ChipInit /\ BusInit /\ DriverInit

-----------------------------------------------------------------------------
(* The environment.                                                        *)

CardEnters(card) ==
    /\ field = NoCard
    /\ field' = card
    /\ seen' = seen \cup {card}
    /\ UNCHANGED <<build, chip, gpioStatus, firmware>>

CardLeaves ==
    /\ field # NoCard
    /\ field' = NoCard
    /\ UNCHANGED <<seen, build, chip, gpioStatus, firmware>>

\* After its last I2C call a handler or a callback has only instructions left
\* to run.  Whether the chip gets a word in there is what SwiftIn says.
ChipTurn ==
    /\ isr \in {"finish", "send", "sendEnd", "exit"} => "handler" \in SwiftIn[build]
    /\ pc \in {"endRead", "endClear", "finish"} => "callback" \in SwiftIn[build]

ChipAcknowledges ==
    /\ ChipTurn /\ chip.phase = "command"
    /\ ChipMoves(Acknowledged(chip))
    /\ UNCHANGED <<envVars, firmware>>

ChipAnswers ==
    /\ ChipTurn /\ chip.phase = "busy"
    /\ \E c \in Answers(chip, field) : ChipMoves(c)
    /\ UNCHANGED <<envVars, firmware>>

Environment ==
    (\E card \in Card : CardEnters(card)) \/ CardLeaves

Chips == ChipAcknowledges \/ ChipAnswers

Next ==
    \/ Boot
    \/ LoopFires \/ EnableFires \/ Pn532TimerFires
    \/ CallbackSteps
    \/ Interrupt
    \/ Chips
    \/ Environment

Spec == Init /\ [][Next]_vars

-----------------------------------------------------------------------------
(* Fairness.  The processor keeps running: an interrupt handler and a      *)
(* callback that has begun run to their end.  The chip acknowledges and    *)
(* executes what it is told.  The SDK runs every armed timer's callback,   *)
(* though others and interrupts may come first, hence strong fairness.     *)
(* So does a listing of a card in the field, which takes milliseconds, come *)
(* to its answer between two callbacks, which are seconds apart.           *)
(* Nothing makes cards come or go.                                         *)

Fairness ==
    /\ WF_vars(Boot)
    /\ WF_vars(CallbackSteps)
    /\ WF_vars(Interrupt)
    /\ WF_vars(Chips)
    /\ SF_vars(task = "none" /\ chip.cmd = "listPassiveTarget" /\ ChipAnswers)
    /\ SF_vars(LoopFires)
    /\ SF_vars(EnableFires)
    /\ SF_vars(Pn532TimerFires)

FairSpec == Spec /\ Fairness

-----------------------------------------------------------------------------
(* Properties.                                                             *)

\* The two-valued part of the state.
FlagsOK ==
    /\ i2c_error \in BOOLEAN
    /\ pinIntr \in BOOLEAN
    /\ gpioStatus \in BOOLEAN
    /\ booting \in BOOLEAN
    /\ initTimer \in BOOLEAN
    /\ enableInterruptTimer \in BOOLEAN
    /\ taskError \in BOOLEAN

\* All other variables.
DataOK ==
    /\ build \in Builds
    /\ chip \in Chip
    /\ field \in Card \cup {NoCard}
    /\ seen \subseteq Card
    /\ recvBuffer \in Frame
    /\ faults \in 0..MaxFaults
    /\ pn532IrqInt \in IrqInt
    /\ pn532IrqState \in IrqState
    /\ readingBlock \in {PN532_READING_SSID_BLOCK, PN532_READING_PSWD_BLOCK}
    /\ osLoopTimer \in {"off", "loop", "pn532Connection"}
    /\ pn532Timer \in {"off", "authenticate", "readBlock", "writeBlock"}
    /\ task \in {"none", "connection", "loop", "enable", "authenticate",
                "readBlock", "writeBlock"}
    /\ pc \in {"none"} \cup BootStep \cup CallbackStep
    /\ tries \in 0..4
    /\ isr \in {"none", "dispatch", "finish", "send", "sendEnd", "exit"}
    /\ console \in [line : {"none", "ready", "uid", "error"}, uid : Uid]

\* Every variable keeps to its type: no handler selector leaves the set of
\* handlers, the boot loops stay within their limits, and what is printed as a
\* UID came out of a frame.
TypeOK == FlagsOK /\ DataOK

\* Nothing runs or is about to, and no timer will start another listing.
Quiet ==
    /\ ~booting
    /\ task = "none" /\ isr = "none"
    /\ ~gpioStatus
    /\ ~enableInterruptTimer

\* A listing is under way at the chip, and the interrupt handler expects just
\* what the chip sends next: its ACK, or the card it has found.
Listening ==
    /\ chip.cmd = "listPassiveTarget"
    /\ \/ /\ pn532IrqInt = "IRQ_ACK_FRAME" /\ pn532IrqState = "GETTING_CARD"
          /\ chip.phase = "command"
       \/ pn532IrqInt = "IRQ_READ_UID" /\ chip.phase = "busy"

\* A command to the lights is under way and the handler expects what the chip
\* sends next; the end of that exchange arms the timer for the next listing.
Lighting ==
    /\ chip.cmd = "writeGpio"
    /\ \/ /\ pn532IrqInt = "IRQ_ACK_FRAME" /\ pn532IrqState = "WRITING_GPIO_DATA"
          /\ chip.phase = "command"
       \/ pn532IrqInt = "IRQ_GPIO_READ_RESP" /\ chip.phase = "busy"

\* As long as no I2C transaction has failed, the reader never falls deaf: when
\* the firmware has come to rest with no further listing scheduled, a listing
\* is under way and the interrupt will take up its answer, or the lights, whose
\* command has dropped the listing, are about to schedule one.  Every edge the
\* driver depends on has then been latched and handled.
NeverDeaf == faults = 0 /\ Quiet => Listening \/ Lighting

\* After READY TO READ NEXT UID has been printed the reader reads the next
\* UID, whatever has happened on the bus before.
ReadyIsTrue == Quiet /\ console.line = "ready" => Listening

\* As long as no I2C transaction has failed, every handler finds the answer it
\* was written for: the UID handler a listing, the authentication handler the
\* result of an authentication, the block handler the data of the block that it
\* is going to print, readingBlock, and the handlers that do not look at what
\* they read the answers to a written block and to the lights.
AnswerMatchesHandler ==
    faults = 0 =>
        /\ Finishing("IRQ_READ_UID") => recvBuffer.kind = "target"
        /\ Finishing("IRQ_READ_AUTHENTICATION") =>
                /\ chip.cmd = "authenticate"
                /\ recvBuffer.kind \in {"success", "failure"}
        /\ Finishing("IRQ_READ_BLOCK_DATA") =>
                /\ chip.cmd = ReadCommand(readingBlock)
                /\ recvBuffer.kind \in {"success", "failure"}
        /\ Finishing("IRQ_WRITE_DATA") =>
                /\ chip.cmd = "writeBlock"
                /\ recvBuffer.kind \in {"success", "failure"}
        /\ Finishing("IRQ_GPIO_READ_RESP") =>
                chip.cmd = "writeGpio" /\ recvBuffer.kind = "done"

\* A complete UID on the console belongs to a card that has been in the field
\* since READY was printed: nothing an earlier card has left in the receive
\* buffer or in the chip is ever reported, even after I2C errors.
FreshUid ==
    console.line = "uid" /\ console.uid # CutUid => console.uid \in seen

\* A report, good or bad, is never the last one: the timer for the next listing
\* is armed until READY is printed.
ReportedThenReady ==
    console.line \in {"uid", "error"} => enableInterruptTimer

\* A block is read or written only when the selected card has let itself be
\* authenticated, and that card is the one whose UID was printed last.
BlocksOfReportedCard ==
    chip.cmd \in BlockCommands /\ chip.phase \in {"command", "ack", "busy"} =>
        /\ chip.authed
        /\ console = [line |-> "uid", uid |-> chip.selected]

\* A handler runs with its pin masked: though brzo_i2c_read lowers the
\* interrupt level inside it, no second GPIO interrupt can be taken there.
HandlerNotNested == isr # "none" => ~pinIntr

\* The loop callback is armed, runs, or is armed again by the UID handler that
\* has disarmed it; before that the boot sequence is still to arm it.
LoopGoesOn ==
    \/ booting \/ task = "connection"
    \/ osLoopTimer = "loop" \/ task = "loop"
    \/ Finishing("IRQ_READ_UID")

\* Only a refused UID stops the loop callback: the boot sequence, however it
\* went, hands over to it, and once it goes on, after the boot or after the UID
\* that follows a refused one, every step but a refusal keeps it going.
LoopKeepsGoing == [][LoopGoesOn /\ ~UidRejected => LoopGoesOn']_vars

\* As long as the firmware has not booted pn532Connection runs or is due: no
\* failed attempt is the last.
BootGoesOn ==
    booting => initTimer \/ osLoopTimer = "pn532Connection" \/ task = "connection"

\* How many steps a callback still has to go when it stands at a step in the
\* last round of its loop.
StepsFrom(step) ==
    CASE step \in {"none"}              -> 0
      [] step \in {"park", "rearm"}     -> 1
      [] step \in {"setPin", "finish"}  -> 2
      [] step \in {"listCheck", "endClear"} -> 3
      [] step \in {"listAck", "endRead"} -> 4
      [] step \in {"listWrite", "write"} -> 5
      [] step \in {"samEnd", "led"}     -> 6
      [] step = "samRead"               -> 7
      [] step = "samAck"                -> 8
      [] step = "samWrite"              -> 9
      [] step = "rfCheck"               -> 10
      [] step = "rfRead"                -> 11
      [] step = "rfWrite"               -> 20
      [] step = "fwDone"                -> 21
      [] step = "fwRead"                -> 22
      [] step = "fwAckCheck"            -> 23
      [] step = "fwAck"                 -> 24
      [] step = "fwWrite"               -> 25

\* The rounds that the loop of a callback may still begin, in steps.
RoundsLeft ==
    CASE pc \in {"fwWrite", "fwAck", "fwAckCheck", "fwRead", "fwDone"} ->
            (3 - tries) * 5
      [] pc \in {"rfRead", "rfCheck"} -> (4 - tries) * 2
      [] task = "loop" /\ pc # "rearm" -> (2 - tries) * 5
      [] OTHER -> 0

StepsLeft == StepsFrom(pc) + RoundsLeft

\* Every callback comes to its end in a bounded number of steps, whatever the
\* bus does: each of its steps brings the end nearer, and nothing that comes
\* in between puts it off.
CallbacksEnd ==
    [][task # "none" =>
        IF Boot \/ CallbackSteps THEN StepsLeft' \in 0..(StepsLeft - 1)
                                ELSE StepsLeft' = StepsLeft]_vars

\* Each READY TO READ NEXT UID is followed by at most one report, a UID or an
\* error, before the next READY: no edge makes pn532ReadCardUid run twice.
OneReportPerReady ==
    [][UidRejected \/ UidAcceptedStep => console.line = "ready"]_vars

\* A transaction does not inherit the error of an earlier one: at the first
\* write of every callback the error code is clear.
TransactionsStartClean ==
    task # "none" /\ pc \in {"write", "fwWrite", "rfWrite", "listWrite"} =>
        ~i2c_error

\* What is printed as a UID is the whole UID.
WholeUid == console.uid # CutUid

\* Every successful authentication is followed by the reading of the blocks.
AuthenticatedIsRead ==
    [][AuthAccepted /\ ~i2c_error => pn532Timer' = "readBlock"]_vars

\* The boot sequence comes to its end, whatever the bus does for a while.
BootCompletes == <>(~booting)

\* A card that stays in front of the reader is reported, again and again.
CardRead ==
    \A card \in Card \ BadCard :
        <>[](field = card) => []<>(console = [line |-> "uid", uid |-> card])

\* The loop callback keeps being called once the field stays empty, unless the
\* last card was refused, or if no card ever came that is.
Heartbeat ==
    \/ <>[](field = NoCard /\ console.uid # NoCard)
    \/ [](field \notin BadCard) /\ <>[](field = NoCard)
    => []<>(task = "loop")

\* As long as no I2C transaction fails, the firmware keeps what CardReader
\* promises: the whole of it, seen through the reports on the console, is a
\* reader that says READY, deals with one card that was there, and says READY
\* again.
Promise == INSTANCE CardReader WITH
    Card <- Card, BadCard <- BadCard, NoCard <- NoCard,
    field <- field, seen <- seen, console <- console

KeepsPromise == Promise!Spec
=============================================================================
