-------------------------- MODULE Pn532ReaderProofs --------------------------
(***************************************************************************)
(* Proofs about Pn532Reader, for every set of cards, every bound on the    *)
(* faults, all builds and every speed of the chip.  The first part states  *)
(* the inductive invariants behind these theorems and those of the modules *)
(* that extend this one.                                                   *)
(***************************************************************************)
EXTENDS Pn532Reader, TLAPS

-----------------------------------------------------------------------------
(* Why only fresh UIDs are printed.  It holds for all builds, any number   *)
(* of faults and any speed of the chip.                                    *)

\* A response that waits in the chip carries the UID of a card seen since the
\* last READY, or no whole UID.
ResponseFresh ==
    chip.phase = "response" => chip.response.uid \in seen \cup {NoCard, CutUid}

\* The handler has just taken an ACK for good.
AckTaken ==
    Finishing("IRQ_ACK_FRAME") /\ IsAckFrame(recvBuffer) /\ ~i2c_error

FreshInv ==
    /\ field \in Card => field \in seen
    /\ ~IsAckFrame(chip.response)
    /\ pn532IrqInt = "IRQ_READ_UID" => ResponseFresh
    /\ AckTaken => ResponseFresh
    /\ Finishing("IRQ_READ_UID") =>
            recvBuffer.uid \in seen \cup {NoCard, CutUid}
    /\ FreshUid

-----------------------------------------------------------------------------
(* Why the reader never falls deaf and every handler finds its answer, in  *)
(* all builds, with a chip that does not overtake an interrupt handler.    *)

\* The chip never acts behind the last I2C call of an interrupt handler, nor,
\* in the builds whose senders set the handler of the ACK up after they have
\* sent, behind that of a callback.
NotOvertaking ==
    \A b \in Builds :
        /\ "handler" \notin SwiftIn[b]
        /\ b \in {"reading", "writing"} => "callback" \notin SwiftIn[b]

\* The callbacks that go on with a card, all run by pn532Timer.
Senders == {"authenticate", "readBlock", "writeBlock"}

\* The threads of control, whatever happens on the bus.
ControlInv ==
    /\ booting =>
        /\ isr = "none" /\ ~pinIntr /\ ~gpioStatus /\ ~enableInterruptTimer
        /\ task \in {"none", "connection"} /\ pc # "park"
        /\ osLoopTimer # "loop"
        /\ osLoopTimer = "pn532Connection" => ~initTimer
    /\ ~booting =>
        /\ pinIntr <=> isr = "none"
        /\ isr # "none" => gpioStatus
        /\ ~initTimer /\ osLoopTimer # "pn532Connection"
        /\ task = "connection" => pc = "park"
    /\ booting \/ task = "connection" =>
        /\ pn532IrqState = "STATUS_IDLE"
        /\ pn532IrqInt \in {"IRQ_IDLE", "IRQ_ACK_FRAME"}
        /\ pn532Timer = "off"
    /\ task = "connection" =>
        ~initTimer /\ osLoopTimer = "off" /\ pc \in BootStep
    /\ task = "loop" => pc \in CallbackStep
    /\ task \in {"enable"} \cup Senders => pc \in CallbackStep \ {"led", "rearm"}
    /\ build \notin {"reading", "writing"} =>
        pn532Timer = "off" /\ task \notin Senders
    /\ isr \in {"send", "sendEnd"} => pn532IrqInt = "IRQ_READ_BLOCK_DATA"

\* The commands to a card that has been reported.
CardCommands == {"authenticate"} \cup BlockCommands

\* What the driver expects of a command once it has booted: the state in which
\* it waits for the ACK, and the handler of the response.
StateOf(cmd) ==
    CASE cmd = "listPassiveTarget" -> "GETTING_CARD"
      [] cmd = "authenticate"      -> "GETTING_BLOCK_AUTH"
      [] cmd \in ReadCommands      -> "GETTING_BLOCK_DATA"
      [] cmd = "writeBlock"        -> "WRITING_BLOCK_DATA"
      [] cmd = "writeGpio"         -> "WRITING_GPIO_DATA"
      [] OTHER                     -> "none"

HandlerOf(cmd) ==
    CASE cmd = "listPassiveTarget" -> "IRQ_READ_UID"
      [] cmd = "authenticate"      -> "IRQ_READ_AUTHENTICATION"
      [] cmd \in ReadCommands      -> "IRQ_READ_BLOCK_DATA"
      [] cmd = "writeBlock"        -> "IRQ_WRITE_DATA"
      [] cmd = "writeGpio"         -> "IRQ_GPIO_READ_RESP"
      [] OTHER                     -> "none"

\* The kinds of frames the chip answers a command with.
AnswerKinds(cmd) ==
    CASE cmd = "getFirmwareVersion" -> {"firmware"}
      [] cmd = "listPassiveTarget"  -> {"target"}
      [] cmd \in Settings           -> {"done"}
      [] cmd \in CardCommands       -> {"success", "failure"}
      [] OTHER                      -> {}

\* The chip holds nothing that could be taken for the ACK of a new command,
\* and no command to a card.
Unacknowledging ==
    /\ chip.phase \in {"idle", "busy", "response"}
    /\ chip.phase = "busy" => chip.cmd \notin BlockCommands

\* The edge of a frame that waits is latched and not yet used.
Latched == gpioStatus /\ isr \in {"none", "dispatch"}

\* No edge is latched but the one whose handler is about to end.
Settled == isr = "exit" \/ (isr = "none" /\ ~gpioStatus)

\* The card in the chip is the one printed last.
SelectedIsReported == console = [line |-> "uid", uid |-> chip.selected]

\* While an exchange with a card goes on the timer of the next listing runs;
\* a block is asked for under the authentication of the card printed last, and
\* it is the block that readingBlock names.
CardKept ==
    chip.cmd \in CardCommands =>
        /\ enableInterruptTimer
        /\ SelectedIsReported
        /\ chip.cmd \in BlockCommands => chip.authed
        /\ chip.cmd \in ReadCommands => chip.cmd = ReadCommand(readingBlock)

\* The stations of an exchange.  First: the timer of the first listing runs and
\* the handler is parked.
Parked ==
    /\ enableInterruptTimer /\ pn532Timer = "off"
    /\ task \in {"none", "loop"} /\ pc \notin {"write", "endRead", "endClear", "finish"}
    /\ pn532IrqInt = "IRQ_IDLE"
    /\ isr \in {"none", "dispatch", "exit"}
    /\ Unacknowledging

\* Announced, not yet sent.  What is left of an older exchange is not an ACK.
Announced ==
    /\ pc = "write" /\ pn532Timer = "off"
    /\ \/ /\ task = "enable" /\ pn532IrqState = "GETTING_CARD"
          /\ ~enableInterruptTimer
       \/ task = "loop" /\ pn532IrqState = "WRITING_GPIO_DATA"
    /\ pn532IrqInt = "IRQ_ACK_FRAME"
    /\ isr = "finish" => ~IsAckFrame(recvBuffer)
    /\ Unacknowledging

\* A sender that sets the handler up when it has sent; the chip waits for it.
Sending ==
    /\ task \in Senders /\ pn532Timer = "off" /\ enableInterruptTimer
    /\ isr = "none" /\ ~gpioStatus
    /\ SelectedIsReported
    /\ task \in {"readBlock", "writeBlock"} => chip.authed
    /\ task = "readBlock" => readingBlock = PN532_READING_SSID_BLOCK
    /\ IF pc = "write"
          THEN chip.phase = "idle"
          ELSE /\ chip.phase = "command"
               /\ CASE task = "authenticate" -> chip.cmd = "authenticate"
                    [] task = "readBlock"    -> chip.cmd = ReadCommand(readingBlock)
                    [] task = "writeBlock"   -> chip.cmd = "writeBlock"

\* The second block is requested inside the handler of the first.
Chained ==
    /\ pc # "write" /\ task \notin Senders
    /\ pn532Timer = "off" /\ enableInterruptTimer
    /\ SelectedIsReported /\ chip.authed
    /\ \/ isr = "send" /\ chip.phase = "idle"
       \/ /\ isr = "sendEnd" /\ chip.phase = "command"
          /\ chip.cmd = ReadCommand(readingBlock)

\* Sent: if the chip has acknowledged, the edge is latched and not yet used.
Sent ==
    /\ pc # "write" /\ task \notin Senders /\ pn532Timer = "off"
    /\ pn532IrqInt = "IRQ_ACK_FRAME" /\ pn532IrqState = StateOf(chip.cmd)
    /\ chip.cmd = "listPassiveTarget" => ~enableInterruptTimer
    /\ CardKept
    /\ \/ /\ chip.phase = "command"
          /\ isr = "finish" => ~IsAckFrame(recvBuffer)
          /\ isr \notin {"send", "sendEnd"}
       \/ chip.phase = "ack" /\ Latched
       \/ chip.phase = "busy" /\ isr = "finish" /\ IsAckFrame(recvBuffer)

\* Acknowledged: if the chip has answered, the edge is latched.
Awaited ==
    /\ pc # "write" /\ task \notin Senders /\ pn532Timer = "off"
    /\ pn532IrqInt = HandlerOf(chip.cmd)
    /\ chip.cmd = "listPassiveTarget" => ~enableInterruptTimer
    /\ CardKept
    /\ \/ chip.phase = "busy" /\ Settled
       \/ chip.phase = "response" /\ Latched

\* The response has been read, and the handler looks at it.
Taken ==
    /\ pc # "write" /\ task \notin Senders /\ pn532Timer = "off"
    /\ pn532IrqInt = HandlerOf(chip.cmd)
    /\ chip.phase = "idle" /\ isr = "finish"
    /\ recvBuffer.kind \in AnswerKinds(chip.cmd)
    /\ chip.cmd = "listPassiveTarget" =>
        /\ enableInterruptTimer
        /\ console.line = "ready"
        /\ recvBuffer.uid = chip.selected
    /\ chip.cmd = "authenticate" /\ recvBuffer.kind = "success" => chip.authed
    /\ CardKept

\* The handler has looked at it.  If pn532Timer runs, there is more to come.
Done ==
    /\ pc # "write" /\ task \notin Senders
    /\ enableInterruptTimer
    /\ pn532IrqInt \in {HandlerOf(chip.cmd), "IRQ_PASSIVE_TARGET"}
    /\ chip.phase = "idle" /\ Settled
    /\ pn532Timer # "off" => SelectedIsReported
    /\ pn532Timer \in {"readBlock", "writeBlock"} => chip.authed
    /\ pn532Timer = "readBlock" => readingBlock = PN532_READING_SSID_BLOCK

\* A response that waits answers the command, for the card that is selected.
AnswerRight ==
    chip.phase = "response" =>
        /\ chip.response.kind \in AnswerKinds(chip.cmd)
        /\ chip.cmd = "listPassiveTarget" => chip.response.uid = chip.selected
        /\ chip.cmd = "authenticate" /\ chip.response.kind = "success" =>
                chip.authed

\* The boot sequence leaves nothing behind that looks like an ACK.
BootClears ==
    /\ task = "connection" /\ pc = "listAck" =>
            chip.phase \in {"command", "ack"}
    /\ task = "connection" /\ pc \in {"listCheck", "setPin", "park"} =>
            Unacknowledging
    /\ booting \/ task = "connection" => chip.cmd \notin BlockCommands

AtStation ==
    \/ Parked \/ Announced \/ Sending \/ Chained
    \/ Sent \/ Awaited \/ Taken \/ Done

\* As long as no transaction has failed.
ExchangeInv ==
    faults = 0 =>
        /\ ~i2c_error /\ ~taskError
        /\ AnswerRight
        /\ BootClears
        /\ ~booting /\ task # "connection" =>
            /\ AtStation
            /\ ~enableInterruptTimer => console.line = "ready"

DeafInv == ControlInv /\ ExchangeInv

-----------------------------------------------------------------------------
(* Why a report is never the last one.  It holds for all builds, any       *)
(* number of faults and any speed of the chip.                             *)

\* The UID handler arms the timer before it reads, and only a callback, which
\* cannot run before the handler has ended, takes the timer away again.
ReportInv ==
    /\ ReportedThenReady
    /\ Finishing("IRQ_READ_UID") => enableInterruptTimer

-----------------------------------------------------------------------------
(* What the UID handler finds, as long as no transaction has failed, is a  *)
(* card.                                                                   *)

TargetInv ==
    /\ chip.response.kind = "target" => chip.response.uid \in Card
    /\ faults = 0 /\ Finishing("IRQ_READ_UID") /\ recvBuffer.kind = "target" =>
            recvBuffer.uid \in Card

-----------------------------------------------------------------------------
(* The chip and the bus keep to their types.                               *)

USE DEF PN532_READING_SSID_BLOCK, PN532_READING_PSWD_BLOCK

\* What pn532.c writes leaves the chip in a state of the chip.
LEMMA ReceivesType ==
    ASSUME NEW c \in Chip, NEW cmd \in Command
    PROVE  Receives(c, cmd) \in Chip
BY DEF Receives, Chip, Command, Frame, Plain, Uid

\* A frame read from the chip is a frame, and the chip stays a chip.
LEMMA ReadType ==
    ASSUME NEW c \in Chip
    PROVE  FrameOf(c) \in Frame /\ AfterRead(c) \in Chip
<1>1. FrameOf(c) \in Frame
    BY DEF FrameOf, Chip, Frame, Plain, Uid
<1>2. AfterRead(c) \in Chip
    BY DEF AfterRead, Chip, Frame, Plain, Uid
<1> QED BY <1>1, <1>2

\* A chip that answers with a frame is a chip.
LEMMA AnsweredType ==
    ASSUME NEW c \in Chip, NEW frame \in Frame
    PROVE  /\ Answered(c, frame) \in Chip
           /\ \A card \in Card :
                [Answered(c, frame) EXCEPT !.selected = card] \in Chip
           /\ [Answered(c, frame) EXCEPT !.authed = TRUE] \in Chip
BY DEF Answered, Chip

\* Whatever the chip answers, it stays a chip.
LEMMA AnswersType ==
    ASSUME NEW c \in Chip, NEW card \in Card \cup {NoCard}
    PROVE  Answers(c, card) \subseteq Chip
<1>1. /\ Plain("firmware") \in Frame
      /\ Plain("done") \in Frame
      /\ Plain("success") \in Frame
      /\ Plain("failure") \in Frame
      /\ card # NoCard => [kind |-> "target", uid |-> card] \in Frame
    BY DEF Plain, Frame, Uid
<1>2. /\ Answered(c, Plain("firmware")) \in Chip
      /\ Answered(c, Plain("done")) \in Chip
      /\ Answered(c, Plain("failure")) \in Chip
      /\ [Answered(c, Plain("success")) EXCEPT !.authed = TRUE] \in Chip
      /\ card # NoCard =>
            [Answered(c, [kind |-> "target", uid |-> card])
                EXCEPT !.selected = card] \in Chip
    BY <1>1, AnsweredType
<1>3. Outcomes(c.cmd) \subseteq Frame
    BY DEF Outcomes, Frame, Uid
<1>4. \A frame \in Outcomes(c.cmd) : Answered(c, frame) \in Chip
    BY <1>3, AnsweredType
<1> QED BY <1>2, <1>4 DEF Answers

\* A write leaves the chip, the pin, the error code and the count of faults
\* within their types, whether it is skipped, delivered or failed.
LEMMA BusWriteType ==
    ASSUME TypeOK, NEW cmd \in Command, BusWrite(cmd)
    PROVE  /\ chip' \in Chip /\ gpioStatus' \in BOOLEAN
           /\ i2c_error' \in BOOLEAN /\ faults' \in 0..MaxFaults
<1>1. Receives(chip, cmd) \in Chip
    BY ReceivesType DEF TypeOK, FlagsOK, DataOK
<1>2. i2c_error' \in BOOLEAN
    BY Zenon DEF TypeOK, FlagsOK, BusWrite, Fault
<1>3. chip' \in Chip /\ gpioStatus' \in BOOLEAN
    BY <1>1 DEF TypeOK, FlagsOK, DataOK, BusWrite, ChipMoves
<1>4. faults' \in 0..MaxFaults
    BY MaxFaultsAssumption DEF TypeOK, DataOK, BusWrite, Fault
<1> QED BY <1>2, <1>3, <1>4

\* Whatever part of a frame arrives in the buffer, the buffer holds a frame.
LEMMA PartsType ==
    ASSUME NEW buffer \in Frame, NEW frame \in Frame, NEW full \in BOOLEAN
    PROVE  /\ ReadInto(buffer, frame, full) \in Frame
           /\ PartsInto(buffer, frame, full) \subseteq Frame
BY DEF ReadInto, PartsInto, Frame, Uid

\* The same for a read, which also fills the receive buffer.
LEMMA BusReadType ==
    ASSUME TypeOK, NEW buffer \in Frame, NEW full \in BOOLEAN,
           BusRead(buffer, full)
    PROVE  /\ chip' \in Chip /\ gpioStatus' \in BOOLEAN
           /\ i2c_error' \in BOOLEAN /\ faults' \in 0..MaxFaults
           /\ recvBuffer' \in Frame
<1>1. FrameOf(chip) \in Frame /\ AfterRead(chip) \in Chip
    BY ReadType DEF TypeOK, FlagsOK, DataOK
<1>2. /\ ReadInto(buffer, FrameOf(chip), full) \in Frame
      /\ PartsInto(buffer, FrameOf(chip), full) \subseteq Frame
    BY <1>1, PartsType
<1>3. i2c_error' \in BOOLEAN
    BY Zenon DEF TypeOK, FlagsOK, BusRead, Fault
<1>4. chip' \in Chip /\ gpioStatus' \in BOOLEAN
    BY <1>1 DEF TypeOK, FlagsOK, DataOK, BusRead, ChipMoves
<1>5. faults' \in 0..MaxFaults
    BY MaxFaultsAssumption DEF TypeOK, DataOK, BusRead, Fault
<1>6. recvBuffer' \in Frame
    BY <1>2 DEF BusRead
<1> QED BY <1>3, <1>4, <1>5, <1>6

\* The buffers the reads of the driver start from are frames.
LEMMA FlushedType == Flushed(recvBuffer) \in Frame /\ Plain("junk") \in Frame
BY DEF Flushed, Plain, Frame, Uid

\* The same for a read of the boot sequence, which may come too early.
LEMMA BootReadType ==
    ASSUME TypeOK, NEW buffer \in Frame, BootRead(buffer)
    PROVE  /\ chip' \in Chip /\ gpioStatus' \in BOOLEAN
           /\ i2c_error' \in BOOLEAN /\ faults' \in 0..MaxFaults
           /\ recvBuffer' \in Frame
<1>1. CASE ~i2c_error /\ chip.phase \in {"command", "busy"}
    BY <1>1, FlushedType, MaxFaultsAssumption DEF TypeOK, FlagsOK, DataOK, BootRead, Fault
<1>2. CASE ~(~i2c_error /\ chip.phase \in {"command", "busy"})
    <2>1. BusRead(buffer, TRUE)
        BY <1>2 DEF BootRead
    <2> QED BY <2>1, BusReadType
<1> QED BY <1>1, <1>2

\* Every step of the boot sequence keeps to the types.
LEMMA BootType ==
    ASSUME TypeOK, Boot
    PROVE  TypeOK'
<1> USE CardAssumption, MaxFaultsAssumption
<1>1. CASE InitTimerFires
    <2>1. FlagsOK'
        BY <1>1, Zenon DEF TypeOK, FlagsOK, InitTimerFires, StartConnection,
           BootStep, bus, envVars, irqVars
    <2>2. DataOK'
        BY <1>1 DEF TypeOK, DataOK, InitTimerFires, StartConnection,
           BootStep, bus, envVars, irqVars
    <2> QED BY <2>1, <2>2 DEF TypeOK
<1>2. CASE RetryTimerFires
    <2>1. FlagsOK'
        BY <1>2, Zenon DEF TypeOK, FlagsOK, RetryTimerFires, StartConnection,
           BootStep, bus, envVars, irqVars
    <2>2. DataOK'
        BY <1>2 DEF TypeOK, DataOK, RetryTimerFires, StartConnection,
           BootStep, bus, envVars, irqVars
    <2> QED BY <2>1, <2>2 DEF TypeOK
<1>3. CASE FirmwareWrite
    <2>1. BusWrite("getFirmwareVersion") /\ recvBuffer' \in Frame
        BY <1>3, FlushedType DEF FirmwareWrite, BootWrites, TypeOK, DataOK
    <2>2. /\ chip' \in Chip /\ gpioStatus' \in BOOLEAN
          /\ i2c_error' \in BOOLEAN /\ faults' \in 0..MaxFaults
        BY <2>1, BusWriteType DEF Command, Settings
    <2> QED
        BY <1>3, <2>1, <2>2 DEF TypeOK, FlagsOK, DataOK, FirmwareWrite, BootWrites, Goto, BootStep,
           bootRest, envVars, irqVars, timerVars
<1>4. CASE FirmwareAck
    <2>1. BootRead(recvBuffer)
        BY <1>4 DEF FirmwareAck, BootReads
    <2>2. /\ chip' \in Chip /\ gpioStatus' \in BOOLEAN
          /\ i2c_error' \in BOOLEAN /\ faults' \in 0..MaxFaults
          /\ recvBuffer' \in Frame
        BY <2>1, BootReadType, FlushedType DEF TypeOK, FlagsOK, DataOK
    <2> QED
        BY <1>4, <2>2 DEF TypeOK, FlagsOK, DataOK, FirmwareAck, BootReads, Goto, BootStep,
           bootRest, envVars, irqVars, timerVars
<1>5. CASE FirmwareAckCheck
    <2>1. FlagsOK'
        BY <1>5, Zenon DEF TypeOK, FlagsOK, FirmwareAckCheck, FirmwareFailed,
           EndTransaction, TaskReturns, Goto, BootStep, wire, envVars,
           irqVars
    <2>2. DataOK'
        BY <1>5 DEF TypeOK, DataOK, FirmwareAckCheck, FirmwareFailed,
           EndTransaction, TaskReturns, Goto, BootStep, wire, envVars,
           irqVars
    <2> QED BY <2>1, <2>2 DEF TypeOK
<1>6. CASE FirmwareRead
    <2>1. BootRead(recvBuffer)
        BY <1>6 DEF FirmwareRead, BootReads
    <2>2. /\ chip' \in Chip /\ gpioStatus' \in BOOLEAN
          /\ i2c_error' \in BOOLEAN /\ faults' \in 0..MaxFaults
          /\ recvBuffer' \in Frame
        BY <2>1, BootReadType, FlushedType DEF TypeOK, FlagsOK, DataOK
    <2> QED
        BY <1>6, <2>2 DEF TypeOK, FlagsOK, DataOK, FirmwareRead, BootReads, Goto, BootStep,
           bootRest, envVars, irqVars, timerVars
<1>7. CASE FirmwareDone
    <2>1. FlagsOK'
        BY <1>7, Zenon DEF TypeOK, FlagsOK, FirmwareDone, FirmwareFailed,
           EndTransaction, TaskReturns, Goto, BootStep, wire, envVars,
           irqVars
    <2>2. DataOK'
        BY <1>7 DEF TypeOK, DataOK, FirmwareDone, FirmwareFailed,
           EndTransaction, TaskReturns, Goto, BootStep, wire, envVars,
           irqVars
    <2> QED BY <2>1, <2>2 DEF TypeOK
<1>8. CASE RfWrite
    <2>1. BusWrite("rfConfiguration") /\ recvBuffer' \in Frame
        BY <1>8, FlushedType DEF RfWrite, BootWrites, TypeOK, DataOK
    <2>2. /\ chip' \in Chip /\ gpioStatus' \in BOOLEAN
          /\ i2c_error' \in BOOLEAN /\ faults' \in 0..MaxFaults
        BY <2>1, BusWriteType DEF Command, Settings
    <2> QED
        BY <1>8, <2>1, <2>2 DEF TypeOK, FlagsOK, DataOK, RfWrite, BootWrites, Goto, BootStep,
           bootRest, envVars, irqVars, timerVars
<1>9. CASE RfRead
    <2>1. BootRead(recvBuffer)
        BY <1>9 DEF RfRead, BootReads
    <2>2. /\ chip' \in Chip /\ gpioStatus' \in BOOLEAN
          /\ i2c_error' \in BOOLEAN /\ faults' \in 0..MaxFaults
          /\ recvBuffer' \in Frame
        BY <2>1, BootReadType, FlushedType DEF TypeOK, FlagsOK, DataOK
    <2> QED
        BY <1>9, <2>2 DEF TypeOK, FlagsOK, DataOK, RfRead, BootReads, Goto, BootStep,
           bootRest, envVars, irqVars, timerVars
<1>10. CASE RfCheck
    <2>1. FlagsOK'
        BY <1>10, Zenon DEF TypeOK, FlagsOK, RfCheck, BootStep, bus, bootRest,
           envVars, irqVars, timerVars
    <2>2. DataOK'
        BY <1>10 DEF TypeOK, DataOK, RfCheck, BootStep, bus, bootRest,
           envVars, irqVars, timerVars
    <2> QED BY <2>1, <2>2 DEF TypeOK
<1>11. CASE SamWrite
    <2>1. BusWrite("samConfiguration") /\ recvBuffer' \in Frame
        BY <1>11, FlushedType DEF SamWrite, BootWrites, TypeOK, DataOK
    <2>2. /\ chip' \in Chip /\ gpioStatus' \in BOOLEAN
          /\ i2c_error' \in BOOLEAN /\ faults' \in 0..MaxFaults
        BY <2>1, BusWriteType DEF Command, Settings
    <2> QED
        BY <1>11, <2>1, <2>2 DEF TypeOK, FlagsOK, DataOK, SamWrite, BootWrites, Goto, BootStep,
           bootRest, envVars, irqVars, timerVars
<1>12. CASE SamAck
    <2>1. BootRead(Flushed(recvBuffer))
        BY <1>12 DEF SamAck, BootReads
    <2>2. /\ chip' \in Chip /\ gpioStatus' \in BOOLEAN
          /\ i2c_error' \in BOOLEAN /\ faults' \in 0..MaxFaults
          /\ recvBuffer' \in Frame
        BY <2>1, BootReadType, FlushedType DEF TypeOK, FlagsOK, DataOK
    <2> QED
        BY <1>12, <2>2 DEF TypeOK, FlagsOK, DataOK, SamAck, BootReads, Goto, BootStep,
           bootRest, envVars, irqVars, timerVars
<1>13. CASE SamRead
    <2>1. BootRead(recvBuffer)
        BY <1>13 DEF SamRead, BootReads
    <2>2. /\ chip' \in Chip /\ gpioStatus' \in BOOLEAN
          /\ i2c_error' \in BOOLEAN /\ faults' \in 0..MaxFaults
          /\ recvBuffer' \in Frame
        BY <2>1, BootReadType, FlushedType DEF TypeOK, FlagsOK, DataOK
    <2> QED
        BY <1>13, <2>2 DEF TypeOK, FlagsOK, DataOK, SamRead, BootReads, Goto, BootStep,
           bootRest, envVars, irqVars, timerVars
<1>14. CASE SamEnd
    <2>1. FlagsOK'
        BY <1>14, Zenon DEF TypeOK, FlagsOK, SamEnd, EndTransaction, Goto,
           BootStep, wire, bootRest, envVars, irqVars, timerVars
    <2>2. DataOK'
        BY <1>14 DEF TypeOK, DataOK, SamEnd, EndTransaction, Goto, BootStep,
           wire, bootRest, envVars, irqVars, timerVars
    <2> QED BY <2>1, <2>2 DEF TypeOK
<1>15. CASE ListWrite
    <2>1. BusWrite("listPassiveTarget") /\ recvBuffer' \in Frame
        BY <1>15, FlushedType DEF ListWrite, BootWrites, TypeOK, DataOK
    <2>2. /\ chip' \in Chip /\ gpioStatus' \in BOOLEAN
          /\ i2c_error' \in BOOLEAN /\ faults' \in 0..MaxFaults
        BY <2>1, BusWriteType DEF Command, Settings
    <2> QED
        BY <1>15, <2>1, <2>2 DEF TypeOK, FlagsOK, DataOK, ListWrite, BootWrites, Goto, BootStep,
           bootRest, envVars, irqVars, timerVars
<1>16. CASE ListAck
    <2>1. BootRead(Flushed(recvBuffer))
        BY <1>16 DEF ListAck, BootReads
    <2>2. /\ chip' \in Chip /\ gpioStatus' \in BOOLEAN
          /\ i2c_error' \in BOOLEAN /\ faults' \in 0..MaxFaults
          /\ recvBuffer' \in Frame
        BY <2>1, BootReadType, FlushedType DEF TypeOK, FlagsOK, DataOK
    <2> QED
        BY <1>16, <2>2 DEF TypeOK, FlagsOK, DataOK, ListAck, BootReads, Goto, BootStep,
           bootRest, envVars, irqVars, timerVars
<1>17. CASE ListCheck
    <2>1. FlagsOK'
        BY <1>17, Zenon DEF TypeOK, FlagsOK, ListCheck, Goto, BootStep,
           IrqInt, wire, envVars, timerVars
    <2>2. DataOK'
        BY <1>17 DEF TypeOK, DataOK, ListCheck, Goto, BootStep, IrqInt, wire,
           envVars, timerVars
    <2> QED BY <2>1, <2>2 DEF TypeOK
<1>18. CASE SetIrqPin
    <2>1. FlagsOK'
        BY <1>18, Zenon DEF TypeOK, FlagsOK, SetIrqPin, Goto, BootStep,
           envVars, irqVars, timerVars
    <2>2. DataOK'
        BY <1>18 DEF TypeOK, DataOK, SetIrqPin, Goto, BootStep, envVars,
           irqVars, timerVars
    <2> QED BY <2>1, <2>2 DEF TypeOK
<1>19. CASE Park
    <2>1. FlagsOK'
        BY <1>19, Zenon DEF TypeOK, FlagsOK, Park, TaskReturns, IrqInt,
           IrqState, bus, envVars
    <2>2. DataOK'
        BY <1>19 DEF TypeOK, DataOK, Park, TaskReturns, IrqInt, IrqState, bus,
           envVars
    <2> QED BY <2>1, <2>2 DEF TypeOK
<1> QED
    BY <1>1, <1>2, <1>3, <1>4, <1>5, <1>6, <1>7, <1>8, <1>9, <1>10, <1>11,
       <1>12, <1>13, <1>14, <1>15, <1>16, <1>17, <1>18, <1>19 DEF Boot

\* Every step of a callback that has begun keeps to the types.
LEMMA CallbackType ==
    ASSUME TypeOK, CallbackSteps
    PROVE  TypeOK'
<1> USE CardAssumption, MaxFaultsAssumption
<1>1. CASE LoopRearms
    <2>1. FlagsOK'
        BY <1>1, Zenon DEF TypeOK, FlagsOK, LoopRearms, TaskReturns, bus,
           envVars, irqVars
    <2>2. DataOK'
        BY <1>1 DEF TypeOK, DataOK, LoopRearms, TaskReturns, bus, envVars,
           irqVars
    <2> QED BY <2>1, <2>2 DEF TypeOK
<1>2. CASE EnableWrite
    <2>1. BusWrite("listPassiveTarget") /\ recvBuffer' \in Frame
        BY <1>2, FlushedType DEF EnableWrite, SendWrite, TypeOK, DataOK, ReadCommand
    <2>2. /\ chip' \in Chip /\ gpioStatus' \in BOOLEAN
          /\ i2c_error' \in BOOLEAN /\ faults' \in 0..MaxFaults
        BY <2>1, BusWriteType DEF Command, BlockCommands, ReadCommands
    <2> QED
        BY <1>2, <2>1, <2>2 DEF TypeOK, FlagsOK, DataOK, EnableWrite, SendWrite, Goto, CallbackStep,
           sendRest, envVars, irqVars, timerVars
<1>3. CASE AuthWrite
    <2>1. BusWrite("authenticate") /\ recvBuffer' \in Frame
        BY <1>3, FlushedType DEF AuthWrite, SendWrite, TypeOK, DataOK, ReadCommand
    <2>2. /\ chip' \in Chip /\ gpioStatus' \in BOOLEAN
          /\ i2c_error' \in BOOLEAN /\ faults' \in 0..MaxFaults
        BY <2>1, BusWriteType DEF Command, BlockCommands, ReadCommands
    <2> QED
        BY <1>3, <2>1, <2>2 DEF TypeOK, FlagsOK, DataOK, AuthWrite, SendWrite, Goto, CallbackStep,
           sendRest, envVars, irqVars, timerVars
<1>4. CASE ReadBlockWrite
    <2>1. BusWrite("readSsidBlock") /\ recvBuffer' \in Frame
        BY <1>4, FlushedType DEF ReadBlockWrite, SendWrite, TypeOK, DataOK, ReadCommand
    <2>2. /\ chip' \in Chip /\ gpioStatus' \in BOOLEAN
          /\ i2c_error' \in BOOLEAN /\ faults' \in 0..MaxFaults
        BY <2>1, BusWriteType DEF Command, BlockCommands, ReadCommands
    <2> QED
        BY <1>4, <2>1, <2>2 DEF TypeOK, FlagsOK, DataOK, ReadBlockWrite, SendWrite, Goto, CallbackStep,
           sendRest, envVars, irqVars, timerVars
<1>5. CASE SendEnds
    <2>1. FlagsOK'
        BY <1>5, Zenon DEF TypeOK, FlagsOK, SendEnds, SendEndReads,
           SendEndClears, Goto, CallbackStep, bus, wire, sendRest,
           envVars, irqVars, timerVars
    <2>2. DataOK'
        BY <1>5 DEF TypeOK, DataOK, SendEnds, SendEndReads, SendEndClears,
           Goto, CallbackStep, bus, wire, sendRest, envVars, irqVars,
           timerVars
    <2> QED BY <2>1, <2>2 DEF TypeOK
<1>6. CASE EnableFinish
    <2>1. FlagsOK'
        BY <1>6, Zenon DEF TypeOK, FlagsOK, EnableFinish, TaskReturns,
           IrqInt, IrqState, bus, envVars, irqVars, timerVars
    <2>2. DataOK'
        BY <1>6 DEF TypeOK, DataOK, EnableFinish, TaskReturns, IrqInt,
           IrqState, bus, envVars, irqVars, timerVars
    <2> QED BY <2>1, <2>2 DEF TypeOK
<1>7. CASE AuthFinish
    <2>1. FlagsOK'
        BY <1>7, Zenon DEF TypeOK, FlagsOK, AuthFinish, SenderFinish,
           TaskReturns, IrqInt, IrqState, bus, envVars, timerVars
    <2>2. DataOK'
        BY <1>7 DEF TypeOK, DataOK, AuthFinish, SenderFinish, TaskReturns,
           IrqInt, IrqState, bus, envVars, timerVars
    <2> QED BY <2>1, <2>2 DEF TypeOK
<1>8. CASE ReadBlockFinish
    <2>1. FlagsOK'
        BY <1>8, Zenon DEF TypeOK, FlagsOK, ReadBlockFinish, SenderFinish,
           TaskReturns, IrqInt, IrqState, bus, envVars, timerVars
    <2>2. DataOK'
        BY <1>8 DEF TypeOK, DataOK, ReadBlockFinish, SenderFinish,
           TaskReturns, IrqInt, IrqState, bus, envVars, timerVars
    <2> QED BY <2>1, <2>2 DEF TypeOK
<1>9. CASE WriteBlockWrite
    <2>1. BusWrite("writeBlock") /\ recvBuffer' \in Frame
        BY <1>9 DEF WriteBlockWrite, SendWrite, TypeOK, DataOK
    <2>2. /\ chip' \in Chip /\ gpioStatus' \in BOOLEAN
          /\ i2c_error' \in BOOLEAN /\ faults' \in 0..MaxFaults
        BY <2>1, BusWriteType DEF Command, BlockCommands, ReadCommands
    <2> QED
        BY <1>9, <2>1, <2>2
        DEF TypeOK, FlagsOK, DataOK, WriteBlockWrite, SendWrite, Goto,
            CallbackStep, sendRest, envVars, irqVars, timerVars
<1>10. CASE WriteBlockFinish
    <2>1. FlagsOK'
        BY <1>10, Zenon DEF TypeOK, FlagsOK, WriteBlockFinish, SenderFinish,
           TaskReturns, bus, envVars, timerVars
    <2>2. DataOK'
        BY <1>10 DEF TypeOK, DataOK, WriteBlockFinish, SenderFinish,
           TaskReturns, IrqInt, IrqState, bus, envVars, timerVars
    <2> QED BY <2>1, <2>2 DEF TypeOK
<1>11. CASE LedSelect
    <2>1. faults' \in 0..MaxFaults
        BY <1>11 DEF TypeOK, DataOK, LedSelect, InItsTime, Fault
    <2>2. FlagsOK'
        BY <1>11, Zenon DEF TypeOK, FlagsOK, LedSelect, Goto, wire, timerVars
    <2>3. DataOK'
        BY <1>11, <2>1 DEF TypeOK, DataOK, LedSelect, Goto, CallbackStep,
           IrqInt, IrqState, wire, envVars, timerVars
    <2> QED BY <2>2, <2>3 DEF TypeOK
<1>12. CASE LedWrite
    <2>1. BusWrite("writeGpio") /\ recvBuffer' \in Frame
        BY <1>12 DEF LedWrite, SendWrite, TypeOK, DataOK
    <2>2. /\ chip' \in Chip /\ gpioStatus' \in BOOLEAN
          /\ i2c_error' \in BOOLEAN /\ faults' \in 0..MaxFaults
        BY <2>1, BusWriteType DEF Command, Settings
    <2> QED
        BY <1>12, <2>1, <2>2
        DEF TypeOK, FlagsOK, DataOK, LedWrite, SendWrite, Goto, CallbackStep,
            sendRest, envVars, irqVars, timerVars
<1>13. CASE LedFinish
    <2>1. FlagsOK'
        BY <1>13, Zenon DEF TypeOK, FlagsOK, LedFinish, bus, sendRest,
           timerVars
    <2>2. DataOK'
        BY <1>13 DEF TypeOK, DataOK, LedFinish, CallbackStep, bus, sendRest,
           envVars, irqVars, timerVars
    <2> QED BY <2>1, <2>2 DEF TypeOK
<1> QED
    BY <1>1, <1>2, <1>3, <1>4, <1>5, <1>6, <1>7, <1>8, <1>9, <1>10, <1>11,
       <1>12, <1>13 DEF CallbackSteps

\* Every expiry of a timer after the boot keeps to the types.
LEMMA TimerType ==
    ASSUME TypeOK, LoopFires \/ EnableFires \/ Pn532TimerFires
    PROVE  TypeOK'
<1> USE CardAssumption, MaxFaultsAssumption
<1>1. CASE LoopFires
    <2>1. faults' \in 0..MaxFaults
        BY <1>1 DEF TypeOK, DataOK, LoopFires, InItsTime, Fault
    <2> QED
        BY <1>1, <2>1 DEF TypeOK, FlagsOK, DataOK, LoopFires, CallbackStep,
           wire, envVars, irqVars
<1>2. CASE EnableFires
    <2>1. faults' \in 0..MaxFaults
        BY <1>2 DEF TypeOK, FlagsOK, DataOK, EnableFires, Fault
    <2>2. console' \in [line : {"none", "ready", "uid", "error"}, uid : Uid]
        BY <1>2 DEF TypeOK, FlagsOK, DataOK, EnableFires
    <2>3. FlagsOK'
        BY <1>2, Zenon DEF TypeOK, FlagsOK, EnableFires, wire
    <2>4. DataOK'
        BY <1>2, <2>1, <2>2
        DEF TypeOK, DataOK, EnableFires, CallbackStep, IrqInt, IrqState, wire
    <2> QED BY <2>3, <2>4 DEF TypeOK
<1>3. CASE Pn532TimerFires
    BY <1>3 DEF TypeOK, FlagsOK, DataOK, Pn532TimerFires, CallbackStep, bus, envVars, irqVars
<1> QED BY <1>1, <1>2, <1>3

\* Every step of the interrupt handler keeps to the types.
LEMMA InterruptType ==
    ASSUME TypeOK, Interrupt
    PROVE  TypeOK'
<1> USE CardAssumption, MaxFaultsAssumption
<1>1. CASE IsrEnter
    <2>1. FlagsOK'
        BY <1>1, Zenon DEF TypeOK, FlagsOK, IsrEnter, bus, wire, isrRest,
           envVars, irqVars, timerVars, taskVars
    <2>2. DataOK'
        BY <1>1 DEF TypeOK, DataOK, IsrEnter, bus, wire, isrRest, envVars,
           irqVars, timerVars, taskVars
    <2> QED BY <2>1, <2>2 DEF TypeOK
<1>2. CASE IsrIgnores
    <2>1. FlagsOK'
        BY <1>2, Zenon DEF TypeOK, FlagsOK, IsrIgnores, bus, wire, isrRest,
           envVars, irqVars, timerVars, taskVars
    <2>2. DataOK'
        BY <1>2 DEF TypeOK, DataOK, IsrIgnores, bus, wire, isrRest, envVars,
           irqVars, timerVars, taskVars
    <2> QED BY <2>1, <2>2 DEF TypeOK
<1>3. CASE IsrExit
    <2>1. FlagsOK'
        BY <1>3, Zenon DEF TypeOK, FlagsOK, IsrExit, bus, wire, isrRest,
           envVars, irqVars, timerVars, taskVars
    <2>2. DataOK'
        BY <1>3 DEF TypeOK, DataOK, IsrExit, bus, wire, isrRest, envVars,
           irqVars, timerVars, taskVars
    <2> QED BY <2>1, <2>2 DEF TypeOK
<1>4. CASE AckRead
    <2>1. BusRead(Flushed(recvBuffer), FALSE)
        BY <1>4 DEF AckRead
    <2>2. /\ chip' \in Chip /\ gpioStatus' \in BOOLEAN
          /\ i2c_error' \in BOOLEAN /\ faults' \in 0..MaxFaults
          /\ recvBuffer' \in Frame
        BY <2>1, BusReadType, FlushedType
    <2> QED
        BY <1>4, <2>2 DEF TypeOK, FlagsOK, DataOK, AckRead, isrRest, envVars, irqVars, timerVars, taskVars
<1>5. CASE AckFinish
    <2>1. FlagsOK'
        BY <1>5, Zenon DEF TypeOK, FlagsOK, AckFinish, bus, wire, isrRest,
           envVars, irqVars, timerVars, taskVars, EndTransaction,
           ResponseHandler, IrqInt
    <2>2. DataOK'
        BY <1>5 DEF TypeOK, DataOK, AckFinish, bus, wire, isrRest, envVars,
           irqVars, timerVars, taskVars, EndTransaction, ResponseHandler,
           IrqInt
    <2> QED BY <2>1, <2>2 DEF TypeOK
<1>6. CASE UidRead
    <2>1. BusRead(Flushed(recvBuffer), TRUE)
        BY <1>6 DEF UidRead
    <2>2. /\ chip' \in Chip /\ gpioStatus' \in BOOLEAN
          /\ i2c_error' \in BOOLEAN /\ faults' \in 0..MaxFaults
          /\ recvBuffer' \in Frame
        BY <2>1, BusReadType, FlushedType
    <2> QED
        BY <1>6, <2>2 DEF TypeOK, FlagsOK, DataOK, UidRead, isrRest, envVars, irqVars, timerVars, taskVars
<1>7. CASE UidRejected
    <2>1. FlagsOK'
        BY <1>7, Zenon DEF TypeOK, FlagsOK, UidRejected, bus, wire, isrRest,
           envVars, irqVars, timerVars, taskVars, Uid
    <2>2. DataOK'
        BY <1>7 DEF TypeOK, DataOK, UidRejected, bus, wire, isrRest, envVars,
           irqVars, timerVars, taskVars, Uid
    <2> QED BY <2>1, <2>2 DEF TypeOK
<1>8. CASE UidAcceptedStep
    <2>1. FlagsOK'
        BY <1>8, Zenon DEF TypeOK, FlagsOK, UidAcceptedStep, bus, wire,
           isrRest, envVars, irqVars, timerVars, taskVars, EndTransaction,
           Frame
    <2>2. DataOK'
        BY <1>8 DEF TypeOK, DataOK, UidAcceptedStep, bus, wire, isrRest,
           envVars, irqVars, timerVars, taskVars, EndTransaction, Frame
    <2> QED BY <2>1, <2>2 DEF TypeOK
<1>9. CASE AuthRead
    <2>1. BusRead(Flushed(recvBuffer), TRUE)
        BY <1>9 DEF AuthRead
    <2>2. /\ chip' \in Chip /\ gpioStatus' \in BOOLEAN
          /\ i2c_error' \in BOOLEAN /\ faults' \in 0..MaxFaults
          /\ recvBuffer' \in Frame
        BY <2>1, BusReadType, FlushedType
    <2> QED
        BY <1>9, <2>2 DEF TypeOK, FlagsOK, DataOK, AuthRead, isrRest, envVars, irqVars, timerVars, taskVars
<1>10. CASE AuthRefused
    <2>1. FlagsOK'
        BY <1>10, Zenon DEF TypeOK, FlagsOK, AuthRefused, bus, wire, isrRest,
           envVars, irqVars, timerVars, taskVars, EndTransaction
    <2>2. DataOK'
        BY <1>10 DEF TypeOK, DataOK, AuthRefused, bus, wire, isrRest, envVars,
           irqVars, timerVars, taskVars, EndTransaction
    <2> QED BY <2>1, <2>2 DEF TypeOK
<1>11. CASE AuthAccepted
    <2>1. FlagsOK'
        BY <1>11, Zenon DEF TypeOK, FlagsOK, AuthAccepted, bus, wire, isrRest,
           envVars, irqVars, timerVars, taskVars, EndTransaction
    <2>2. DataOK'
        BY <1>11 DEF TypeOK, DataOK, AuthAccepted, AfterAuthentication, wire,
           isrRest, envVars, irqVars, timerVars, taskVars
    <2> QED BY <2>1, <2>2 DEF TypeOK
<1>12. CASE DataRead
    <2>1. BusRead(Flushed(recvBuffer), TRUE)
        BY <1>12 DEF DataRead
    <2>2. /\ chip' \in Chip /\ gpioStatus' \in BOOLEAN
          /\ i2c_error' \in BOOLEAN /\ faults' \in 0..MaxFaults
          /\ recvBuffer' \in Frame
        BY <2>1, BusReadType, FlushedType
    <2> QED
        BY <1>12, <2>2 DEF TypeOK, FlagsOK, DataOK, DataRead, isrRest, envVars, irqVars, timerVars, taskVars
<1>13. CASE DataRefused
    <2>1. FlagsOK'
        BY <1>13, Zenon DEF TypeOK, FlagsOK, DataRefused, bus, wire, isrRest,
           envVars, irqVars, timerVars, taskVars, EndTransaction, IrqInt
    <2>2. DataOK'
        BY <1>13 DEF TypeOK, DataOK, DataRefused, bus, wire, isrRest, envVars,
           irqVars, timerVars, taskVars, EndTransaction, IrqInt
    <2> QED BY <2>1, <2>2 DEF TypeOK
<1>14. CASE DataAccepted
    <2>1. FlagsOK'
        BY <1>14, Zenon DEF TypeOK, FlagsOK, DataAccepted, bus, wire, isrRest,
           envVars, irqVars, timerVars, taskVars, EndTransaction, IrqInt
    <2>2. DataOK'
        BY <1>14 DEF TypeOK, DataOK, DataAccepted, bus, wire, isrRest,
           envVars, irqVars, timerVars, taskVars, EndTransaction, IrqInt
    <2> QED BY <2>1, <2>2 DEF TypeOK
<1>15. CASE IsrSend
    <2>1. ReadCommand(readingBlock) \in Command
        BY DEF ReadCommand, Command, BlockCommands, ReadCommands
    <2>2. BusWrite(ReadCommand(readingBlock))
        BY <1>15 DEF IsrSend
    <2>3. /\ chip' \in Chip /\ gpioStatus' \in BOOLEAN
          /\ i2c_error' \in BOOLEAN /\ faults' \in 0..MaxFaults
        BY <2>1, <2>2, BusWriteType
    <2> QED
        BY <1>15, <2>3 DEF TypeOK, FlagsOK, DataOK, IsrSend, isrRest, envVars, irqVars, timerVars, taskVars
<1>16. CASE IsrSendEnd
    <2>1. FlagsOK'
        BY <1>16, Zenon DEF TypeOK, FlagsOK, IsrSendEnd, bus, wire, isrRest,
           envVars, irqVars, timerVars, taskVars, EndTransaction, IrqInt,
           IrqState
    <2>2. DataOK'
        BY <1>16 DEF TypeOK, DataOK, IsrSendEnd, bus, wire, isrRest, envVars,
           irqVars, timerVars, taskVars, EndTransaction, IrqInt, IrqState
    <2> QED BY <2>1, <2>2 DEF TypeOK
<1>17. CASE WrittenRead
    <2>1. /\ chip' \in Chip /\ gpioStatus' \in BOOLEAN
          /\ i2c_error' \in BOOLEAN /\ faults' \in 0..MaxFaults
          /\ recvBuffer' \in Frame
        BY <1>17, BusReadType DEF WrittenRead, TypeOK, DataOK
    <2> QED
        BY <1>17, <2>1 DEF TypeOK, FlagsOK, DataOK, WrittenRead, isrRest,
           envVars, irqVars, timerVars, taskVars
<1>18. CASE WrittenFinish
    <2>1. FlagsOK'
        BY <1>18, Zenon DEF TypeOK, FlagsOK, WrittenFinish, EndTransaction, wire,
           isrRest, timerVars, taskVars
    <2>2. DataOK'
        BY <1>18 DEF TypeOK, DataOK, WrittenFinish, wire, isrRest, envVars,
           irqVars, timerVars, taskVars
    <2> QED BY <2>1, <2>2 DEF TypeOK
<1>19. CASE GpioRead
    <2>1. /\ chip' \in Chip /\ gpioStatus' \in BOOLEAN
          /\ i2c_error' \in BOOLEAN /\ faults' \in 0..MaxFaults
          /\ recvBuffer' \in Frame
        BY <1>19, BusReadType DEF GpioRead, TypeOK, DataOK
    <2> QED
        BY <1>19, <2>1 DEF TypeOK, FlagsOK, DataOK, GpioRead, isrRest,
           envVars, irqVars, timerVars, taskVars
<1>20. CASE GpioFinish
    <2>1. FlagsOK'
        BY <1>20, Zenon DEF TypeOK, FlagsOK, GpioFinish, EndTransaction, wire,
           isrRest, timerVars, taskVars
    <2>2. DataOK'
        BY <1>20 DEF TypeOK, DataOK, GpioFinish, wire, isrRest, envVars,
           irqVars, timerVars, taskVars
    <2> QED BY <2>1, <2>2 DEF TypeOK
<1> QED
    BY <1>1, <1>2, <1>3, <1>4, <1>5, <1>6, <1>7, <1>8, <1>9, <1>10, <1>11,
       <1>12, <1>13, <1>14, <1>15, <1>16, <1>17, <1>18, <1>19, <1>20
    DEF Interrupt

\* The chip's own steps keep to the types.
LEMMA ChipsType ==
    ASSUME TypeOK, Chips
    PROVE  TypeOK'
<1>1. CASE ChipAcknowledges
    <2>1. Acknowledged(chip) \in Chip
        BY DEF TypeOK, FlagsOK, DataOK, Acknowledged, Chip
    <2> QED
        BY <1>1, <2>1 DEF TypeOK, FlagsOK, DataOK, ChipAcknowledges, ChipMoves, firmware,
           envVars, irqVars, timerVars, taskVars
<1>2. CASE ChipAnswers
    <2>1. Answers(chip, field) \subseteq Chip
        BY AnswersType DEF TypeOK, FlagsOK, DataOK
    <2> QED
        BY <1>2, <2>1 DEF TypeOK, FlagsOK, DataOK, ChipAnswers, ChipMoves, firmware,
           envVars, irqVars, timerVars, taskVars
<1> QED BY <1>1, <1>2 DEF Chips

\* Cards that come and go keep to the types.
LEMMA EnvironmentType ==
    ASSUME TypeOK, Environment
    PROVE  TypeOK'
BY DEF TypeOK, FlagsOK, DataOK, Environment, CardEnters, CardLeaves, firmware, irqVars,
   timerVars, taskVars

\* Every variable keeps to its type: in particular no handler selector leaves
\* the set of handlers, the boot loops stay within their limits, and what is
\* printed as a UID came out of a frame.
THEOREM TypeCorrect == Spec => []TypeOK
<1>1. Init => TypeOK
    <2> SUFFICES ASSUME Init PROVE TypeOK
        OBVIOUS
    <2>1. FlagsOK
        BY Zenon DEF Init, BusInit, DriverInit, FlagsOK
    <2>2. chip \in Chip
        BY DEF Init, ChipInit, Chip, Command, Frame, Plain, Uid
    <2>3. DataOK
        BY <2>2, MaxFaultsAssumption
        DEF Init, ChipInit, BusInit, DriverInit, DataOK, Frame, Plain, Uid,
            IrqInt, IrqState
    <2> QED BY <2>1, <2>3 DEF TypeOK
<1>2. TypeOK /\ [Next]_vars => TypeOK'
    <2> SUFFICES ASSUME TypeOK, [Next]_vars PROVE TypeOK'
        OBVIOUS
    <2>1. CASE Boot
        BY <2>1, BootType
    <2>2. CASE LoopFires \/ EnableFires \/ Pn532TimerFires
        BY <2>2, TimerType
    <2>3. CASE CallbackSteps
        BY <2>3, CallbackType
    <2>4. CASE Interrupt
        BY <2>4, InterruptType
    <2>5. CASE Chips
        BY <2>5, ChipsType
    <2>6. CASE Environment
        BY <2>6, EnvironmentType
    <2>7. CASE UNCHANGED vars
        BY <2>7 DEF TypeOK, FlagsOK, DataOK, vars, bus, envVars, irqVars, timerVars, taskVars
    <2> QED BY <2>1, <2>2, <2>3, <2>4, <2>5, <2>6, <2>7 DEF Next
<1> QED BY <1>1, <1>2, PTL DEF Spec

-----------------------------------------------------------------------------
(* Only fresh UIDs are printed.                                            *)

\* What the driver does to the chip cannot put a response into it.
NoNewResponse ==
    /\ ~IsAckFrame(chip'.response)
    /\ chip'.phase = "response" => chip' = chip

\* A write drops the waiting response or leaves the chip alone.
LEMMA WriteFresh ==
    ASSUME TypeOK, ~IsAckFrame(chip.response), NEW cmd, BusWrite(cmd)
    PROVE  NoNewResponse
<1>1. /\ ~IsAckFrame(Receives(chip, cmd).response)
      /\ Receives(chip, cmd).phase # "response"
    BY DEF TypeOK, DataOK, Chip, Receives, Plain, IsAckFrame
<1>2. chip' \in {chip, Receives(chip, cmd)}
    BY DEF BusWrite, ChipMoves
<1> QED BY <1>1, <1>2 DEF NoNewResponse

\* A read takes the waiting response or leaves the chip alone.
LEMMA ReadFresh ==
    ASSUME TypeOK, ~IsAckFrame(chip.response),
           NEW buffer, NEW full, BusRead(buffer, full)
    PROVE  NoNewResponse
<1>1. /\ ~IsAckFrame(AfterRead(chip).response)
      /\ AfterRead(chip).phase = "response" => AfterRead(chip) = chip
    BY DEF TypeOK, DataOK, Chip, AfterRead, Plain, IsAckFrame
<1>2. chip' \in {chip, AfterRead(chip)}
    BY DEF BusRead, ChipMoves
<1> QED BY <1>1, <1>2 DEF NoNewResponse

\* The same for a read of the boot sequence.
LEMMA BootReadFresh ==
    ASSUME TypeOK, ~IsAckFrame(chip.response), NEW buffer, BootRead(buffer)
    PROVE  NoNewResponse
BY ReadFresh DEF BootRead, NoNewResponse

\* A step of the task that neither announces a listing nor selects the UID
\* handler preserves the invariant.
LEMMA TaskFresh ==
    ASSUME FreshInv, NoNewResponse, isr' = "none",
           UNCHANGED <<field, seen, console>>,
           pn532IrqInt' = "IRQ_READ_UID" => pn532IrqInt = "IRQ_READ_UID"
    PROVE  FreshInv'
BY DEF FreshInv, NoNewResponse, ResponseFresh, AckTaken, Finishing, FreshUid

\* The boot sequence preserves the invariant.
LEMMA BootFresh ==
    ASSUME TypeOK, FreshInv, Boot
    PROVE  FreshInv'
<1>1. ~IsAckFrame(chip.response)
    BY DEF FreshInv
<1>2. /\ isr' = "none" /\ UNCHANGED <<field, seen, console>>
      /\ pn532IrqInt' = "IRQ_READ_UID" => pn532IrqInt = "IRQ_READ_UID"
    BY DEF Boot, InitTimerFires, RetryTimerFires, FirmwareWrite, FirmwareAck,
       FirmwareAckCheck, FirmwareRead, FirmwareDone, RfWrite, RfRead, RfCheck,
       SamWrite, SamAck, SamRead, SamEnd, ListWrite, ListAck, ListCheck,
       SetIrqPin, Park, BootWrites, BootReads, BootAt, TaskAt, TaskTurn,
       bootRest, envVars, irqVars
<1>3. NoNewResponse
    <2>1. CASE \/ FirmwareWrite \/ RfWrite \/ SamWrite \/ ListWrite
        <3>1. \E cmd \in Command : BusWrite(cmd)
            BY <2>1 DEF FirmwareWrite, RfWrite, SamWrite, ListWrite,
               BootWrites, Command, Settings
        <3> QED BY <1>1, <3>1, WriteFresh
    <2>2. CASE \/ FirmwareAck \/ FirmwareRead \/ RfRead \/ SamAck \/ SamRead
               \/ ListAck
        <3>1. \E buffer \in {recvBuffer, Flushed(recvBuffer)} : BootRead(buffer)
            BY <2>2 DEF FirmwareAck, FirmwareRead, RfRead, SamAck, SamRead,
               ListAck, BootReads
        <3> QED BY <1>1, <3>1, BootReadFresh
    <2>3. CASE \/ InitTimerFires \/ RetryTimerFires \/ FirmwareAckCheck
               \/ FirmwareDone \/ RfCheck \/ SamEnd \/ ListCheck \/ SetIrqPin
               \/ Park
        <3>1. UNCHANGED chip
            BY <2>3 DEF InitTimerFires, RetryTimerFires, FirmwareAckCheck,
               FirmwareDone, RfCheck, SamEnd, ListCheck, SetIrqPin, Park,
               bus, wire
        <3> QED BY <1>1, <3>1 DEF NoNewResponse, IsAckFrame
    <2> QED BY <2>1, <2>2, <2>3 DEF Boot
<1> QED BY <1>2, <1>3, TaskFresh

\* The steps of a callback that has begun preserve the invariant.
LEMMA CallbackFresh ==
    ASSUME TypeOK, FreshInv, CallbackSteps
    PROVE  FreshInv'
<1>1. ~IsAckFrame(chip.response)
    BY DEF FreshInv
<1>2. /\ isr' = "none" /\ UNCHANGED <<field, seen, console>>
      /\ pn532IrqInt' = "IRQ_READ_UID" => pn532IrqInt = "IRQ_READ_UID"
    BY DEF CallbackSteps, LoopRearms, EnableWrite, AuthWrite, ReadBlockWrite,
       WriteBlockWrite, LedSelect, LedWrite, LedFinish, SendEnds, SendEndReads,
       SendEndClears, EnableFinish, AuthFinish, ReadBlockFinish,
       WriteBlockFinish, SenderFinish, SendWrite, TaskAt, TaskTurn, sendRest,
       envVars, irqVars
<1>3. NoNewResponse
    <2>1. CASE \/ EnableWrite \/ AuthWrite \/ ReadBlockWrite
               \/ WriteBlockWrite \/ LedWrite
        <3>1. \/ BusWrite("listPassiveTarget") \/ BusWrite("authenticate")
              \/ BusWrite(ReadCommand(PN532_READING_SSID_BLOCK))
              \/ BusWrite("writeBlock") \/ BusWrite("writeGpio")
            BY <2>1 DEF EnableWrite, AuthWrite, ReadBlockWrite,
               WriteBlockWrite, LedWrite, SendWrite
        <3> QED BY <1>1, <3>1, WriteFresh
    <2>2. CASE \/ LoopRearms \/ SendEnds \/ EnableFinish \/ AuthFinish
               \/ ReadBlockFinish \/ WriteBlockFinish
               \/ LedSelect \/ LedFinish
        <3>1. UNCHANGED chip
            BY <2>2 DEF LoopRearms, SendEnds, SendEndReads, SendEndClears,
               EnableFinish, AuthFinish, ReadBlockFinish, WriteBlockFinish,
               SenderFinish, LedSelect, LedFinish, bus, wire
        <3> QED BY <1>1, <3>1 DEF NoNewResponse, IsAckFrame
    <2> QED BY <2>1, <2>2 DEF CallbackSteps
<1> QED BY <1>2, <1>3, TaskFresh

\* The expiry of a timer preserves the invariant.  READY forgets the cards of
\* before, and takes the UID handler away with them.
LEMMA TimerFresh ==
    ASSUME TypeOK, FreshInv, LoopFires \/ EnableFires \/ Pn532TimerFires
    PROVE  FreshInv'
<1>1. CASE LoopFires \/ Pn532TimerFires
    <2>1. /\ NoNewResponse /\ isr' = "none"
          /\ UNCHANGED <<field, seen, console, pn532IrqInt>>
        BY <1>1 DEF LoopFires, Pn532TimerFires, TaskTurn, bus, wire, envVars,
           irqVars, NoNewResponse, FreshInv, IsAckFrame
    <2> QED BY <2>1, TaskFresh
<1>2. CASE EnableFires
    <2>1. /\ isr' = "none" /\ pn532IrqInt' = "IRQ_ACK_FRAME"
          /\ UNCHANGED chip /\ UNCHANGED field /\ seen' = {field} \cap Card
        BY <1>2 DEF EnableFires, TaskTurn, wire
    <2>2. console'.line = "ready"
        BY <1>2 DEF EnableFires, TypeOK, DataOK
    <2> QED
        BY <2>1, <2>2 DEF FreshInv, ResponseFresh, AckTaken, Finishing,
           FreshUid, IsAckFrame
<1> QED BY <1>1, <1>2

\* The interrupt handler preserves the invariant: the UID handler is selected
\* only after an ACK, and an ACK comes before the response it belongs to.
LEMMA InterruptFresh ==
    ASSUME TypeOK, FreshInv, Interrupt
    PROVE  FreshInv'
<1> USE DEF FreshInv, ResponseFresh, AckTaken, Finishing, FreshUid, Dispatched
<1>1. CASE IsrEnter \/ IsrIgnores \/ IsrExit \/ IsrSendEnd
    BY <1>1 DEF IsrEnter, IsrIgnores, IsrExit, IsrSendEnd, bus, wire, irqVars,
       isrRest, envVars, IsAckFrame
<1>2. CASE AckRead
    <2>1. BusRead(Flushed(recvBuffer), FALSE)
        BY <1>2 DEF AckRead
    <2>2. NoNewResponse
        BY <2>1, ReadFresh
    <2>3. AckTaken' => chip'.phase # "response"
        <3> SUFFICES ASSUME AckTaken' PROVE chip'.phase # "response"
            OBVIOUS
        <3>a. ~i2c_error' /\ recvBuffer'.kind = "ack"
            BY DEF IsAckFrame
        <3>b. \/ i2c_error' = i2c_error /\ i2c_error
              \/ /\ chip' = AfterRead(chip)
                 /\ recvBuffer' =
                        ReadInto(Flushed(recvBuffer), FrameOf(chip), FALSE)
              \/ i2c_error' = TRUE
            BY <2>1, Zenon DEF BusRead, ChipMoves
        <3>1. /\ chip' = AfterRead(chip)
              /\ recvBuffer' =
                    ReadInto(Flushed(recvBuffer), FrameOf(chip), FALSE)
            BY <3>a, <3>b, Zenon
        <3>2. FrameOf(chip).kind = "ack"
            BY <3>a, <3>1 DEF ReadInto, Flushed, Plain
        <3>3. chip.phase = "ack"
            BY <3>2 DEF FrameOf, Plain, IsAckFrame
        <3> QED BY <3>1, <3>3 DEF AfterRead, TypeOK, DataOK, Chip
    <2> QED
        BY <1>2, <2>2, <2>3 DEF AckRead, NoNewResponse, irqVars, isrRest,
           envVars
<1>3. CASE AckFinish
    <2>1. /\ UNCHANGED <<chip, field, seen, console>> /\ isr' = "exit"
          /\ pn532IrqInt' = "IRQ_READ_UID" => AckTaken
        BY <1>3 DEF AckFinish, wire, isrRest, envVars
    <2> QED BY <2>1 DEF IsAckFrame
<1>4. CASE UidRead
    <2>1. BusRead(Flushed(recvBuffer), TRUE)
        BY <1>4 DEF UidRead
    <2>2. NoNewResponse
        BY <2>1, ReadFresh
    <2>3. recvBuffer'.uid \in seen \cup {NoCard, CutUid}
        <3>1. FrameOf(chip).uid \in seen \cup {NoCard, CutUid}
            BY <1>4 DEF UidRead, FrameOf, Plain
        <3>2. FrameOf(chip) \in Frame
            BY ReadType DEF TypeOK, DataOK
        <3>3. recvBuffer' \in {Flushed(recvBuffer), FrameOf(chip)}
                \cup PartsInto(Flushed(recvBuffer), FrameOf(chip), TRUE)
            BY <2>1 DEF BusRead, ReadInto
        <3> QED
            BY <3>1, <3>2, <3>3
            DEF PartsInto, ReadInto, Flushed, Plain, Frame
    <2> QED
        BY <1>4, <2>2, <2>3 DEF UidRead, NoNewResponse, irqVars, isrRest,
           envVars
<1>5. CASE UidRejected
    BY <1>5 DEF UidRejected, bus, irqVars, isrRest, envVars, IsAckFrame
<1>6. CASE UidAcceptedStep
    BY <1>6 DEF UidAcceptedStep, UidAccepted, wire, irqVars, envVars,
       IsAckFrame
<1>7. CASE AuthRead \/ DataRead \/ WrittenRead \/ GpioRead
    <2>1. BusRead(Flushed(recvBuffer), TRUE) \/ BusRead(recvBuffer, TRUE)
        BY <1>7 DEF AuthRead, DataRead, WrittenRead, GpioRead
    <2>2. NoNewResponse
        BY <2>1, ReadFresh
    <2> QED
        BY <1>7, <2>2 DEF AuthRead, DataRead, WrittenRead, GpioRead,
           NoNewResponse, irqVars, isrRest, envVars
<1>8. CASE \/ AuthRefused \/ AuthAccepted \/ DataRefused \/ DataAccepted
           \/ WrittenFinish \/ GpioFinish
    BY <1>8 DEF AuthRefused, AuthAccepted, DataRefused, DataAccepted,
       WrittenFinish, GpioFinish, wire, irqVars, isrRest, envVars, IsAckFrame
<1>9. CASE IsrSend
    <2>1. NoNewResponse
        BY <1>9, WriteFresh DEF IsrSend
    <2> QED
        BY <1>9, <2>1 DEF IsrSend, NoNewResponse, irqVars, isrRest, envVars
<1> QED BY <1>1, <1>2, <1>3, <1>4, <1>5, <1>6, <1>7, <1>8, <1>9 DEF Interrupt

\* The chip answers a listing with the card that is in the field, which has
\* been seen; its other answers carry no whole UID.
LEMMA ChipsFresh ==
    ASSUME TypeOK, FreshInv, Chips
    PROVE  FreshInv'
<1>1. UNCHANGED <<field, seen, console, isr, recvBuffer, i2c_error, pn532IrqInt>>
    BY DEF Chips, ChipAcknowledges, ChipAnswers, envVars, firmware, irqVars
<1>2. ~IsAckFrame(chip'.response) /\ ResponseFresh'
    <2>1. CASE ChipAcknowledges
        BY <2>1 DEF ChipAcknowledges, ChipMoves, Acknowledged, FreshInv,
           ResponseFresh, TypeOK, DataOK, Chip, IsAckFrame
    <2>2. CASE ChipAnswers
        <3>1. chip' \in Answers(chip, field)
            BY <2>2 DEF ChipAnswers, ChipMoves
        <3>2. \A c \in Answers(chip, field) :
                \/ c.response = [kind |-> "target", uid |-> field]
                   /\ field # NoCard
                \/ \E kind \in {"firmware", "done", "success", "failure"} :
                        c.response = Plain(kind)
                \/ c.response \in Outcomes(chip.cmd)
            BY DEF Answers, Answered, TypeOK, DataOK, Chip
        <3>3. field # NoCard => field \in seen
            BY DEF FreshInv, TypeOK, DataOK
        <3> QED
            BY <1>1, <3>1, <3>2, <3>3
            DEF ResponseFresh, Plain, Outcomes, IsAckFrame
    <2> QED BY <2>1, <2>2 DEF Chips
<1> QED
    BY <1>1, <1>2 DEF FreshInv, AckTaken, Finishing, FreshUid, IsAckFrame

\* Cards that come are seen, cards that leave have been.
LEMMA EnvironmentFresh ==
    ASSUME TypeOK, FreshInv, Environment
    PROVE  FreshInv'
BY CardAssumption
DEF Environment, CardEnters, CardLeaves, firmware, irqVars, FreshInv,
    ResponseFresh, AckTaken, Finishing, FreshUid, IsAckFrame

\* The invariant behind FreshUid.
LEMMA FreshInvariant == Spec => []FreshInv
<1>1. Init => FreshInv
    BY CardAssumption
    DEF Init, ChipInit, BusInit, DriverInit, FreshInv, AckTaken, Finishing,
        FreshUid, IsAckFrame, Plain
<1>2. TypeOK /\ FreshInv /\ [Next]_vars => FreshInv'
    <2> SUFFICES ASSUME TypeOK, FreshInv, [Next]_vars PROVE FreshInv'
        OBVIOUS
    <2>1. CASE Boot
        BY <2>1, BootFresh
    <2>2. CASE LoopFires \/ EnableFires \/ Pn532TimerFires
        BY <2>2, TimerFresh
    <2>3. CASE CallbackSteps
        BY <2>3, CallbackFresh
    <2>4. CASE Interrupt
        BY <2>4, InterruptFresh
    <2>5. CASE Chips
        BY <2>5, ChipsFresh
    <2>6. CASE Environment
        BY <2>6, EnvironmentFresh
    <2>7. CASE UNCHANGED vars
        BY <2>7 DEF vars, bus, envVars, irqVars, FreshInv, ResponseFresh,
           AckTaken, Finishing, FreshUid, IsAckFrame
    <2> QED BY <2>1, <2>2, <2>3, <2>4, <2>5, <2>6, <2>7 DEF Next
<1> QED BY <1>1, <1>2, TypeCorrect, PTL DEF Spec

\* A complete UID on the console belongs to a card that has been in the field
\* since READY was printed, for every set of cards, all builds, any number of
\* I2C faults at any place, and a chip of any speed.
THEOREM OnlyFreshUids == Spec => []FreshUid
<1>1. FreshInv => FreshUid
    BY DEF FreshInv
<1> QED BY <1>1, FreshInvariant, PTL

=============================================================================
