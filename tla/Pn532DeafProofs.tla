-------------------------- MODULE Pn532DeafProofs --------------------------
(***************************************************************************)
(* The reader never falls deaf, every handler finds the answer it was      *)
(* written for, and blocks are those of the card that was reported: proved *)
(* for all builds, any cards, any bound on faults, and a chip that does    *)
(* not overtake an interrupt handler.                                      *)
(*                                                                         *)
(* The invariant has two halves.  ControlInv says where the two threads of *)
(* control can stand, whatever the bus does; ExchangeInv says at which     *)
(* station the current exchange with the chip is as long as no transaction *)
(* has failed.                                                             *)
(***************************************************************************)
EXTENDS Pn532ControlProofs

-----------------------------------------------------------------------------
(* The stations of an exchange.                                            *)

\* The boot sequence: it is before the first listing, or, at its end, leaves
\* nothing in the chip that looks like an ACK.
LEMMA BootExchange ==
    ASSUME TypeOK, ControlInv, ExchangeInv, Boot
    PROVE  ExchangeInv'
<1> SUFFICES ASSUME faults' = 0
             PROVE  ExchangeInv'
    BY DEF ExchangeInv
<1> USE DEF AnswerRight, BootClears
<1>1. CASE InitTimerFires \/ RetryTimerFires
    BY <1>1 DEF InitTimerFires, RetryTimerFires, StartConnection, bus, TaskTurn,
       ExchangeInv, ControlInv, Unacknowledging
<1>2. CASE \/ FirmwareWrite \/ RfWrite \/ SamWrite \/ ListWrite
    <2>1. PICK cmd : BusWrite(cmd) /\ cmd \notin BlockCommands
        BY <1>2
        DEF FirmwareWrite, RfWrite, SamWrite, ListWrite, BootWrites,
            BlockCommands, ReadCommands
    <2>2. /\ task' = "connection" /\ taskError' = taskError
          /\ pc' \in {"fwAck", "rfRead", "samAck", "listAck"}
        BY <1>2
        DEF FirmwareWrite, RfWrite, SamWrite, ListWrite, BootWrites, BootAt,
            TaskAt, Goto
    <2>3. faults = 0 => ~i2c_error /\ ~taskError
        BY DEF ExchangeInv
    <2>4. faults = 0
        BY <2>1, CleanStep DEF BusWrite
    <2>5. ~i2c_error' /\ chip'.phase = "command" /\ chip'.cmd = cmd
        BY <2>1, <2>3, <2>4, CleanWrite, CleanMove, ReceivesChip
    <2> QED BY <2>1, <2>2, <2>3, <2>4, <2>5 DEF ExchangeInv
<1>3. CASE \/ FirmwareAck \/ FirmwareRead \/ RfRead \/ SamAck \/ SamRead
           \/ ListAck
    <2>1. PICK buffer : BootRead(buffer)
        BY <1>3
        DEF FirmwareAck, FirmwareRead, RfRead, SamAck, SamRead, ListAck,
            BootReads
    <2>2. /\ task = "connection"
          /\ task' = "connection" /\ taskError' = taskError
          /\ pc' \in {"fwAckCheck", "fwDone", "rfCheck", "samRead", "samEnd",
                      "listCheck"}
          /\ pc' = "listCheck" => pc = "listAck"
        BY <1>3
        DEF FirmwareAck, FirmwareRead, RfRead, SamAck, SamRead, ListAck,
            BootReads, BootAt, TaskAt, Goto
    <2>3. faults = 0 => ~i2c_error /\ ~taskError
        BY DEF ExchangeInv
    <2>4. faults = 0
        BY <2>1, CleanStep DEF BootRead, BusRead
    <2>5. chip.cmd \notin BlockCommands
        BY <2>2, <2>4 DEF ExchangeInv
    <2>6. /\ ~i2c_error' /\ chip'.phase # "response"
          /\ chip'.cmd = chip.cmd
          /\ chip.phase \in {"idle", "ack", "response"}
          /\ chip.phase = "ack" => chip'.phase = "busy"
        BY <2>1, <2>3, <2>4, CleanBootRead, CleanMove, AfterReadChip
        DEF TypeOK, DataOK, Chip
    <2>7. Unacknowledging'
        BY <2>1, <2>3, <2>4, <2>5, <2>6, CleanBootRead, CleanMove, AfterReadChip
        DEF Unacknowledging
    <2> QED BY <2>2, <2>3, <2>4, <2>5, <2>6, <2>7 DEF ExchangeInv
<1>4. CASE FirmwareAckCheck \/ FirmwareDone
    <2>1. UNCHANGED <<chip, faults, booting>> /\ booting
        BY <1>4 DEF FirmwareAckCheck, FirmwareDone, BootAt, TaskAt, wire,
           ControlInv
    <2>2. (i2c_error' => i2c_error) /\ (taskError' => taskError)
        BY <1>4 DEF FirmwareAckCheck, FirmwareDone, FirmwareFailed,
           EndTransaction, Goto, TaskReturns
    <2>3. pc' \in {"none", "fwWrite", "fwRead", "rfWrite"}
        BY <1>4 DEF FirmwareAckCheck, FirmwareDone, FirmwareFailed, Goto,
           TaskReturns
    <2> QED BY <2>1, <2>2, <2>3 DEF ExchangeInv
<1>5. CASE \/ RfCheck \/ SamEnd \/ ListCheck \/ SetIrqPin
    <2>1. UNCHANGED <<chip, faults, task, taskError>> /\ task = "connection"
        BY <1>5 DEF RfCheck, SamEnd, ListCheck, SetIrqPin, BootAt, TaskAt,
           Goto, bus, wire
    <2>2. i2c_error' => i2c_error
        BY <1>5 DEF RfCheck, SamEnd, ListCheck, SetIrqPin, EndTransaction, bus
    <2>3. \/ pc' \in {"rfRead", "samWrite", "listWrite"}
          \/ pc \in {"listCheck", "setPin"} /\ pc' \in {"setPin", "park"}
        BY <1>5 DEF RfCheck, SamEnd, ListCheck, SetIrqPin, BootAt, TaskAt, Goto
    <2> QED BY <2>1, <2>2, <2>3 DEF ExchangeInv, Unacknowledging
<1>6. CASE Park
    BY <1>6 DEF Park, BootAt, TaskAt, TaskTurn, TaskReturns, bus, ControlInv,
       ExchangeInv, AtStation, Unacknowledging, Parked
<1> QED BY <1>1, <1>2, <1>3, <1>4, <1>5, <1>6 DEF Boot

\* A handler's name or the state of an ACK says which command is under way.
LEMMA CommandKnown ==
    ASSUME NEW cmd, StateOf(cmd) \in IrqState \/ HandlerOf(cmd) \in IrqInt
    PROVE  cmd \in {"listPassiveTarget", "writeGpio"} \cup CardCommands
BY DEF StateOf, HandlerOf, IrqState, IrqInt, CardCommands, BlockCommands

\* When the task has its turn and no exchange is open, none is under way but a
\* listing that waits for its card.
LEMMA TurnStations ==
    ASSUME TypeOK, ControlInv, AtStation, TaskTurn, ~booting, ~ExchangeOpen,
           pc # "write", task \notin Senders, pn532Timer = "off"
    PROVE  \/ Parked
           \/ Done
           \/ /\ ~enableInterruptTimer
              /\ chip.cmd = "listPassiveTarget" /\ chip.phase \in {"command", "busy"}
<1> USE DEF AtStation
<1>1. isr = "none" /\ ~gpioStatus
    BY DEF TaskTurn, ControlInv
<1>2. ~Announced /\ ~Sending /\ ~Chained /\ ~Taken
    BY <1>1 DEF Announced, Sending, Chained, Taken
<1>3. CASE Sent \/ Awaited
    <2>1. chip.phase \in {"command", "busy"}
        BY <1>1, <1>3 DEF Sent, Awaited, Latched
    <2>2. chip.cmd \in {"listPassiveTarget", "writeGpio"} \cup CardCommands
        BY <1>3, CommandKnown DEF Sent, Awaited, TypeOK, DataOK
    <2>3. chip.cmd = "listPassiveTarget"
        BY <2>1, <2>2 DEF ExchangeOpen, CardCommands
    <2> QED BY <1>3, <2>1, <2>3 DEF Sent, Awaited
<1> QED BY <1>2, <1>3

\* The expiry of a timer.  What waits in the chip when a new listing is
\* announced is not an ACK, and no other exchange is under way.
LEMMA TimerExchange ==
    ASSUME TypeOK, ControlInv, ExchangeInv,
           LoopFires \/ EnableFires \/ Pn532TimerFires
    PROVE  ExchangeInv'
<1> SUFFICES ASSUME faults' = 0
             PROVE  ExchangeInv'
    BY DEF ExchangeInv
<1>1. CASE LoopFires
    <2>1. /\ task = "none" /\ task' = "loop" /\ pc' \in {"rearm", "led"}
          /\ faults = 0
          /\ UNCHANGED <<chip, gpioStatus, i2c_error, taskError, booting, isr,
                         recvBuffer, pn532IrqInt, pn532IrqState, pn532Timer,
                         enableInterruptTimer, console, readingBlock>>
        BY <1>1, CleanStep DEF LoopFires, InItsTime, wire, irqVars
    <2>2. ~booting
        BY <1>1 DEF LoopFires, ControlInv
    <2>3. AtStation'
        <3>1. Parked \/ Chained \/ Sent \/ Awaited \/ Taken \/ Done
            BY <2>1, <2>2 DEF ExchangeInv, AtStation, Announced, Sending, Senders
        <3> QED
            BY <2>1, <3>1 DEF AtStation, Parked, Chained, Sent, Awaited, Taken,
               Done, Senders, Unacknowledging, Latched, Settled, CardKept,
               SelectedIsReported
    <2> QED BY <2>1, <2>2, <2>3 DEF ExchangeInv, AnswerRight, BootClears
<1>2. CASE EnableFires
    <2>1. /\ task = "none" /\ faults = 0 /\ ~ExchangeOpen
          /\ enableInterruptTimer /\ ~enableInterruptTimer'
          /\ task' = "enable" /\ pc' = "write"
          /\ console'.line = "ready"
          /\ pn532IrqInt' = "IRQ_ACK_FRAME" /\ pn532IrqState' = "GETTING_CARD"
          /\ UNCHANGED <<chip, gpioStatus, i2c_error, taskError, booting, isr,
                         recvBuffer, pn532Timer>>
        BY <1>2, CleanStep DEF EnableFires, wire, TypeOK, DataOK
    <2>2. ~booting /\ TaskTurn /\ isr = "none"
        BY <1>2 DEF EnableFires, TaskTurn, ControlInv
    <2>3. AtStation /\ pc # "write"
        BY <2>1, <2>2 DEF ExchangeInv, AtStation, Parked, Announced, Sending,
           Chained, Sent, Awaited, Taken, Done, Senders
    <2>4. Parked \/ Done
        BY <2>1, <2>2, <2>3, TurnStations DEF Senders, ExchangeOpen
    <2>5. Announced'
        BY <2>1, <2>2, <2>4 DEF Parked, Done, Announced, Unacknowledging,
           ExchangeOpen
    <2> QED
        BY <2>1, <2>2, <2>5 DEF ExchangeInv, AtStation, AnswerRight, BootClears
<1>3. CASE Pn532TimerFires
    <2>1. /\ task = "none" /\ task' = pn532Timer /\ pc' = "write"
          /\ pn532Timer # "off" /\ pn532Timer' = "off"
          /\ faults = 0
          /\ UNCHANGED <<chip, gpioStatus, i2c_error, taskError, booting, isr,
                         enableInterruptTimer, console, readingBlock>>
        BY <1>3, CleanStep DEF Pn532TimerFires, bus
    <2>2. ~booting /\ isr = "none" /\ ~gpioStatus
        BY <1>3 DEF Pn532TimerFires, TaskTurn, ControlInv
    <2>3. Done
        BY <2>1, <2>2 DEF ExchangeInv, AtStation, Parked, Announced, Sending,
           Chained, Sent, Awaited, Taken
    <2>4. task' \in Senders
        BY <2>1 DEF Senders, TypeOK, DataOK
    <2>5. Sending'
        BY <2>1, <2>2, <2>3, <2>4 DEF Done, Sending, SelectedIsReported
    <2> QED
        BY <2>1, <2>2, <2>4, <2>5
        DEF ExchangeInv, AtStation, AnswerRight, BootClears, Senders
<1> QED BY <1>1, <1>2, <1>3

\* A write that the chip takes while its line is high leaves the latch alone.
LEMMA WriteUnseen ==
    ASSUME TypeOK, ~i2c_error, NEW cmd, BusWrite(cmd), faults' = 0,
           chip.phase = "idle"
    PROVE  gpioStatus' = gpioStatus
BY CleanWrite, CleanMove, ReceivesChip DEF IrqLow, TypeOK, DataOK, FlagsOK

\* The steps of a callback: what was announced is sent, and the senders set the
\* handler up for what they have sent.
LEMMA CallbackExchange ==
    ASSUME TypeOK, ControlInv, ExchangeInv, CallbackSteps
    PROVE  ExchangeInv'
<1> SUFFICES ASSUME faults' = 0
             PROVE  ExchangeInv'
    BY DEF ExchangeInv
<1> USE DEF AnswerRight, BootClears
<1>0. isr = "none" /\ task # "none"
    BY DEF CallbackSteps, LoopRearms, EnableWrite, AuthWrite, ReadBlockWrite,
       WriteBlockWrite, LedSelect, LedWrite, LedFinish, SendEnds, SendEndReads,
       SendEndClears, EnableFinish, AuthFinish, ReadBlockFinish,
       WriteBlockFinish, SenderFinish, SendWrite, TaskAt, TaskTurn
<1>1. CASE LoopRearms \/ LedFinish
    <2>1. /\ task = "loop" /\ pc \in {"rearm", "finish"}
          /\ task' \in {"loop", "none"} /\ pc' \in {"none", "led", "rearm"}
          /\ faults = 0 /\ (taskError' => taskError)
          /\ pc = "finish" => pn532IrqInt' = pn532IrqInt
          /\ UNCHANGED <<chip, gpioStatus, i2c_error, booting, isr,
                         recvBuffer, pn532IrqInt, pn532IrqState, pn532Timer,
                         enableInterruptTimer, console, readingBlock>>
        BY <1>1 DEF LoopRearms, LedFinish, TaskAt, TaskReturns, bus, sendRest,
           irqVars, timerVars
    <2>2. ~booting
        BY <2>1 DEF ControlInv
    <2>3. AtStation'
        <3>1. Parked \/ Chained \/ Sent \/ Awaited \/ Taken \/ Done
            BY <2>1, <2>2 DEF ExchangeInv, AtStation, Announced, Sending, Senders
        <3> QED
            BY <2>1, <3>1 DEF AtStation, Parked, Chained, Sent, Awaited, Taken,
               Done, Senders, Unacknowledging, Latched, Settled, CardKept,
               SelectedIsReported
    <2> QED BY <2>1, <2>2, <2>3 DEF ExchangeInv
<1>2. CASE EnableWrite \/ LedWrite
    <2>1. PICK cmd \in {"listPassiveTarget", "writeGpio"} :
            /\ BusWrite(cmd)
            /\ \/ cmd = "listPassiveTarget" /\ task = "enable"
               \/ cmd = "writeGpio" /\ task = "loop"
        BY <1>2 DEF EnableWrite, LedWrite, SendWrite, TaskAt
    <2>2. /\ pc = "write" /\ pc' = "endRead"
          /\ UNCHANGED <<task, taskError, isr, booting, pn532IrqInt,
                         pn532IrqState, enableInterruptTimer, pn532Timer,
                         console, readingBlock>>
        BY <1>2 DEF EnableWrite, LedWrite, SendWrite, TaskAt, Goto, sendRest,
           irqVars, timerVars
    <2>3. faults = 0
        BY <2>1, CleanStep DEF BusWrite
    <2>4. ~i2c_error /\ ~taskError /\ ~booting /\ AtStation
        BY <2>1, <2>3 DEF ExchangeInv, ControlInv
    <2>5. Announced
        BY <2>1, <2>2, <2>4 DEF AtStation, Parked, Announced, Sending, Chained,
           Sent, Awaited, Taken, Done, Senders
    <2>6. /\ ~i2c_error'
          /\ chip'.phase = "command" /\ chip'.cmd = cmd
        BY <2>1, <2>3, <2>4, CleanWrite, CleanMove, ReceivesChip
    <2>7. Sent'
        <3>1. pn532IrqState = StateOf(cmd)
            BY <2>1, <2>5 DEF Announced, StateOf, ReadCommands
        <3>2. CardKept'
            BY <2>6 DEF CardKept, CardCommands, BlockCommands, ReadCommands
        <3> QED BY <1>0, <2>1, <2>2, <2>5, <2>6, <3>1, <3>2
                DEF Announced, Sent, Senders
    <2> QED
        BY <2>1, <2>2, <2>3, <2>4, <2>6, <2>7 DEF ExchangeInv, AtStation
<1>3. CASE AuthWrite \/ ReadBlockWrite \/ WriteBlockWrite
    <2>1. PICK cmd \in CardCommands :
            /\ BusWrite(cmd)
            /\ \/ task = "authenticate" /\ cmd = "authenticate"
               \/ /\ task = "readBlock"
                  /\ cmd = ReadCommand(PN532_READING_SSID_BLOCK)
               \/ task = "writeBlock" /\ cmd = "writeBlock"
        BY <1>3 DEF AuthWrite, ReadBlockWrite, WriteBlockWrite, SendWrite,
           TaskAt, CardCommands, BlockCommands, ReadCommands, ReadCommand
    <2>2. /\ pc = "write" /\ pc' = "endRead" /\ task \in Senders
          /\ UNCHANGED <<task, taskError, isr, booting,
                         enableInterruptTimer, pn532Timer, console, readingBlock>>
        BY <1>3 DEF AuthWrite, ReadBlockWrite, WriteBlockWrite, SendWrite,
           TaskAt, Goto, sendRest, irqVars, timerVars, Senders
    <2>3. faults = 0
        BY <2>1, CleanStep DEF BusWrite
    <2>4. ~i2c_error /\ ~taskError /\ ~booting /\ AtStation
        BY <2>1, <2>3 DEF ExchangeInv, ControlInv
    <2>5. Sending /\ chip.phase = "idle"
        BY <2>2, <2>4 DEF AtStation, Parked, Announced, Sending, Chained,
           Sent, Awaited, Taken, Done, Senders
    <2>6. /\ ~i2c_error' /\ ~gpioStatus'
          /\ chip'.phase = "command" /\ chip'.cmd = cmd
          /\ chip'.selected = chip.selected
          /\ cmd \in BlockCommands => chip'.authed = chip.authed
        BY <2>1, <2>3, <2>4, <2>5, CleanWrite, CleanMove, ReceivesChip,
           WriteUnseen
        DEF Sending, CardCommands, BlockCommands, ReadCommands
    <2>7. Sending'
        <3>1. task \in {"readBlock", "writeBlock"} => cmd \in BlockCommands
            BY <2>1 DEF BlockCommands, ReadCommands, ReadCommand
        <3> QED BY <2>1, <2>2, <2>5, <2>6, <3>1 DEF Sending, SelectedIsReported
    <2> QED
        BY <2>1, <2>2, <2>3, <2>4, <2>6, <2>7 DEF ExchangeInv, AtStation, Senders
<1>4. CASE SendEnds
    <2>1. /\ faults = 0 /\ task \in {"enable", "loop"} \cup Senders
          /\ pc \in {"endRead", "endClear"} /\ pc' \in {"endClear", "finish"}
          /\ UNCHANGED <<chip, gpioStatus, recvBuffer, task, isr, booting,
                         pn532IrqInt, pn532IrqState, enableInterruptTimer,
                         pn532Timer, console, readingBlock>>
        BY <1>4 DEF SendEnds, SendEndReads, SendEndClears, TaskAt, TaskTurn,
           Goto, bus, wire, sendRest, irqVars, timerVars, Senders
    <2>2. ~i2c_error /\ ~taskError
        BY <2>1 DEF ExchangeInv
    <2>3. ~i2c_error' /\ ~taskError'
        BY <1>4, <2>2 DEF SendEnds, SendEndReads, SendEndClears, Goto, bus
    <2>4. ~booting /\ task # "connection"
        BY <2>1 DEF ControlInv, Senders
    <2>5. AtStation'
        <3>1. Sending \/ Chained \/ Sent \/ Awaited \/ Taken \/ Done
            BY <2>1, <2>4 DEF ExchangeInv, AtStation, Announced, Parked
        <3>2. CASE Sending
            BY <2>1, <3>2 DEF AtStation, Sending, SelectedIsReported
        <3>3. CASE Chained \/ Sent \/ Awaited \/ Taken \/ Done
            BY <2>1, <3>3 DEF AtStation, Chained, Sent, Awaited, Taken, Done,
               Latched, Settled, CardKept, SelectedIsReported
        <3> QED BY <3>1, <3>2, <3>3
    <2> QED BY <2>1, <2>3, <2>4, <2>5 DEF ExchangeInv
<1>5. CASE EnableFinish
    <2>1. /\ faults = 0 /\ task = "enable" /\ pc = "finish"
          /\ task' = "none" /\ pc' = "none" /\ ~taskError'
          /\ UNCHANGED <<chip, gpioStatus, recvBuffer, isr, booting, i2c_error,
                         enableInterruptTimer, pn532Timer, console, readingBlock>>
        BY <1>5 DEF EnableFinish, TaskAt, TaskTurn, TaskReturns, bus, timerVars
    <2>2. ~taskError /\ ~booting
        BY <2>1 DEF ExchangeInv, ControlInv
    <2>3. UNCHANGED <<pn532IrqInt, pn532IrqState>>
        BY <1>5, <2>2 DEF EnableFinish, irqVars
    <2>4. AtStation'
        <3>1. Chained \/ Sent \/ Awaited \/ Taken \/ Done
            BY <2>1, <2>2 DEF ExchangeInv, AtStation, Announced, Parked,
               Sending, Senders
        <3> QED
            BY <2>1, <2>3, <3>1 DEF AtStation, Chained, Sent, Awaited, Taken,
               Done, Senders, Latched, Settled, CardKept, SelectedIsReported
    <2> QED BY <2>1, <2>2, <2>3, <2>4 DEF ExchangeInv
<1>6. CASE AuthFinish \/ ReadBlockFinish \/ WriteBlockFinish
    <2>1. /\ \/ task = "authenticate" /\ pn532IrqState' = "GETTING_BLOCK_AUTH"
             \/ task = "readBlock" /\ pn532IrqState' = "GETTING_BLOCK_DATA"
             \/ task = "writeBlock" /\ pn532IrqState' = "WRITING_BLOCK_DATA"
          /\ pc = "finish"
          /\ pn532IrqInt' = "IRQ_ACK_FRAME"
          /\ task' = "none" /\ pc' = "none" /\ ~taskError'
          /\ faults = 0
          /\ UNCHANGED <<chip, gpioStatus, recvBuffer, isr, booting, i2c_error,
                         enableInterruptTimer, pn532Timer, console, readingBlock>>
        BY <1>6 DEF AuthFinish, ReadBlockFinish, WriteBlockFinish, SenderFinish,
           TaskAt, TaskReturns, bus, timerVars
    <2>2. ~booting /\ AtStation
        BY <2>1 DEF ExchangeInv, ControlInv
    <2>3. Sending
        BY <2>1, <2>2 DEF AtStation, Parked, Announced, Sending, Chained,
           Sent, Awaited, Taken, Done, Senders
    <2>4. /\ chip.phase = "command" /\ chip.cmd \in CardCommands
          /\ pn532IrqState' = StateOf(chip.cmd)
          /\ chip.cmd \in BlockCommands => chip.authed
          /\ chip.cmd \in ReadCommands => chip.cmd = ReadCommand(readingBlock)
        BY <2>1, <2>3 DEF Sending, CardCommands, BlockCommands, ReadCommands,
           ReadCommand, StateOf
    <2>5. Sent'
        BY <1>0, <2>1, <2>3, <2>4
        DEF Sending, Sent, Senders, CardKept, SelectedIsReported, CardCommands,
            BlockCommands, ReadCommands
    <2> QED BY <2>1, <2>2, <2>5 DEF ExchangeInv, AtStation
<1>7. CASE LedSelect
    <2>1. /\ task = "loop" /\ pc = "led" /\ pc' = "write"
          /\ pn532IrqInt' = "IRQ_ACK_FRAME"
          /\ pn532IrqState' = "WRITING_GPIO_DATA"
          /\ faults = 0 /\ ~ExchangeOpen /\ chip.phase # "command"
          /\ TaskTurn
          /\ UNCHANGED <<chip, gpioStatus, recvBuffer, isr, booting, i2c_error,
                         task, taskError, enableInterruptTimer, pn532Timer,
                         console, readingBlock>>
        BY <1>7, CleanStep DEF LedSelect, InItsTime, TaskAt, Goto, wire, timerVars
    <2>2. ~booting /\ AtStation
        BY <2>1 DEF ExchangeInv, ControlInv
    <2>3. \/ Parked
          \/ Done
          \/ chip.cmd = "listPassiveTarget" /\ chip.phase = "busy"
        BY <2>1, <2>2, TurnStations DEF Senders, ExchangeOpen
    <2>4. Announced'
        BY <1>0, <2>1, <2>3 DEF Parked, Done, Announced, Unacknowledging,
           ExchangeOpen, BlockCommands, ReadCommands
    <2> QED BY <2>1, <2>2, <2>4 DEF ExchangeInv, AtStation
<1> QED BY <1>1, <1>2, <1>3, <1>4, <1>5, <1>6, <1>7 DEF CallbackSteps

\* A read of the response that was awaited.
LEMMA ResponseTaken ==
    ASSUME TypeOK, ExchangeInv, faults = 0, faults' = 0, Awaited,
           isr = "dispatch", isr' = "finish",
           NEW buffer, BusRead(buffer, TRUE),
           UNCHANGED <<task, pc, pn532IrqInt, console, readingBlock>>,
           pn532Timer' = "off",
           enableInterruptTimer => enableInterruptTimer',
           pn532IrqInt = "IRQ_READ_UID" => enableInterruptTimer',
           chip.cmd = "listPassiveTarget" => console.line = "ready"
    PROVE  ~i2c_error' /\ Taken' /\ AnswerRight'
<1>1. chip.phase = "response"
    BY DEF Awaited, Settled
<1>2. /\ chip.response.kind \in AnswerKinds(chip.cmd)
      /\ chip.cmd = "listPassiveTarget" => chip.response.uid = chip.selected
      /\ chip.cmd = "authenticate" /\ chip.response.kind = "success" =>
            chip.authed
      /\ ~i2c_error
    BY <1>1 DEF ExchangeInv, AnswerRight
<1>3. /\ ~i2c_error' /\ chip' = AfterRead(chip)
      /\ recvBuffer' = chip.response
    BY <1>1, <1>2, CleanRead, CleanMove DEF ReadInto, FrameOf
<1>4. /\ chip'.phase = "idle" /\ chip'.cmd = chip.cmd
      /\ chip'.selected = chip.selected /\ chip'.authed = chip.authed
    BY <1>1, <1>3, AfterReadChip
<1>5. chip.cmd = "listPassiveTarget" => enableInterruptTimer'
    BY DEF Awaited, HandlerOf, ReadCommands
<1>6. CardKept'
    BY <1>4 DEF Awaited, CardKept, SelectedIsReported
<1>7. Taken'
    BY <1>2, <1>3, <1>4, <1>5, <1>6 DEF Awaited, Taken
<1> QED BY <1>3, <1>4, <1>7 DEF AnswerRight

\* The interrupt handler moves an exchange on: from the latched ACK to the wait
\* for the answer, and from the answer to the next command or to the end.
LEMMA InterruptExchange ==
    ASSUME TypeOK, ControlInv, ExchangeInv, Interrupt
    PROVE  ExchangeInv'
<1> SUFFICES ASSUME faults' = 0
             PROVE  ExchangeInv'
    BY DEF ExchangeInv
<1> USE DEF Dispatched, Finishing
<1>1. CASE IsrEnter \/ IsrIgnores \/ IsrExit
    <2>1. /\ UNCHANGED <<chip, recvBuffer, i2c_error, faults, booting, task, pc,
                         taskError, pn532IrqInt, pn532IrqState, pn532Timer,
                         enableInterruptTimer, console, readingBlock>>
          /\ \/ /\ isr = "none" /\ isr' = "dispatch"
                /\ gpioStatus /\ gpioStatus'
             \/ /\ isr = "dispatch" /\ isr' = "exit"
                /\ pn532IrqInt \in {"IRQ_IDLE", "IRQ_PASSIVE_TARGET"}
                /\ UNCHANGED gpioStatus
             \/ isr = "exit" /\ isr' = "none" /\ ~gpioStatus'
        BY <1>1 DEF IsrEnter, IsrIgnores, IsrExit, bus, irqVars, timerVars,
           isrRest, taskVars
    <2>2. AtStation => AtStation'
        <3>1. Parked \/ Announced => AtStation'
            BY <2>1 DEF AtStation, Parked, Announced, Unacknowledging
        <3>2. Sending \/ Chained => AtStation'
            BY <2>1 DEF Sending, Chained
        <3>3. Sent => Sent'
            BY <2>1 DEF Sent, Latched, CardKept, SelectedIsReported
        <3>4. Awaited => Awaited'
            BY <2>1 DEF Awaited, Latched, Settled, CardKept, SelectedIsReported,
               HandlerOf
        <3>5. Taken \/ Done => AtStation'
            BY <2>1 DEF AtStation, Taken, Done, Settled, SelectedIsReported
        <3> QED BY <3>1, <3>2, <3>3, <3>4, <3>5 DEF AtStation
    <2> QED BY <2>1, <2>2
        DEF ExchangeInv, AnswerRight, BootClears, Unacknowledging
<1>2. CASE AckRead
    <2>1. /\ BusRead(Flushed(recvBuffer), FALSE)
          /\ isr = "dispatch" /\ isr' = "finish"
          /\ pn532IrqInt = "IRQ_ACK_FRAME"
          /\ UNCHANGED <<task, pc, taskError, booting, pn532IrqInt,
                         pn532IrqState, pn532Timer, enableInterruptTimer,
                         console, readingBlock>>
        BY <1>2 DEF AckRead, irqVars, timerVars, isrRest, taskVars
    <2>2. faults = 0
        BY <2>1, CleanStep DEF BusRead
    <2>3. ~i2c_error /\ ~taskError
        BY <2>2 DEF ExchangeInv
    <2>4. /\ ~i2c_error' /\ chip' = AfterRead(chip)
          /\ recvBuffer' = ReadInto(Flushed(recvBuffer), FrameOf(chip), FALSE)
        BY <2>1, <2>3, CleanRead, CleanMove
    <2>5. recvBuffer'.kind = FrameOf(chip).kind
        BY <2>4 DEF ReadInto, Flushed, Plain
    <2>6. "ack" \notin AnswerKinds(chip.cmd)
        BY DEF AnswerKinds
    <2>7. IsAckFrame(recvBuffer') <=> chip.phase = "ack"
        BY <2>2, <2>5, <2>6 DEF FrameOf, Plain, IsAckFrame, ExchangeInv,
           AnswerRight
    <2>8. /\ chip'.cmd = chip.cmd /\ chip'.phase # "response"
          /\ chip'.selected = chip.selected /\ chip'.authed = chip.authed
          /\ chip.phase = "ack" => chip'.phase = "busy"
          /\ chip.phase = "response" => chip'.phase = "idle"
          /\ chip.phase \notin {"ack", "response"} => chip'.phase = chip.phase
        BY <2>4, AfterReadChip
    <2>9. Unacknowledging => Unacknowledging'
        BY <2>8 DEF Unacknowledging
    <2>10. CASE booting \/ task = "connection"
        BY <2>1, <2>2, <2>3, <2>4, <2>8, <2>9, <2>10
        DEF ExchangeInv, ControlInv, AnswerRight, BootClears
    <2>11. CASE ~booting /\ task # "connection"
        <3>1. AtStation
            BY <2>2, <2>11 DEF ExchangeInv
        <3>2. Announced \/ Sent
            BY <2>1, <3>1 DEF AtStation, Parked, Sending, Chained, Awaited,
               Taken, Done, HandlerOf, Settled
        <3>3. Announced => Announced'
            BY <2>1, <2>7, <2>9 DEF Announced, Unacknowledging
        <3>4. Sent => Sent'
            BY <2>1, <2>7, <2>8
            DEF Sent, Latched, CardKept, SelectedIsReported
        <3> QED
            BY <2>1, <2>2, <2>3, <2>4, <2>8, <2>11, <3>2, <3>3, <3>4
            DEF ExchangeInv, AtStation, AnswerRight, BootClears
    <2> QED BY <2>10, <2>11
<1>3. CASE AckFinish
    <2>1. /\ isr = "finish" /\ isr' = "exit" /\ ~i2c_error'
          /\ pn532IrqInt = "IRQ_ACK_FRAME"
          /\ faults = 0
          /\ UNCHANGED <<chip, gpioStatus, task, pc, taskError, booting,
                         recvBuffer, pn532IrqState, pn532Timer,
                         enableInterruptTimer, console, readingBlock>>
        BY <1>3 DEF AckFinish, EndTransaction, wire, timerVars, isrRest,
           taskVars
    <2>2. /\ ~IsAckFrame(recvBuffer) => pn532IrqInt' = "IRQ_ACK_FRAME"
          /\ IsAckFrame(recvBuffer) => pn532IrqInt' = ResponseHandler
        BY <1>3, <2>1 DEF AckFinish, ExchangeInv
    <2>3. AtStation => AtStation'
        <3>1. AtStation => Announced \/ Sent
            BY <2>1 DEF AtStation, Parked, Announced, Sending, Chained, Awaited,
               Taken, Done, HandlerOf, Settled, Latched
        <3>2. Announced => Announced'
            BY <2>1, <2>2 DEF Announced, Unacknowledging
        <3>3. CASE Sent /\ chip.phase # "busy"
            BY <2>1, <2>2, <3>3
            DEF AtStation, Sent, Latched, CardKept, SelectedIsReported
        <3>4. CASE Sent /\ chip.phase = "busy"
            <4>1. pn532IrqInt' = ResponseHandler
                BY <2>2, <3>4 DEF Sent
            <4>2. pn532IrqInt' = HandlerOf(chip.cmd)
                <5>1. pn532IrqState = StateOf(chip.cmd)
                    BY <3>4 DEF Sent
                <5>2. chip.cmd \in {"listPassiveTarget", "writeGpio"}
                                    \cup CardCommands
                    BY <5>1, CommandKnown DEF TypeOK, DataOK
                <5> QED
                    BY <4>1, <5>1, <5>2 DEF ResponseHandler, StateOf, HandlerOf,
                       CardCommands, BlockCommands, ReadCommands
            <4>3. Awaited'
                BY <2>1, <3>4, <4>2
                DEF Sent, Awaited, Settled, CardKept, SelectedIsReported
            <4> QED BY <4>3 DEF AtStation
        <3> QED BY <3>1, <3>2, <3>3, <3>4 DEF AtStation
    <2> QED BY <2>1, <2>3
        DEF ExchangeInv, AnswerRight, BootClears, Unacknowledging
<1>4. CASE UidRead \/ AuthRead \/ DataRead \/ WrittenRead \/ GpioRead
    <2>1. PICK buffer : BusRead(buffer, TRUE)
        BY <1>4 DEF UidRead, AuthRead, DataRead, WrittenRead, GpioRead
    <2>2. /\ isr = "dispatch" /\ isr' = "finish"
          /\ pn532IrqInt \notin {"IRQ_IDLE", "IRQ_ACK_FRAME", "IRQ_PASSIVE_TARGET"}
          /\ UNCHANGED <<task, pc, taskError, booting, pn532IrqInt, console,
                         readingBlock>>
          /\ \/ pn532IrqInt = "IRQ_READ_UID" /\ pn532Timer' = "off"
                /\ enableInterruptTimer' = TRUE
             \/ pn532IrqInt # "IRQ_READ_UID"
                /\ UNCHANGED <<pn532Timer, enableInterruptTimer>>
        BY <1>4 DEF UidRead, AuthRead, DataRead, WrittenRead, GpioRead, irqVars,
           timerVars, isrRest, taskVars
    <2>3. faults = 0
        BY <2>1, CleanStep DEF BusRead
    <2>4. ~booting /\ task # "connection"
        BY <2>2 DEF ControlInv
    <2>5. Awaited
        BY <2>2, <2>3, <2>4 DEF ExchangeInv, AtStation, Parked, Announced,
           Sending, Chained, Sent, Taken, Done, Settled
    <2>6. chip.cmd = "listPassiveTarget" => console.line = "ready"
        BY <2>3, <2>4, <2>5 DEF ExchangeInv, Awaited
    <2>7. /\ pn532Timer' = "off"
          /\ enableInterruptTimer => enableInterruptTimer'
          /\ pn532IrqInt = "IRQ_READ_UID" => enableInterruptTimer'
          /\ ~enableInterruptTimer' => ~enableInterruptTimer
        BY <2>2, <2>5 DEF Awaited
    <2>8. ~i2c_error' /\ Taken' /\ AnswerRight'
        BY <2>1, <2>2, <2>3, <2>5, <2>6, <2>7, ResponseTaken
    <2> QED BY <2>2, <2>3, <2>4, <2>7, <2>8
        DEF ExchangeInv, AtStation, BootClears
<1>5. CASE UidRejected \/ UidAcceptedStep
    <2>1. /\ isr = "finish" /\ isr' = "exit"
          /\ pn532IrqInt = "IRQ_READ_UID"
          /\ i2c_error' => i2c_error
          /\ faults = 0
          /\ UNCHANGED <<chip, gpioStatus, task, pc, taskError, booting,
                         pn532IrqInt, enableInterruptTimer>>
          /\ \/ UNCHANGED pn532Timer
             \/ /\ pn532Timer' = "authenticate"
                /\ console' = [line |-> "uid", uid |-> recvBuffer.uid]
        BY <1>5 DEF UidRejected, UidAcceptedStep, EndTransaction, bus, wire,
           irqVars, timerVars, isrRest, taskVars
    <2>2. ~booting /\ task # "connection"
        BY <2>1 DEF ControlInv
    <2>3. Taken
        BY <2>1, <2>2 DEF ExchangeInv, AtStation, Parked, Announced, Sending,
           Chained, Sent, Awaited, Done, Settled, Latched
    <2>4. chip.cmd = "listPassiveTarget"
        BY <2>1, <2>3 DEF Taken, HandlerOf
    <2>5. Done'
        BY <2>1, <2>3, <2>4 DEF Taken, Done, Settled, SelectedIsReported
    <2> QED BY <2>1, <2>2, <2>3, <2>4, <2>5
        DEF ExchangeInv, AtStation, AnswerRight, BootClears, Taken
<1>6. CASE \/ AuthRefused \/ AuthAccepted \/ DataRefused \/ DataAccepted
           \/ WrittenFinish \/ GpioFinish
    <2>1. /\ isr = "finish" /\ ~i2c_error' /\ faults = 0
          /\ pn532IrqInt \notin {"IRQ_IDLE", "IRQ_ACK_FRAME", "IRQ_READ_UID"}
          /\ UNCHANGED <<chip, gpioStatus, task, pc, taskError, booting, console,
                         recvBuffer>>
        BY <1>6 DEF AuthRefused, AuthAccepted, DataRefused, DataAccepted,
           WrittenFinish, GpioFinish, EndTransaction, wire, isrRest, taskVars
    <2>2. ~booting /\ task # "connection" /\ ~i2c_error
        BY <2>1 DEF ControlInv, ExchangeInv
    <2>3. Taken
        BY <2>1, <2>2 DEF ExchangeInv, AtStation, Parked, Announced, Sending,
           Chained, Sent, Awaited, Done, Settled, Latched
    <2>4. enableInterruptTimer'
        BY <1>6, <2>1, <2>2, <2>3 DEF AuthRefused, AuthAccepted, DataRefused,
           DataAccepted, WrittenFinish, GpioFinish, timerVars, Taken, CardKept,
           HandlerOf, CardCommands, BlockCommands, ReadCommands
    <2>5. (Done \/ Chained)'
        <3>1. CASE AuthRefused \/ WrittenFinish \/ GpioFinish
            <4>1. /\ isr' = "exit" /\ UNCHANGED <<pn532IrqInt, pn532Timer>>
                BY <3>1 DEF AuthRefused, WrittenFinish, GpioFinish, irqVars,
                   timerVars
            <4> QED BY <2>1, <2>3, <2>4, <4>1 DEF Taken, Done, Settled
        <3>2. CASE DataRefused
            <4>1. /\ isr' = "exit" /\ pn532IrqInt' = "IRQ_PASSIVE_TARGET"
                  /\ UNCHANGED pn532Timer
                BY <3>2 DEF DataRefused
            <4> QED BY <2>1, <2>3, <2>4, <4>1 DEF Taken, Done, Settled
        <3>3. CASE AuthAccepted
            <4>1. /\ isr' = "exit" /\ pn532IrqInt = "IRQ_READ_AUTHENTICATION"
                  /\ TRUE \in StatusIsZero(recvBuffer)
                  /\ pn532Timer' = AfterAuthentication
                  /\ UNCHANGED <<pn532IrqInt, readingBlock>>
                BY <3>3 DEF AuthAccepted, irqVars
            <4>2. chip.cmd = "authenticate" /\ SelectedIsReported
                BY <2>3, <4>1 DEF Taken, CardKept, HandlerOf, CardCommands
            <4>3. chip.authed
                <5>1. recvBuffer.kind \in {"success", "failure"}
                    BY <2>3, <4>2 DEF Taken, AnswerKinds, CardCommands,
                       BlockCommands, ReadCommands, Settings
                <5>2. recvBuffer.kind = "success"
                    BY <4>1, <5>1 DEF StatusIsZero
                <5> QED BY <2>3, <4>2, <5>2 DEF Taken
            <4>4. pn532Timer' = "readBlock" =>
                        readingBlock = PN532_READING_SSID_BLOCK
                BY <2>3, <4>1 DEF Taken, AfterAuthentication
            <4> QED
                BY <2>1, <2>3, <2>4, <4>1, <4>2, <4>3, <4>4
                DEF Taken, Done, Settled, SelectedIsReported
        <3>4. CASE DataAccepted
            <4>1. /\ pn532IrqInt = "IRQ_READ_BLOCK_DATA"
                  /\ UNCHANGED pn532Timer
                  /\ \/ isr' = "send"
                     \/ isr' = "exit" /\ pn532IrqInt' = "IRQ_PASSIVE_TARGET"
                BY <2>2, <3>4 DEF DataAccepted, timerVars
            <4>2. chip.cmd \in BlockCommands /\ chip.cmd \in CardCommands
                BY <2>3, <4>1 DEF Taken, HandlerOf, BlockCommands, CardCommands
            <4>3. SelectedIsReported /\ chip.authed
                BY <2>3, <4>2 DEF Taken, CardKept
            <4> QED
                BY <2>1, <2>3, <2>4, <4>1, <4>3
                DEF Taken, Done, Chained, Settled, SelectedIsReported
        <3> QED BY <1>6, <3>1, <3>2, <3>3, <3>4
    <2> QED BY <2>1, <2>2, <2>3, <2>4, <2>5
        DEF ExchangeInv, AtStation, AnswerRight, BootClears, Taken
<1>7. CASE IsrSend
    <2>1. /\ BusWrite(ReadCommand(readingBlock))
          /\ isr = "send" /\ isr' = "sendEnd"
          /\ UNCHANGED <<task, pc, taskError, booting, pn532Timer,
                         enableInterruptTimer, console, readingBlock>>
        BY <1>7 DEF IsrSend, timerVars, isrRest, taskVars
    <2>2. faults = 0 /\ ~booting /\ task # "connection"
        BY <2>1, CleanStep DEF BusWrite, ControlInv
    <2>3. ~i2c_error /\ ~taskError /\ Chained
        BY <2>1, <2>2 DEF ControlInv, ExchangeInv, AtStation, Parked, Announced,
           Sending, Chained, Sent, Awaited, Taken, Done, Settled, Latched
    <2>4. ReadCommand(readingBlock) \in BlockCommands
        BY DEF ReadCommand, BlockCommands, ReadCommands
    <2>5. /\ ~i2c_error'
          /\ chip'.phase = "command" /\ chip'.cmd = ReadCommand(readingBlock)
          /\ chip'.selected = chip.selected /\ chip'.authed = chip.authed
        BY <2>1, <2>2, <2>3, <2>4, CleanWrite, CleanMove, ReceivesChip
        DEF BlockCommands, ReadCommands
    <2>6. Chained'
        BY <2>1, <2>3, <2>5 DEF Chained, SelectedIsReported
    <2> QED BY <2>1, <2>2, <2>3, <2>5, <2>6
        DEF ExchangeInv, AtStation, AnswerRight, BootClears, Chained
<1>8. CASE IsrSendEnd
    <2>1. /\ isr = "sendEnd" /\ isr' = "exit" /\ ~i2c_error'
          /\ pn532IrqInt' = "IRQ_ACK_FRAME"
          /\ pn532IrqState' = "GETTING_BLOCK_DATA"
          /\ faults = 0
          /\ UNCHANGED <<chip, task, pc, taskError, booting, pn532Timer,
                         enableInterruptTimer, console, readingBlock>>
        BY <1>8 DEF IsrSendEnd, EndTransaction, wire, timerVars, isrRest,
           taskVars
    <2>2. ~booting /\ task # "connection"
        BY <2>1 DEF ControlInv
    <2>3. Chained
        BY <2>1, <2>2 DEF ControlInv, ExchangeInv, AtStation, Parked, Announced,
           Sending, Chained, Sent, Awaited, Taken, Done, Settled, Latched
    <2>4. chip.phase = "command" /\ chip.cmd = ReadCommand(readingBlock)
        BY <2>1, <2>3 DEF Chained
    <2>5. /\ StateOf(chip.cmd) = "GETTING_BLOCK_DATA"
          /\ chip.cmd # "listPassiveTarget"
        BY <2>4 DEF ReadCommand, StateOf, ReadCommands
    <2>6. Sent'
        BY <2>1, <2>3, <2>4, <2>5 DEF Chained, Sent, CardKept, SelectedIsReported
    <2> QED BY <2>1, <2>2, <2>3, <2>4, <2>6
        DEF ExchangeInv, AtStation, AnswerRight, BootClears, Chained
<1> QED BY <1>1, <1>2, <1>3, <1>4, <1>5, <1>6, <1>7, <1>8 DEF Interrupt

\* What the chip's answer to its command can be.
LEMMA AnswersChip ==
    ASSUME TypeOK, NEW c \in Answers(chip, field)
    PROVE  /\ c.phase = "response" /\ c.cmd = chip.cmd
           /\ c.response.kind \in AnswerKinds(chip.cmd)
           /\ chip.cmd = "listPassiveTarget" => c.response.uid = c.selected
           /\ chip.cmd # "listPassiveTarget" => c.selected = chip.selected
           /\ chip.cmd = "authenticate" /\ c.response.kind = "success" => c.authed
           /\ chip.authed => c.authed
<1>1. chip \in Chip
    BY DEF TypeOK, DataOK
<1>2. ASSUME NEW frame
      PROVE  /\ Answered(chip, frame).phase = "response"
             /\ Answered(chip, frame).cmd = chip.cmd
             /\ Answered(chip, frame).response = frame
             /\ Answered(chip, frame).selected = chip.selected
             /\ Answered(chip, frame).authed = chip.authed
    BY <1>1 DEF Answered, Chip
<1> USE DEF Settings, BlockCommands, ReadCommands, CardCommands, Plain
<1>3. CASE chip.cmd = "getFirmwareVersion"
    <2>1. c = Answered(chip, Plain("firmware"))
        BY <1>3 DEF Answers
    <2> QED BY <1>2, <1>3, <2>1 DEF AnswerKinds
<1>4. CASE chip.cmd = "listPassiveTarget"
    <2>1. c = [Answered(chip, [kind |-> "target", uid |-> field])
                EXCEPT !.selected = field]
        BY <1>4 DEF Answers
    <2>2. /\ c.phase = "response" /\ c.cmd = chip.cmd /\ c.selected = field
          /\ c.response = [kind |-> "target", uid |-> field]
          /\ c.authed = chip.authed
        BY <1>1, <2>1 DEF Answered, Chip
    <2> QED BY <1>4, <2>2 DEF AnswerKinds
<1>5. CASE chip.cmd \in Settings
    <2>1. c = Answered(chip, Plain("done"))
        BY <1>5 DEF Answers
    <2> QED BY <1>2, <1>5, <2>1 DEF AnswerKinds
<1>6. CASE chip.cmd = "authenticate"
    <2>1. \/ c = Answered(chip, Plain("failure"))
          \/ c = [Answered(chip, Plain("success")) EXCEPT !.authed = TRUE]
        BY <1>6 DEF Answers
    <2>2. CASE c = Answered(chip, Plain("failure"))
        BY <1>2, <1>6, <2>2 DEF AnswerKinds
    <2>3. CASE c = [Answered(chip, Plain("success")) EXCEPT !.authed = TRUE]
        <3>1. /\ c.phase = "response" /\ c.cmd = chip.cmd
              /\ c.response = Plain("success") /\ c.selected = chip.selected
              /\ c.authed = TRUE
            BY <1>1, <2>3 DEF Answered, Chip
        <3> QED BY <1>6, <3>1 DEF AnswerKinds
    <2> QED BY <2>1, <2>2, <2>3
<1>7. CASE chip.cmd \in BlockCommands
    <2>1. PICK frame : c = Answered(chip, frame)
                       /\ frame.kind \in {"success", "failure"}
        <3>1. \A frame \in Outcomes(chip.cmd) : frame.kind = "success"
            BY DEF Outcomes
        <3> QED BY <1>7, <3>1 DEF Answers
    <2> QED BY <1>2, <1>7, <2>1 DEF AnswerKinds
<1> QED BY <1>3, <1>4, <1>5, <1>6, <1>7 DEF Answers

\* Neither half of the invariant looks at the field, the cards seen, or the
\* timers and counters that are not listed.
LEMMA SameExchange ==
    ASSUME ExchangeInv,
           UNCHANGED <<chip, gpioStatus, recvBuffer, i2c_error, faults, booting,
                       task, pc, taskError, isr, pn532IrqInt, pn532IrqState,
                       pn532Timer, enableInterruptTimer, console, readingBlock>>
    PROVE  ExchangeInv'
<1> USE DEF Unacknowledging, Latched, Settled, CardKept, SelectedIsReported
<1>1. AtStation => AtStation'
    <2>1. Parked \/ Announced => AtStation'
        BY DEF AtStation, Parked, Announced
    <2>2. Sending => Sending'
        BY DEF Sending
    <2>3. Chained => Chained'
        BY DEF Chained
    <2>4. Sent \/ Awaited => AtStation'
        BY DEF AtStation, Sent, Awaited
    <2>5. Taken \/ Done => AtStation'
        BY DEF AtStation, Taken, Done
    <2> QED BY <2>1, <2>2, <2>3, <2>4, <2>5 DEF AtStation
<1>2. (AnswerRight => AnswerRight') /\ (BootClears => BootClears')
    BY DEF AnswerRight, BootClears
<1> QED BY <1>1, <1>2 DEF ExchangeInv

\* The chip acknowledges and answers while the pin is unmasked, for it does
\* not act behind the last I2C call of a handler; nor does it overtake a sender
\* that has not set the handler up yet.
LEMMA ChipsExchange ==
    ASSUME TypeOK, ControlInv, ExchangeInv, NotOvertaking, Chips
    PROVE  ExchangeInv'
<1> SUFFICES ASSUME faults' = 0
             PROVE  ExchangeInv'
    BY DEF ExchangeInv
<1>1. /\ isr \in {"none", "dispatch"}
      /\ faults = 0
      /\ UNCHANGED <<recvBuffer, i2c_error, booting, task, pc, taskError,
                     isr, pn532IrqInt, pn532IrqState, pn532Timer,
                     enableInterruptTimer, console, readingBlock>>
    BY DEF Chips, ChipAcknowledges, ChipAnswers, ChipTurn, NotOvertaking,
       firmware, irqVars, timerVars, taskVars, TypeOK, DataOK
<1>2. ~booting => gpioStatus \/ pinIntr
    BY <1>1 DEF ControlInv
<1>3. task \in Senders => pc = "write"
    BY DEF Chips, ChipAcknowledges, ChipAnswers, ChipTurn, NotOvertaking,
       ControlInv, Senders, CallbackStep, TypeOK, DataOK
<1>4. ASSUME ~booting, task # "connection", chip.phase \in {"command", "busy"}
      PROVE  \/ Parked /\ chip.phase = "busy"
             \/ Announced /\ chip.phase = "busy"
             \/ Sent /\ chip.phase = "command"
             \/ Awaited /\ chip.phase = "busy" /\ isr = "none"
    <2>1. AtStation
        BY <1>1, <1>4 DEF ExchangeInv
    <2>2. ~Sending
        BY <1>3, <1>4 DEF Sending
    <2> QED
        BY <1>1, <1>4, <2>1, <2>2 DEF AtStation, Parked, Announced, Chained,
           Sent, Awaited, Taken, Done, Settled, Unacknowledging
<1>5. CASE ChipAcknowledges
    <2>1. /\ chip.phase = "command" /\ ChipMoves(Acknowledged(chip))
          /\ Acknowledged(chip).phase = "ack"
          /\ Acknowledged(chip).cmd = chip.cmd
          /\ Acknowledged(chip).selected = chip.selected
          /\ Acknowledged(chip).authed = chip.authed
        BY <1>5 DEF ChipAcknowledges, Acknowledged, TypeOK, DataOK, Chip
    <2>2. IrqLow(Acknowledged(chip)) /\ ~IrqLow(chip)
        BY <2>1 DEF IrqLow
    <2>3. chip' = Acknowledged(chip) /\ (gpioStatus \/ pinIntr => gpioStatus')
        BY <2>1, <2>2, CleanMove
    <2>4. ASSUME ~booting, task # "connection"
          PROVE  AtStation'
        <3>1. Sent
            BY <1>4, <2>1, <2>4
        <3>2. Sent'
            BY <1>1, <1>2, <2>1, <2>3, <2>4, <3>1
            DEF Sent, Latched, CardKept, SelectedIsReported
        <3> QED BY <3>2 DEF AtStation
    <2> QED BY <1>1, <2>1, <2>3, <2>4
            DEF ExchangeInv, AnswerRight, BootClears, Unacknowledging
<1>6. CASE ChipAnswers
    <2>1. PICK c \in Answers(chip, field) : ChipMoves(c)
        BY <1>6 DEF ChipAnswers
    <2>2. chip.phase = "busy"
        BY <1>6 DEF ChipAnswers
    <2>3. /\ c.phase = "response" /\ c.cmd = chip.cmd
          /\ c.response.kind \in AnswerKinds(chip.cmd)
          /\ chip.cmd = "listPassiveTarget" => c.response.uid = c.selected
          /\ chip.cmd # "listPassiveTarget" => c.selected = chip.selected
          /\ chip.cmd = "authenticate" /\ c.response.kind = "success" => c.authed
          /\ chip.authed => c.authed
        BY AnswersChip
    <2>4. IrqLow(c) /\ ~IrqLow(chip)
        BY <2>2, <2>3 DEF IrqLow
    <2>5. chip' = c /\ (gpioStatus \/ pinIntr => gpioStatus')
        BY <2>1, <2>4, CleanMove
    <2>6. ASSUME ~booting, task # "connection"
          PROVE  AtStation'
        <3>1. CASE Parked
            BY <1>1, <2>3, <2>5, <3>1 DEF AtStation, Parked, Unacknowledging
        <3>2. CASE Announced
            BY <1>1, <2>3, <2>5, <3>2 DEF AtStation, Announced, Unacknowledging
        <3>3. CASE Awaited
            <4>1. CardKept'
                BY <1>1, <2>3, <2>5, <3>3
                DEF Awaited, CardKept, SelectedIsReported, CardCommands,
                    BlockCommands, ReadCommands
            <4>2. Awaited'
                BY <1>1, <1>2, <2>3, <2>5, <2>6, <3>3, <4>1 DEF Awaited, Latched
            <4> QED BY <4>2 DEF AtStation
        <3> QED BY <1>4, <2>2, <2>6, <3>1, <3>2, <3>3
    <2> QED BY <1>1, <2>2, <2>3, <2>5, <2>6
            DEF ExchangeInv, AnswerRight, BootClears, Unacknowledging
<1> QED BY <1>5, <1>6 DEF Chips

LEMMA EnvironmentExchange ==
    ASSUME ExchangeInv, Environment
    PROVE  ExchangeInv'
<1>1. UNCHANGED <<chip, gpioStatus, recvBuffer, i2c_error, faults, booting, task,
                  pc, taskError, isr, pn532IrqInt, pn532IrqState, pn532Timer,
                  enableInterruptTimer, console, readingBlock>>
    BY DEF Environment, CardEnters, CardLeaves, firmware, irqVars, timerVars,
       taskVars
<1> QED BY <1>1, SameExchange

-----------------------------------------------------------------------------
(* The theorems.                                                           *)

LEMMA DeafInvariant ==
    ASSUME NotOvertaking
    PROVE  Spec => []DeafInv
<1>1. Init => DeafInv
    BY DEF Init, ChipInit, BusInit, DriverInit, DeafInv, ControlInv, Senders,
       ExchangeInv, AnswerRight, BootClears, BlockCommands, ReadCommands
<1>2. TypeOK /\ DeafInv /\ [Next]_vars => DeafInv'
    <2> SUFFICES ASSUME TypeOK, ControlInv, ExchangeInv, [Next]_vars
                 PROVE  ControlInv' /\ ExchangeInv'
        BY DEF DeafInv
    <2>1. CASE Boot
        BY <2>1, BootControl, BootExchange
    <2>2. CASE LoopFires \/ EnableFires \/ Pn532TimerFires
        BY <2>2, TimerControl, TimerExchange
    <2>3. CASE CallbackSteps
        BY <2>3, CallbackControl, CallbackExchange
    <2>4. CASE Interrupt
        BY <2>4, InterruptControl, InterruptExchange
    <2>5. CASE Chips
        BY <2>5, OutsideControl, ChipsExchange
    <2>6. CASE Environment
        BY <2>6, OutsideControl, EnvironmentExchange
    <2>7. CASE UNCHANGED vars
        <3>1. ControlInv'
            BY <2>7 DEF vars, bus, envVars, irqVars, timerVars, taskVars,
               ControlInv
        <3>2. ExchangeInv'
            BY <2>7, SameExchange DEF vars, bus, irqVars, timerVars, taskVars
        <3> QED BY <3>1, <3>2
    <2> QED BY <2>1, <2>2, <2>3, <2>4, <2>5, <2>6, <2>7 DEF Next
<1> QED BY <1>1, <1>2, TypeCorrect, PTL DEF Spec

\* At the end of a handler that reads an answer, the answer has been taken.
LEMMA HandlerTakes ==
    ASSUME DeafInv, faults = 0, isr = "finish",
           pn532IrqInt \notin {"IRQ_IDLE", "IRQ_ACK_FRAME"}
    PROVE  Taken
<1>1. ~booting /\ task # "connection"
    BY DEF DeafInv, ControlInv
<1>2. AtStation
    BY <1>1 DEF DeafInv, ExchangeInv
<1> QED
    BY <1>2 DEF AtStation, Parked, Announced, Sending, Chained, Sent, Awaited,
       Done, Settled, Latched

\* As long as no I2C transaction has failed, the reader never falls deaf: at
\* rest with no listing scheduled, a listing is under way and its answer will
\* be taken up, or a command to the lights that schedules the next one.  For
\* all builds, every set of cards, any bound on faults, and a chip that does not
\* overtake an interrupt handler.
THEOREM ReaderNeverDeaf ==
    ASSUME NotOvertaking
    PROVE  Spec => []NeverDeaf
<1>1. TypeOK /\ DeafInv => NeverDeaf
    <2> SUFFICES ASSUME TypeOK, DeafInv, faults = 0, Quiet
                 PROVE  Listening \/ Lighting
        BY DEF NeverDeaf
    <2>1. ~booting /\ task = "none" /\ isr = "none" /\ ~gpioStatus
          /\ ~enableInterruptTimer
        BY DEF Quiet
    <2>2. AtStation
        BY <2>1 DEF DeafInv, ExchangeInv
    <2>3. Sent \/ Awaited
        BY <2>1, <2>2 DEF AtStation, Parked, Announced, Sending, Chained, Taken,
           Done
    <2>4. chip.cmd \in {"listPassiveTarget", "writeGpio"}
        BY <2>1, <2>3, CommandKnown DEF Sent, Awaited, CardKept, TypeOK, DataOK
    <2>5. CASE Sent
        BY <2>1, <2>4, <2>5 DEF Sent, Latched, Listening, Lighting, StateOf,
           ReadCommands
    <2>6. CASE Awaited
        BY <2>1, <2>4, <2>6 DEF Awaited, Latched, Listening, Lighting, HandlerOf,
           ReadCommands
    <2> QED BY <2>3, <2>5, <2>6
<1> QED BY <1>1, TypeCorrect, DeafInvariant, PTL

\* As long as no I2C transaction has failed, every handler finds the answer it
\* was written for: the UID handler a listing, the authentication handler the
\* result of an authentication, the block handler the block it is going to
\* print, and the others the answers to a written block and to the lights.
THEOREM AnswersMatch ==
    ASSUME NotOvertaking
    PROVE  Spec => []AnswerMatchesHandler
<1>1. TypeOK /\ DeafInv => AnswerMatchesHandler
    <2> SUFFICES ASSUME TypeOK, DeafInv, faults = 0, isr = "finish",
                        pn532IrqInt \notin {"IRQ_IDLE", "IRQ_ACK_FRAME"}
                 PROVE  AnswerMatchesHandler
        BY DEF AnswerMatchesHandler, Finishing
    <2>1. Taken
        BY HandlerTakes
    <2>2. /\ pn532IrqInt = HandlerOf(chip.cmd)
          /\ recvBuffer.kind \in AnswerKinds(chip.cmd)
          /\ chip.cmd \in ReadCommands => chip.cmd = ReadCommand(readingBlock)
        BY <2>1 DEF Taken, CardKept, CardCommands, BlockCommands
    <2>3. chip.cmd \in {"listPassiveTarget", "writeGpio"} \cup CardCommands
        BY <2>2, CommandKnown DEF TypeOK, DataOK
    <2> QED
        BY <2>2, <2>3 DEF AnswerMatchesHandler, Finishing, HandlerOf,
           AnswerKinds, CardCommands, BlockCommands, ReadCommands, Settings
<1> QED BY <1>1, TypeCorrect, DeafInvariant, PTL

\* As long as no I2C transaction has failed, a block is read or written only
\* under the authentication of the card whose UID was printed last: no card that
\* comes in between, no timer and no edge gets the block of another card read.
THEOREM BlocksOfItsCard ==
    ASSUME NotOvertaking
    PROVE  Spec => [](faults = 0 => BlocksOfReportedCard)
<1>1. DeafInv => (faults = 0 => BlocksOfReportedCard)
    <2> SUFFICES ASSUME DeafInv, faults = 0, chip.cmd \in BlockCommands,
                        chip.phase \in {"command", "ack", "busy"}
                 PROVE  chip.authed /\ SelectedIsReported
        BY DEF BlocksOfReportedCard, SelectedIsReported
    <2>1. ~booting /\ task # "connection"
        BY DEF DeafInv, ExchangeInv, BootClears
    <2>2. AtStation
        BY <2>1 DEF DeafInv, ExchangeInv
    <2>3. CASE Sent \/ Awaited
        BY <2>3 DEF Sent, Awaited, CardKept, CardCommands
    <2>4. CASE Sending
        BY <2>4 DEF Sending, Senders, BlockCommands, ReadCommands
    <2>5. CASE Chained
        BY <2>5 DEF Chained
    <2>6. ~Parked /\ ~Announced /\ ~Taken /\ ~Done
        BY DEF Parked, Announced, Taken, Done, Unacknowledging
    <2> QED BY <2>2, <2>3, <2>4, <2>5, <2>6 DEF AtStation
<1> QED BY <1>1, DeafInvariant, PTL

\* On a bus without faults each READY is followed by at most one report before
\* the next READY: no edge makes pn532ReadCardUid run twice for a listing.
THEOREM OneReport ==
    ASSUME NotOvertaking, MaxFaults = 0
    PROVE  Spec => OneReportPerReady
<1>1. TypeOK /\ DeafInv /\ [Next]_vars =>
            [UidRejected \/ UidAcceptedStep => console.line = "ready"]_vars
    <2> SUFFICES ASSUME TypeOK, DeafInv, UidRejected \/ UidAcceptedStep
                 PROVE  console.line = "ready"
        OBVIOUS
    <2>1. faults = 0
        BY DEF TypeOK, DataOK
    <2>2. isr = "finish" /\ pn532IrqInt = "IRQ_READ_UID"
        BY DEF UidRejected, UidAcceptedStep, Finishing
    <2>3. Taken
        BY <2>1, <2>2, HandlerTakes
    <2>4. chip.cmd = "listPassiveTarget"
        BY <2>2, <2>3 DEF Taken, HandlerOf
    <2> QED BY <2>3, <2>4 DEF Taken
<1> QED BY <1>1, TypeCorrect, DeafInvariant, PTL DEF Spec, OneReportPerReady
=============================================================================
