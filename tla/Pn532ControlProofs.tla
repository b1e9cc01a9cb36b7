------------------------ MODULE Pn532ControlProofs ------------------------
(***************************************************************************)
(* Where the two threads of control of the reader can stand, whatever the  *)
(* bus and the chip do, in all builds; and what the calls of the I2C       *)
(* driver do when nothing goes wrong.                                      *)
(***************************************************************************)
EXTENDS Pn532ReaderProofs

-----------------------------------------------------------------------------
(* Control.                                                                *)

\* What the chip's moves do to the latched status of the pin.
Latches ==
    /\ gpioStatus => gpioStatus'
    /\ gpioStatus' => gpioStatus \/ pinIntr

LEMMA ChipLatches ==
    ASSUME NEW c, ChipMoves(c)
    PROVE  Latches
BY DEF ChipMoves, Latches

LEMMA WriteLatches ==
    ASSUME NEW cmd, BusWrite(cmd)
    PROVE  Latches
<1>1. UNCHANGED gpioStatus \/ \E c : ChipMoves(c)
    BY DEF BusWrite
<1> QED BY <1>1, ChipLatches DEF Latches

LEMMA ReadLatches ==
    ASSUME NEW buffer, NEW full, BusRead(buffer, full)
    PROVE  Latches
<1>1. UNCHANGED gpioStatus \/ \E c : ChipMoves(c)
    BY DEF BusRead
<1> QED BY <1>1, ChipLatches DEF Latches

LEMMA BootReadLatches ==
    ASSUME NEW buffer, BootRead(buffer)
    PROVE  Latches
BY ReadLatches DEF BootRead, Latches

\* The boot sequence runs with the pin masked and ends in Park.
LEMMA BootControl ==
    ASSUME TypeOK, ControlInv, Boot
    PROVE  ControlInv'
<1> USE DEF ControlInv, Senders, BootAt, TaskAt, TaskTurn, BootStep, envVars
<1>1. CASE InitTimerFires
    <2>1. booting /\ osLoopTimer = "off"
        BY <1>1 DEF InitTimerFires, TypeOK, DataOK
    <2> QED BY <1>1, <2>1 DEF InitTimerFires, StartConnection, bus, irqVars
<1>2. CASE RetryTimerFires
    BY <1>2 DEF RetryTimerFires, StartConnection, bus, irqVars, envVars
<1>3. CASE \/ FirmwareWrite \/ RfWrite \/ SamWrite \/ ListWrite
    <2>1. Latches
        BY <1>3, WriteLatches
        DEF FirmwareWrite, RfWrite, SamWrite, ListWrite, BootWrites
    <2> QED
        BY <1>3, <2>1
        DEF FirmwareWrite, RfWrite, SamWrite, ListWrite, BootWrites, Latches,
            Goto, bootRest, irqVars, timerVars
<1>4. CASE \/ FirmwareAck \/ FirmwareRead \/ RfRead \/ SamAck \/ SamRead
           \/ ListAck
    <2>1. Latches
        BY <1>4, BootReadLatches
        DEF FirmwareAck, FirmwareRead, RfRead, SamAck, SamRead, ListAck,
            BootReads
    <2> QED
        BY <1>4, <2>1
        DEF FirmwareAck, FirmwareRead, RfRead, SamAck, SamRead, ListAck,
            BootReads, Latches, Goto, bootRest, irqVars, timerVars
<1>5. CASE FirmwareAckCheck \/ FirmwareDone
    BY <1>5 DEF FirmwareAckCheck, FirmwareDone, FirmwareFailed, Goto,
       TaskReturns, wire, irqVars
<1>6. CASE RfCheck \/ SamEnd \/ ListCheck
    BY <1>6 DEF RfCheck, SamEnd, ListCheck, Goto, bus, wire, bootRest,
       irqVars, timerVars
<1>7. CASE SetIrqPin
    <2>1. /\ booting' = FALSE /\ gpioStatus' = FALSE /\ pinIntr' = TRUE
          /\ isr' = isr /\ isr = "none" /\ pc' = "park"
          /\ task' = "connection" /\ task = "connection"
          /\ UNCHANGED <<build, pn532IrqInt, pn532IrqState, initTimer,
                         osLoopTimer, pn532Timer>>
        BY <1>7 DEF SetIrqPin, Goto, irqVars, timerVars
    <2>2. ~initTimer /\ osLoopTimer = "off"
        BY <2>1
    <2>3. pn532Timer = "off" /\ pn532IrqState = "STATUS_IDLE"
          /\ pn532IrqInt \in {"IRQ_IDLE", "IRQ_ACK_FRAME"}
        BY <2>1, Zenon
    <2> QED BY <2>1, <2>2, <2>3
<1>8. CASE Park
    BY <1>8 DEF Park, TaskReturns, bus, IrqInt
<1> QED BY <1>1, <1>2, <1>3, <1>4, <1>5, <1>6, <1>7, <1>8 DEF Boot

\* The expiry of a timer.
LEMMA TimerControl ==
    ASSUME TypeOK, ControlInv, LoopFires \/ EnableFires \/ Pn532TimerFires
    PROVE  ControlInv'
<1> USE DEF ControlInv, Senders, TaskTurn, envVars, PN532_CONNECTED_LEDS
<1>1. CASE LoopFires
    BY <1>1 DEF LoopFires, bus, irqVars, BootStep, CallbackStep
<1>2. CASE EnableFires
    BY <1>2 DEF EnableFires, wire, BootStep, CallbackStep
<1>3. CASE Pn532TimerFires
    BY <1>3 DEF Pn532TimerFires, bus, irqVars, Senders, BootStep, CallbackStep,
       TypeOK, DataOK
<1> QED BY <1>1, <1>2, <1>3

\* The steps of a callback.
LEMMA CallbackControl ==
    ASSUME TypeOK, ControlInv, CallbackSteps
    PROVE  ControlInv'
<1> USE DEF ControlInv, Senders, TaskAt, TaskTurn, CallbackStep, BootStep, envVars
<1>1. CASE LoopRearms
    BY <1>1 DEF LoopRearms, TaskReturns, bus, irqVars
<1>2. CASE \/ EnableWrite \/ AuthWrite \/ ReadBlockWrite \/ WriteBlockWrite
           \/ LedWrite
    <2>1. Latches
        BY <1>2, WriteLatches DEF EnableWrite, AuthWrite, ReadBlockWrite,
           WriteBlockWrite, LedWrite, SendWrite
    <2> QED
        BY <1>2, <2>1 DEF EnableWrite, AuthWrite, ReadBlockWrite,
           WriteBlockWrite, LedWrite, SendWrite, Latches, Goto, sendRest,
           irqVars, timerVars
<1>3. CASE SendEnds
    BY <1>3 DEF SendEnds, SendEndReads, SendEndClears, Goto, bus, wire,
       sendRest, irqVars, timerVars
<1>4. CASE EnableFinish
    BY <1>4 DEF EnableFinish, TaskReturns, bus, irqVars, timerVars
<1>5. CASE AuthFinish \/ ReadBlockFinish \/ WriteBlockFinish
    BY <1>5 DEF AuthFinish, ReadBlockFinish, WriteBlockFinish, SenderFinish,
       Senders, TaskReturns, bus, timerVars
<1>6. CASE LedSelect \/ LedFinish
    BY <1>6 DEF LedSelect, LedFinish, Goto, bus, wire, sendRest, irqVars,
       timerVars
<1> QED BY <1>1, <1>2, <1>3, <1>4, <1>5, <1>6 DEF CallbackSteps

\* The interrupt handler.
LEMMA InterruptControl ==
    ASSUME TypeOK, ControlInv, Interrupt
    PROVE  ControlInv'
<1> USE DEF ControlInv, Senders, Dispatched, Finishing, envVars
<1>1. CASE IsrEnter \/ IsrIgnores \/ IsrExit
    BY <1>1 DEF IsrEnter, IsrIgnores, IsrExit, bus, irqVars, timerVars,
       isrRest, taskVars
<1>2. CASE AckRead \/ AuthRead \/ DataRead \/ WrittenRead \/ GpioRead
    <2>1. Latches
        BY <1>2, ReadLatches
        DEF AckRead, AuthRead, DataRead, WrittenRead, GpioRead
    <2>2. /\ isr = "dispatch" /\ isr' = "finish"
          /\ UNCHANGED <<build, booting, pinIntr, enableInterruptTimer, task,
                         pc, pn532IrqInt, pn532IrqState, initTimer, osLoopTimer,
                         pn532Timer>>
        BY <1>2 DEF AckRead, AuthRead, DataRead, WrittenRead, GpioRead,
           irqVars, timerVars, isrRest, taskVars
    <2> QED BY <2>1, <2>2 DEF Latches
<1>3. CASE AckFinish
    <2>1. pn532IrqState = "STATUS_IDLE" => pn532IrqInt' = pn532IrqInt
        BY <1>3 DEF AckFinish, ResponseHandler
    <2>2. isr = "finish" /\ isr' = "exit"
        BY <1>3 DEF AckFinish
    <2>3. UNCHANGED <<build, booting, pinIntr, gpioStatus, enableInterruptTimer,
                      task, pc, pn532IrqState, initTimer, osLoopTimer, pn532Timer>>
        BY <1>3 DEF AckFinish, wire, timerVars, isrRest, taskVars
    <2> QED BY <2>1, <2>2, <2>3
<1>4. CASE UidRead
    <2>1. Latches
        BY <1>4, ReadLatches DEF UidRead
    <2> QED
        BY <1>4, <2>1 DEF UidRead, Latches, irqVars, timerVars, isrRest,
           taskVars
<1>5. CASE UidRejected
    BY <1>5 DEF UidRejected, bus, irqVars, timerVars, isrRest, taskVars
<1>6. CASE UidAcceptedStep
    BY <1>6 DEF UidAcceptedStep, wire, irqVars, taskVars, AuthenticationIsDue,
       PN532_READING_BLOCK, PN532_WRITING_DATA
<1>7. CASE AuthRefused \/ DataRefused
    <2>1. /\ isr = "finish" /\ isr' = "exit" /\ osLoopTimer' = "loop"
          /\ pn532IrqInt \notin {"IRQ_IDLE", "IRQ_ACK_FRAME"}
          /\ UNCHANGED <<build, booting, pinIntr, gpioStatus,
                         enableInterruptTimer, task, pc, initTimer, pn532Timer>>
        BY <1>7 DEF AuthRefused, DataRefused, wire, irqVars, taskVars
    <2>2. ~booting /\ task # "connection"
        BY <2>1
    <2> QED BY <2>1, <2>2
<1>8. CASE AuthAccepted
    BY <1>8 DEF AuthAccepted, AfterAuthentication, wire, irqVars, taskVars,
       PN532_READING_BLOCK, PN532_WRITING_DATA
<1>9. CASE DataAccepted
    BY <1>9 DEF DataAccepted, wire, irqVars, timerVars, isrRest, taskVars
<1>10. CASE IsrSend
    <2>1. Latches
        BY <1>10, WriteLatches DEF IsrSend
    <2> QED
        BY <1>10, <2>1 DEF IsrSend, Latches, irqVars, timerVars, isrRest,
           taskVars
<1>11. CASE IsrSendEnd \/ WrittenFinish \/ GpioFinish
    BY <1>11 DEF IsrSendEnd, WrittenFinish, GpioFinish, wire, irqVars,
       timerVars, isrRest, taskVars
<1> QED BY <1>1, <1>2, <1>3, <1>4, <1>5, <1>6, <1>7, <1>8, <1>9, <1>10, <1>11
        DEF Interrupt

LEMMA OutsideControl ==
    ASSUME TypeOK, ControlInv, Chips \/ Environment
    PROVE  ControlInv'
<1>1. Latches
    BY ChipLatches DEF Chips, ChipAcknowledges, ChipAnswers, Environment,
       CardEnters, CardLeaves, Latches
<1> QED
    BY <1>1 DEF Chips, ChipAcknowledges, ChipAnswers, Environment, CardEnters,
       CardLeaves, ControlInv, Senders, Latches, firmware, envVars, irqVars, timerVars,
       taskVars

\* The invariant of control, for all builds, any number of faults and a chip of
\* any speed.
LEMMA ControlInvariant == Spec => []ControlInv
<1>1. Init => ControlInv
    BY DEF Init, BusInit, DriverInit, ControlInv, Senders
<1>2. TypeOK /\ ControlInv /\ [Next]_vars => ControlInv'
    <2> SUFFICES ASSUME TypeOK, ControlInv, [Next]_vars PROVE ControlInv'
        OBVIOUS
    <2>1. CASE UNCHANGED vars
        BY <2>1 DEF vars, bus, envVars, irqVars, timerVars, taskVars, ControlInv
    <2> QED BY <2>1, BootControl, TimerControl, CallbackControl,
            InterruptControl, OutsideControl DEF Next
<1> QED BY <1>1, <1>2, TypeCorrect, PTL DEF Spec

\* No GPIO interrupt can be taken inside the handler of another, although
\* brzo_i2c_read lowers the interrupt level there: wherever the pin is unmasked,
\* no handler runs.
THEOREM HandlerAlone == Spec => []HandlerNotNested
<1>1. TypeOK /\ ControlInv => HandlerNotNested
    BY DEF ControlInv, HandlerNotNested, TypeOK, FlagsOK
<1> QED BY <1>1, TypeCorrect, ControlInvariant, PTL

-----------------------------------------------------------------------------
(* What is to be done next is always scheduled.                            *)

\* The boot sequence either goes on or hands over to osLoopTimer.
LEMMA BootScheduled ==
    ASSUME TypeOK, ControlInv, Boot
    PROVE  /\ BootGoesOn'
           /\ LoopGoesOn'
<1> USE DEF ControlInv, BootAt, TaskAt, TaskTurn, BootGoesOn, LoopGoesOn
<1>1. CASE InitTimerFires \/ RetryTimerFires
    BY <1>1 DEF InitTimerFires, RetryTimerFires, StartConnection
<1>2. CASE \/ FirmwareWrite \/ RfWrite \/ SamWrite \/ ListWrite
    BY <1>2 DEF FirmwareWrite, RfWrite, SamWrite, ListWrite, BootWrites, Goto
<1>3. CASE \/ FirmwareAck \/ FirmwareRead \/ RfRead \/ SamAck \/ SamRead
           \/ ListAck
    BY <1>3 DEF FirmwareAck, FirmwareRead, RfRead, SamAck, SamRead, ListAck,
       BootReads, Goto
<1>4. CASE FirmwareAckCheck \/ FirmwareDone
    BY <1>4 DEF FirmwareAckCheck, FirmwareDone, FirmwareFailed, Goto
<1>5. CASE RfCheck \/ SamEnd \/ ListCheck \/ SetIrqPin
    BY <1>5 DEF RfCheck, SamEnd, ListCheck, SetIrqPin, Goto
<1>6. CASE Park
    BY <1>6 DEF Park
<1> QED BY <1>1, <1>2, <1>3, <1>4, <1>5, <1>6 DEF Boot

\* A callback takes the timer of loop only to run it.
LEMMA TaskScheduled ==
    ASSUME TypeOK, ControlInv, LoopGoesOn,
           LoopFires \/ EnableFires \/ Pn532TimerFires \/ CallbackSteps
    PROVE  LoopGoesOn'
<1> USE DEF ControlInv, Senders, TaskAt, TaskTurn, LoopGoesOn, Finishing
<1>1. CASE LoopFires
    BY <1>1 DEF LoopFires
<1>2. CASE EnableFires
    BY <1>2 DEF EnableFires, TypeOK, DataOK
<1>3. CASE Pn532TimerFires
    BY <1>3 DEF Pn532TimerFires
<1>4. CASE LoopRearms
    BY <1>4 DEF LoopRearms
<1>5. CASE \/ EnableWrite \/ AuthWrite \/ ReadBlockWrite \/ WriteBlockWrite
           \/ LedWrite
    BY <1>5 DEF EnableWrite, AuthWrite, ReadBlockWrite, WriteBlockWrite,
       LedWrite, SendWrite, Goto, sendRest, timerVars, irqVars
<1>6. CASE SendEnds
    BY <1>6 DEF SendEnds, SendEndReads, SendEndClears, Goto, sendRest,
       timerVars, irqVars
<1>7. CASE EnableFinish \/ AuthFinish \/ ReadBlockFinish \/ WriteBlockFinish
    BY <1>7 DEF EnableFinish, AuthFinish, ReadBlockFinish, WriteBlockFinish,
       SenderFinish, TaskReturns, timerVars
<1>8. CASE LedSelect \/ LedFinish
    BY <1>8 DEF LedSelect, LedFinish, Goto, sendRest, timerVars, irqVars
<1> QED BY <1>1, <1>2, <1>3, <1>4, <1>5, <1>6, <1>7, <1>8 DEF CallbackSteps

\* The one handler that disarms the timer of loop arms it again, unless it
\* refuses the card.
LEMMA InterruptScheduled ==
    ASSUME TypeOK, ControlInv, LoopGoesOn, Interrupt, ~UidRejected
    PROVE  LoopGoesOn'
<1> USE DEF LoopGoesOn, Finishing, Dispatched, isrRest, taskVars
<1>1. CASE IsrEnter \/ IsrIgnores \/ IsrExit \/ IsrSend \/ IsrSendEnd
    BY <1>1 DEF IsrEnter, IsrIgnores, IsrExit, IsrSend, IsrSendEnd, timerVars
<1>2. CASE AckRead \/ AuthRead \/ DataRead \/ WrittenRead \/ GpioRead
    BY <1>2 DEF AckRead, AuthRead, DataRead, WrittenRead, GpioRead, timerVars
<1>3. CASE \/ AckFinish \/ AuthRefused \/ AuthAccepted \/ DataRefused
           \/ DataAccepted \/ WrittenFinish \/ GpioFinish
    BY <1>3 DEF AckFinish, AuthRefused, AuthAccepted, DataRefused,
       DataAccepted, WrittenFinish, GpioFinish, timerVars
<1>4. CASE UidRead
    BY <1>4 DEF UidRead, irqVars
<1>5. CASE UidAcceptedStep
    BY <1>5 DEF UidAcceptedStep
<1> QED BY <1>1, <1>2, <1>3, <1>4, <1>5 DEF Interrupt

\* Nothing but a refused UID stops the loop callback: the boot sequence hands
\* over to it and every other step keeps it going, for every set of cards, all
\* builds, any number of I2C faults and a chip of any speed.
THEOREM LoopScheduled == Spec => LoopKeepsGoing
<1> DEFINE Step == LoopGoesOn /\ ~UidRejected => LoopGoesOn'
<1>1. TypeOK /\ ControlInv /\ [Next]_vars => [Step]_vars
    <2> SUFFICES ASSUME TypeOK, ControlInv, Next, LoopGoesOn, ~UidRejected
                 PROVE  LoopGoesOn'
        OBVIOUS
    <2>1. CASE Chips \/ Environment
        BY <2>1 DEF Chips, ChipAcknowledges, ChipAnswers, Environment,
           CardEnters, CardLeaves, firmware, irqVars, timerVars, taskVars,
           LoopGoesOn, Finishing
    <2> QED BY <2>1, BootScheduled, TaskScheduled, InterruptScheduled DEF Next
<1> QED BY <1>1, TypeCorrect, ControlInvariant, PTL DEF Spec, LoopKeepsGoing

\* No other callback runs before the firmware has booted.
LEMMA CallbackBooting ==
    ASSUME ControlInv, CallbackSteps
    PROVE  ~booting /\ ~booting'
<1>1. task \in {"loop", "enable"} \cup Senders
    BY DEF CallbackSteps, LoopRearms, EnableWrite, AuthWrite, ReadBlockWrite,
       WriteBlockWrite, LedSelect, LedWrite, LedFinish, SendWrite, SendEnds,
       SendEndReads, SendEndClears, EnableFinish, AuthFinish, ReadBlockFinish,
       WriteBlockFinish, SenderFinish, TaskAt, Senders
<1>2. ~booting
    BY <1>1 DEF ControlInv, Senders
<1>3. UNCHANGED booting
    BY DEF CallbackSteps, LoopRearms, EnableWrite, AuthWrite, ReadBlockWrite,
       WriteBlockWrite, LedSelect, LedWrite, LedFinish, SendWrite, SendEnds,
       SendEndReads, SendEndClears, EnableFinish, AuthFinish, ReadBlockFinish,
       WriteBlockFinish, SenderFinish, sendRest
<1> QED BY <1>2, <1>3

\* Nor does a handler: the pin is masked.
LEMMA InterruptBooting ==
    ASSUME ControlInv, Interrupt
    PROVE  ~booting /\ ~booting'
<1>1. isr # "none" \/ pinIntr
    BY DEF Interrupt, IsrEnter, IsrIgnores, IsrExit, AckRead, AckFinish,
       UidRead, UidRejected, UidAcceptedStep, AuthRead, AuthRefused,
       AuthAccepted, DataRead, DataRefused, DataAccepted, IsrSend, IsrSendEnd,
       WrittenRead, WrittenFinish, GpioRead, GpioFinish, Dispatched, Finishing
<1>2. UNCHANGED booting
    BY DEF Interrupt, IsrEnter, IsrIgnores, IsrExit, AckRead, AckFinish,
       UidRead, UidRejected, UidAcceptedStep, AuthRead, AuthRefused,
       AuthAccepted, DataRead, DataRefused, DataAccepted, IsrSend, IsrSendEnd,
       WrittenRead, WrittenFinish, GpioRead, GpioFinish, isrRest
<1> QED BY <1>1, <1>2 DEF ControlInv

\* Until the firmware has booted the boot sequence runs or is due, whatever
\* fails: the part of BootCompletes that needs no fairness.
THEOREM BootScheduledAgain == Spec => []BootGoesOn
<1>1. Init => BootGoesOn
    BY DEF Init, DriverInit, BootGoesOn
<1>2. TypeOK /\ ControlInv /\ BootGoesOn /\ [Next]_vars => BootGoesOn'
    <2> SUFFICES ASSUME TypeOK, ControlInv, BootGoesOn, [Next]_vars,
                        booting', ~Boot
                 PROVE  BootGoesOn'
        BY BootScheduled DEF BootGoesOn
    <2>1. booting
        <3>1. CASE LoopFires \/ EnableFires \/ Pn532TimerFires
            BY <3>1 DEF LoopFires, EnableFires, Pn532TimerFires
        <3>2. CASE CallbackSteps
            BY <3>2, CallbackBooting
        <3>3. CASE Interrupt
            BY <3>3, InterruptBooting
        <3>4. CASE Chips \/ Environment \/ UNCHANGED vars
            BY <3>4 DEF Chips, ChipAcknowledges, ChipAnswers, Environment,
               CardEnters, CardLeaves, firmware, vars
        <3> QED BY <3>1, <3>2, <3>3, <3>4 DEF Next
    <2>2. ~(LoopFires \/ EnableFires \/ Pn532TimerFires)
        BY <2>1 DEF ControlInv, LoopFires, EnableFires, Pn532TimerFires
    <2>3. ~CallbackSteps
        BY <2>1, CallbackBooting
    <2>4. ~Interrupt
        BY <2>1, InterruptBooting
    <2>5. Chips \/ Environment \/ UNCHANGED vars
        BY <2>2, <2>3, <2>4 DEF Next
    <2> QED
        BY <2>5 DEF Chips, ChipAcknowledges, ChipAnswers, Environment,
           CardEnters, CardLeaves, firmware, vars, timerVars, taskVars,
           BootGoesOn
<1> QED BY <1>1, <1>2, TypeCorrect, ControlInvariant, PTL DEF Spec

-----------------------------------------------------------------------------
(* Callbacks end.                                                          *)

\* How far the loops of the callbacks have counted.
TriesInv ==
    /\ task = "none" => tries = 0
    /\ task \in {"loop", "enable"} \cup Senders => tries \in 0..2
    /\ task = "connection" /\ pc \notin {"rfRead", "rfCheck"} => tries \in 0..3
    /\ pc = "rfWrite" => tries = 0

\* A step of the boot sequence brings its end nearer: an attempt that has
\* failed is counted, and so is an ACK that is read again.
LEMMA BootShortens ==
    ASSUME TypeOK, ControlInv, TriesInv, Boot
    PROVE  /\ TriesInv'
           /\ task # "none" => StepsLeft' \in 0..(StepsLeft - 1)
<1> USE DEF TriesInv, Senders, BootAt, TaskAt, StepsLeft, StepsFrom, RoundsLeft
<1>1. CASE InitTimerFires \/ RetryTimerFires
    BY <1>1 DEF InitTimerFires, RetryTimerFires, StartConnection
<1>2. CASE \/ FirmwareWrite \/ RfWrite \/ SamWrite \/ ListWrite
    BY <1>2 DEF FirmwareWrite, RfWrite, SamWrite, ListWrite, BootWrites, Goto
<1>3. CASE \/ FirmwareAck \/ FirmwareRead \/ RfRead \/ SamAck \/ SamRead
           \/ ListAck
    BY <1>3 DEF FirmwareAck, FirmwareRead, RfRead, SamAck, SamRead, ListAck,
       BootReads, Goto, TypeOK, DataOK
<1>4. CASE FirmwareAckCheck \/ FirmwareDone
    BY <1>4 DEF FirmwareAckCheck, FirmwareDone, FirmwareFailed, Goto,
       TaskReturns
<1>5. CASE RfCheck
    BY <1>5 DEF RfCheck, TypeOK, DataOK
<1>6. CASE SamEnd \/ ListCheck \/ SetIrqPin
    BY <1>6 DEF SamEnd, ListCheck, SetIrqPin, Goto
<1>7. CASE Park
    BY <1>7 DEF Park, TaskReturns
<1> QED BY <1>1, <1>2, <1>3, <1>4, <1>5, <1>6, <1>7 DEF Boot

\* So does a step of any other callback.
LEMMA CallbackShortens ==
    ASSUME TypeOK, ControlInv, TriesInv, CallbackSteps
    PROVE  /\ TriesInv'
           /\ StepsLeft' \in 0..(StepsLeft - 1)
<1> USE DEF TriesInv, Senders, TaskAt, StepsLeft, StepsFrom, RoundsLeft
<1>1. CASE LoopRearms
    BY <1>1 DEF LoopRearms, TaskReturns
<1>2. CASE \/ EnableWrite \/ AuthWrite \/ ReadBlockWrite \/ WriteBlockWrite
           \/ LedWrite
    BY <1>2 DEF EnableWrite, AuthWrite, ReadBlockWrite, WriteBlockWrite,
       LedWrite, SendWrite, Goto
<1>3. CASE SendEnds
    BY <1>3 DEF SendEnds, SendEndReads, SendEndClears, Goto
<1>4. CASE EnableFinish \/ AuthFinish \/ ReadBlockFinish \/ WriteBlockFinish
    BY <1>4 DEF EnableFinish, AuthFinish, ReadBlockFinish, WriteBlockFinish,
       SenderFinish, TaskReturns
<1>5. CASE LedSelect
    BY <1>5 DEF LedSelect, Goto
<1>6. CASE LedFinish
    BY <1>6 DEF LedFinish
<1> QED BY <1>1, <1>2, <1>3, <1>4, <1>5, <1>6 DEF CallbackSteps

\* A callback that begins starts to count at zero.
LEMMA TimerTries ==
    ASSUME TriesInv, LoopFires \/ EnableFires \/ Pn532TimerFires
    PROVE  TriesInv' /\ task = "none"
BY DEF TriesInv, LoopFires, EnableFires, Pn532TimerFires

\* Nothing else touches a callback that has begun.
LEMMA TaskUntouched ==
    ASSUME Interrupt \/ Chips \/ Environment \/ UNCHANGED vars
    PROVE  UNCHANGED taskVars
<1>1. CASE Interrupt
    BY <1>1 DEF Interrupt, IsrEnter, IsrIgnores, IsrExit, AckRead, AckFinish,
       UidRead, UidRejected, UidAcceptedStep, AuthRead, AuthRefused,
       AuthAccepted, DataRead, DataRefused, DataAccepted, IsrSend, IsrSendEnd,
       WrittenRead, WrittenFinish, GpioRead, GpioFinish, isrRest
<1>2. CASE Chips \/ Environment \/ UNCHANGED vars
    BY <1>2 DEF Chips, ChipAcknowledges, ChipAnswers, Environment, CardEnters,
       CardLeaves, firmware, vars
<1> QED BY <1>1, <1>2

LEMMA TriesInvariant == Spec => []TriesInv
<1>1. Init => TriesInv
    BY DEF Init, DriverInit, TriesInv, Senders
<1>2. TypeOK /\ ControlInv /\ TriesInv /\ [Next]_vars => TriesInv'
    BY BootShortens, CallbackShortens, TimerTries, TaskUntouched
    DEF Next, TriesInv, taskVars
<1> QED BY <1>1, <1>2, TypeCorrect, ControlInvariant, PTL DEF Spec

\* Every callback ends within a bounded number of steps, in all builds and
\* whatever the bus, the chip and the cards do: the part of BootCompletes and
\* Heartbeat that needs no fairness but the processor's.
THEOREM CallbacksReturn == Spec => CallbacksEnd
<1> DEFINE Step == task # "none" =>
                    IF Boot \/ CallbackSteps THEN StepsLeft' \in 0..(StepsLeft - 1)
                                            ELSE StepsLeft' = StepsLeft
<1>1. TypeOK /\ ControlInv /\ TriesInv /\ [Next]_vars => [Step]_vars
    <2> SUFFICES ASSUME TypeOK, ControlInv, TriesInv, Next, task # "none"
                 PROVE  Step
        OBVIOUS
    <2>1. CASE Boot \/ CallbackSteps
        BY <2>1, BootShortens, CallbackShortens
    <2>2. CASE ~(Boot \/ CallbackSteps)
        <3>1. UNCHANGED taskVars
            BY <2>2, TimerTries, TaskUntouched DEF Next
        <3> QED BY <2>2, <3>1 DEF taskVars, StepsLeft, StepsFrom, RoundsLeft
    <2> QED BY <2>1, <2>2
<1> QED BY <1>1, TypeCorrect, ControlInvariant, TriesInvariant, PTL
        DEF Spec, CallbacksEnd

-----------------------------------------------------------------------------
(* The calls of the I2C driver when nothing goes wrong.                    *)

LEMMA CleanMove ==
    ASSUME TypeOK, NEW c, ChipMoves(c)
    PROVE  /\ chip' = c
           /\ gpioStatus' = (gpioStatus \/ (pinIntr /\ IrqLow(c) # IrqLow(chip)))
BY DEF ChipMoves

LEMMA CleanStep ==
    ASSUME TypeOK, faults' = 0
    PROVE  ~Fault
BY MaxFaultsAssumption DEF Fault, TypeOK, DataOK

LEMMA CleanWrite ==
    ASSUME TypeOK, ~i2c_error, NEW cmd, BusWrite(cmd), faults' = 0
    PROVE  /\ faults = 0 /\ ~i2c_error'
           /\ ChipMoves(Receives(chip, cmd))
<1>1. ~Fault
    BY CleanStep
<1> QED BY <1>1 DEF BusWrite

LEMMA CleanRead ==
    ASSUME TypeOK, ~i2c_error, NEW buffer, NEW full, BusRead(buffer, full),
           faults' = 0
    PROVE  /\ faults = 0 /\ ~i2c_error'
           /\ ChipMoves(AfterRead(chip))
           /\ recvBuffer' = ReadInto(buffer, FrameOf(chip), full)
<1>1. ~Fault
    BY CleanStep
<1> QED BY <1>1 DEF BusRead

LEMMA CleanBootRead ==
    ASSUME TypeOK, ~i2c_error, NEW buffer, BootRead(buffer), faults' = 0
    PROVE  /\ faults = 0 /\ ~i2c_error'
           /\ chip.phase \notin {"command", "busy"}
           /\ ChipMoves(AfterRead(chip))
<1>1. ~Fault
    BY CleanStep
<1>2. BusRead(buffer, TRUE) /\ chip.phase \notin {"command", "busy"}
    BY <1>1 DEF BootRead
<1> QED BY <1>2, CleanRead

\* What the driver's calls make of the chip.
LEMMA ReceivesChip ==
    ASSUME TypeOK, NEW cmd
    PROVE  /\ Receives(chip, cmd).phase = "command"
           /\ Receives(chip, cmd).cmd = cmd
           /\ cmd # "listPassiveTarget" =>
                Receives(chip, cmd).selected = chip.selected
           /\ cmd \in BlockCommands =>
                Receives(chip, cmd).authed = chip.authed
BY DEF Receives, TypeOK, DataOK, Chip

LEMMA AfterReadChip ==
    ASSUME TypeOK
    PROVE  /\ AfterRead(chip).cmd = chip.cmd
           /\ AfterRead(chip).selected = chip.selected
           /\ AfterRead(chip).authed = chip.authed
           /\ chip.phase = "ack" => AfterRead(chip).phase = "busy"
           /\ chip.phase = "response" => AfterRead(chip).phase = "idle"
           /\ chip.phase \notin {"ack", "response"} => AfterRead(chip) = chip
           /\ AfterRead(chip).phase # "response"
BY DEF AfterRead, TypeOK, DataOK, Chip

=============================================================================
