------------------------- MODULE Pn532PromiseProofs -------------------------
(***************************************************************************)
(* Two theorems about the reports of Pn532Reader: a report is never the    *)
(* last one, and the reports are those of the abstract CardReader.         *)
(***************************************************************************)
EXTENDS Pn532DeafProofs

-----------------------------------------------------------------------------
(* A report is never the last one.                                         *)

\* A step of the task leaves the console and, unless it is the one that prints
\* READY, the timer alone.
LEMMA TaskReport ==
    ASSUME ReportInv, isr' = "none", UNCHANGED console,
           enableInterruptTimer => enableInterruptTimer'
    PROVE  ReportInv'
BY DEF ReportInv, ReportedThenReady, Finishing

LEMMA BootReport ==
    ASSUME TypeOK, ReportInv, Boot
    PROVE  ReportInv'
<1>1. /\ isr' = "none" /\ UNCHANGED console
      /\ enableInterruptTimer => enableInterruptTimer'
    BY DEF Boot, InitTimerFires, RetryTimerFires, FirmwareWrite, FirmwareAck,
       FirmwareAckCheck, FirmwareRead, FirmwareDone, RfWrite, RfRead, RfCheck,
       SamWrite, SamAck, SamRead, SamEnd, ListWrite, ListAck, ListCheck,
       SetIrqPin, Park, BootWrites, BootReads, BootAt, TaskAt, TaskTurn,
       bootRest, timerVars
<1> QED BY <1>1, TaskReport

LEMMA CallbackReport ==
    ASSUME TypeOK, ReportInv, CallbackSteps
    PROVE  ReportInv'
<1>1. /\ isr' = "none" /\ UNCHANGED console
      /\ enableInterruptTimer => enableInterruptTimer'
    BY DEF CallbackSteps, LoopRearms, EnableWrite, AuthWrite, ReadBlockWrite,
       WriteBlockWrite, LedSelect, LedWrite, LedFinish, SendEnds, SendEndReads,
       SendEndClears, EnableFinish, AuthFinish, ReadBlockFinish,
       WriteBlockFinish, SenderFinish, SendWrite, TaskAt, TaskTurn, sendRest,
       timerVars
<1> QED BY <1>1, TaskReport

\* READY is the one report that may be the last.
LEMMA TimerReport ==
    ASSUME TypeOK, ReportInv, LoopFires \/ EnableFires \/ Pn532TimerFires
    PROVE  ReportInv'
<1>1. CASE LoopFires \/ Pn532TimerFires
    <2>1. isr' = "none" /\ UNCHANGED <<console, enableInterruptTimer>>
        BY <1>1 DEF LoopFires, Pn532TimerFires, TaskTurn
    <2> QED BY <2>1, TaskReport
<1>2. CASE EnableFires
    <2>1. isr' = "none" /\ console'.line = "ready"
        BY <1>2 DEF EnableFires, TaskTurn, TypeOK, DataOK
    <2> QED BY <2>1 DEF ReportInv, ReportedThenReady, Finishing
<1> QED BY <1>1, <1>2

\* No handler disarms the timer but pn532ReadCardUid, which arms it again.
LEMMA InterruptReport ==
    ASSUME TypeOK, ReportInv, Interrupt
    PROVE  ReportInv'
<1> USE DEF ReportInv, ReportedThenReady, Finishing, Dispatched
<1>1. CASE IsrEnter \/ IsrIgnores \/ IsrExit \/ IsrSend \/ IsrSendEnd
    BY <1>1 DEF IsrEnter, IsrIgnores, IsrExit, IsrSend, IsrSendEnd, irqVars,
       timerVars
<1>2. CASE AckRead \/ AuthRead \/ DataRead \/ WrittenRead \/ GpioRead
    BY <1>2 DEF AckRead, AuthRead, DataRead, WrittenRead, GpioRead, irqVars,
       timerVars
<1>3. CASE \/ AckFinish \/ AuthRefused \/ AuthAccepted \/ DataRefused
           \/ DataAccepted \/ WrittenFinish \/ GpioFinish
    BY <1>3 DEF AckFinish, AuthRefused, AuthAccepted, DataRefused,
       DataAccepted, WrittenFinish, GpioFinish, timerVars
<1>4. CASE UidRead
    BY <1>4 DEF UidRead
<1>5. CASE UidRejected \/ UidAcceptedStep
    BY <1>5 DEF UidRejected, UidAcceptedStep, timerVars
<1> QED BY <1>1, <1>2, <1>3, <1>4, <1>5 DEF Interrupt

\* A report, good or bad, is never the last one: the timer for the next listing
\* is armed until READY is printed.  For every set of cards, all builds, any
\* number of I2C faults at any place, and a chip of any speed.
THEOREM NoLastReport == Spec => []ReportedThenReady
<1>1. Init => ReportInv
    BY DEF Init, DriverInit, ReportInv, ReportedThenReady, Finishing
<1>2. TypeOK /\ ReportInv /\ [Next]_vars => ReportInv'
    <2> SUFFICES ASSUME TypeOK, ReportInv, [Next]_vars PROVE ReportInv'
        OBVIOUS
    <2>1. CASE Boot
        BY <2>1, BootReport
    <2>2. CASE LoopFires \/ EnableFires \/ Pn532TimerFires
        BY <2>2, TimerReport
    <2>3. CASE CallbackSteps
        BY <2>3, CallbackReport
    <2>4. CASE Interrupt
        BY <2>4, InterruptReport
    <2>5. CASE Chips \/ Environment
        BY <2>5 DEF Chips, ChipAcknowledges, ChipAnswers, Environment,
           CardEnters, CardLeaves, firmware, irqVars, timerVars, ReportInv,
           ReportedThenReady, Finishing
    <2>6. CASE UNCHANGED vars
        BY <2>6 DEF vars, irqVars, timerVars, ReportInv, ReportedThenReady,
           Finishing
    <2> QED BY <2>1, <2>2, <2>3, <2>4, <2>5, <2>6 DEF Next
<1>3. ReportInv => ReportedThenReady
    BY DEF ReportInv
<1> QED BY <1>1, <1>2, <1>3, TypeCorrect, PTL DEF Spec

-----------------------------------------------------------------------------
(* The reports are those of the abstract reader.                           *)

\* The driver does not make up a response for the chip.
NoResponseMade == chip'.response \in {chip.response, Plain("zero")}

LEMMA WriteMakesNone ==
    ASSUME TypeOK, NEW cmd, BusWrite(cmd)
    PROVE  NoResponseMade
<1>1. Receives(chip, cmd).response = Plain("zero")
    BY DEF Receives, TypeOK, DataOK, Chip
<1>2. chip' \in {chip, Receives(chip, cmd)}
    BY DEF BusWrite, ChipMoves
<1> QED BY <1>1, <1>2 DEF NoResponseMade

LEMMA ReadMakesNone ==
    ASSUME TypeOK, NEW buffer, NEW full, BusRead(buffer, full)
    PROVE  NoResponseMade
<1>1. AfterRead(chip).response \in {chip.response, Plain("zero")}
    BY DEF AfterRead, TypeOK, DataOK, Chip
<1>2. chip' \in {chip, AfterRead(chip)}
    BY DEF BusRead, ChipMoves
<1> QED BY <1>1, <1>2 DEF NoResponseMade

LEMMA BootReadMakesNone ==
    ASSUME TypeOK, NEW buffer, BootRead(buffer)
    PROVE  NoResponseMade
BY ReadMakesNone DEF BootRead, NoResponseMade

\* A step that does not end with the UID handler at its check preserves the
\* invariant.
LEMMA NotCheckingTarget ==
    ASSUME TargetInv, NoResponseMade,
           ~(isr' = "finish" /\ pn532IrqInt' = "IRQ_READ_UID")
    PROVE  TargetInv'
BY DEF TargetInv, NoResponseMade, Finishing, Plain

\* The same for the steps of the task, during which no handler runs.
LEMMA TaskTarget ==
    ASSUME TypeOK, TargetInv,
           \/ Boot \/ LoopFires \/ EnableFires \/ Pn532TimerFires
           \/ CallbackSteps
    PROVE  TargetInv'
<1>1. isr' = "none"
    BY DEF Boot, InitTimerFires, RetryTimerFires, FirmwareWrite, FirmwareAck,
       FirmwareAckCheck, FirmwareRead, FirmwareDone, RfWrite, RfRead, RfCheck,
       SamWrite, SamAck, SamRead, SamEnd, ListWrite, ListAck, ListCheck,
       SetIrqPin, Park, BootWrites, BootReads, BootAt, TaskAt, TaskTurn,
       bootRest, LoopFires, EnableFires, Pn532TimerFires,
       CallbackSteps, LoopRearms, EnableWrite, AuthWrite, ReadBlockWrite,
       WriteBlockWrite, LedSelect, LedWrite, LedFinish, SendEnds, SendEndReads,
       SendEndClears, EnableFinish, AuthFinish, ReadBlockFinish,
       WriteBlockFinish, SenderFinish, SendWrite, sendRest
<1>2. CASE \/ FirmwareWrite \/ RfWrite \/ SamWrite \/ ListWrite
           \/ EnableWrite \/ AuthWrite \/ ReadBlockWrite \/ WriteBlockWrite
           \/ LedWrite
    <2>1. \E cmd : BusWrite(cmd)
        BY <1>2 DEF FirmwareWrite, RfWrite, SamWrite, ListWrite, BootWrites,
           EnableWrite, AuthWrite, ReadBlockWrite, WriteBlockWrite, LedWrite,
           SendWrite
    <2> QED BY <1>1, <2>1, WriteMakesNone, NotCheckingTarget
<1>3. CASE \/ FirmwareAck \/ FirmwareRead \/ RfRead \/ SamAck \/ SamRead
           \/ ListAck
    <2>1. \E buffer : BootRead(buffer)
        BY <1>3 DEF FirmwareAck, FirmwareRead, RfRead, SamAck, SamRead,
           ListAck, BootReads
    <2> QED BY <1>1, <2>1, BootReadMakesNone, NotCheckingTarget
<1>4. CASE \/ InitTimerFires \/ RetryTimerFires \/ FirmwareAckCheck
           \/ FirmwareDone \/ RfCheck \/ SamEnd \/ ListCheck \/ SetIrqPin
           \/ Park \/ LoopFires \/ EnableFires \/ Pn532TimerFires
           \/ LoopRearms \/ SendEnds \/ EnableFinish \/ AuthFinish
           \/ ReadBlockFinish \/ WriteBlockFinish \/ LedSelect \/ LedFinish
    <2>1. UNCHANGED chip
        BY <1>4 DEF InitTimerFires, RetryTimerFires, FirmwareAckCheck,
           FirmwareDone, RfCheck, SamEnd, ListCheck, SetIrqPin, Park,
           LoopFires, EnableFires, Pn532TimerFires, LoopRearms, SendEnds,
           SendEndReads, SendEndClears, EnableFinish, AuthFinish,
           ReadBlockFinish, WriteBlockFinish, SenderFinish, LedSelect,
           LedFinish, bus, wire
    <2> QED BY <1>1, <2>1, NotCheckingTarget DEF NoResponseMade
<1> QED BY <1>2, <1>3, <1>4 DEF Boot, CallbackSteps

\* What pn532ReadCardUid reads is the chip's response as it is.
LEMMA InterruptTarget ==
    ASSUME TypeOK, ExchangeInv, TargetInv, Interrupt
    PROVE  TargetInv'
<1> USE DEF Dispatched, Finishing
<1>1. CASE AckRead \/ AuthRead \/ DataRead \/ WrittenRead \/ GpioRead
    <2>1. \E buffer, full : BusRead(buffer, full)
        BY <1>1 DEF AckRead, AuthRead, DataRead, WrittenRead, GpioRead
    <2>2. pn532IrqInt' # "IRQ_READ_UID"
        BY <1>1 DEF AckRead, AuthRead, DataRead, WrittenRead, GpioRead, irqVars
    <2> QED BY <2>1, <2>2, ReadMakesNone, NotCheckingTarget
<1>2. CASE UidRead
    <2>1. BusRead(Flushed(recvBuffer), TRUE)
        BY <1>2 DEF UidRead
    <2>2. NoResponseMade
        BY <2>1, ReadMakesNone
    <2>3. ASSUME faults' = 0, recvBuffer'.kind = "target"
          PROVE  recvBuffer'.uid \in Card
        <3>1. faults = 0
            BY <2>1, <2>3, CleanStep DEF BusRead
        <3>2. recvBuffer' = FrameOf(chip)
            BY <2>1, <2>3, <3>1, CleanRead DEF ExchangeInv, ReadInto
        <3>3. FrameOf(chip) = chip.response
            BY <2>3, <3>2 DEF FrameOf, Plain
        <3> QED BY <2>3, <3>2, <3>3 DEF TargetInv
    <2> QED BY <2>2, <2>3 DEF TargetInv, NoResponseMade, Plain
<1>3. CASE IsrSend
    <2>1. NoResponseMade /\ isr' = "sendEnd"
        BY <1>3, WriteMakesNone DEF IsrSend
    <2> QED BY <2>1, NotCheckingTarget
<1>4. CASE \/ IsrEnter \/ IsrIgnores \/ IsrExit \/ AckFinish
           \/ UidRejected \/ UidAcceptedStep \/ AuthRefused \/ AuthAccepted
           \/ DataRefused \/ DataAccepted \/ IsrSendEnd \/ WrittenFinish
           \/ GpioFinish
    <2>1. UNCHANGED chip /\ isr' # "finish"
        BY <1>4 DEF IsrEnter, IsrIgnores, IsrExit, AckFinish, UidRejected,
           UidAcceptedStep, AuthRefused, AuthAccepted, DataRefused,
           DataAccepted, IsrSendEnd, WrittenFinish, GpioFinish, bus, wire
    <2> QED BY <2>1, NotCheckingTarget DEF NoResponseMade
<1> QED BY <1>1, <1>2, <1>3, <1>4 DEF Interrupt

\* The chip's answer to a listing names the card in the field.
LEMMA ChipsTarget ==
    ASSUME TypeOK, TargetInv, Chips
    PROVE  TargetInv'
<1>1. UNCHANGED <<isr, pn532IrqInt, recvBuffer, faults>>
    BY DEF Chips, ChipAcknowledges, ChipAnswers, firmware, irqVars
<1>2. CASE ChipAcknowledges
    <2>1. chip'.response = chip.response
        BY <1>2 DEF ChipAcknowledges, ChipMoves, Acknowledged, TypeOK, DataOK,
           Chip
    <2> QED BY <1>1, <2>1 DEF TargetInv, Finishing
<1>3. CASE ChipAnswers
    <2>1. chip' \in Answers(chip, field)
        BY <1>3 DEF ChipAnswers, ChipMoves
    <2>2. \A c \in Answers(chip, field) :
            \/ c.response = [kind |-> "target", uid |-> field]
               /\ field # NoCard
            \/ \E kind \in {"firmware", "done", "success", "failure"} :
                    c.response = Plain(kind)
            \/ c.response \in Outcomes(chip.cmd)
        BY DEF Answers, Answered, TypeOK, DataOK, Chip
    <2>3. chip'.response.kind = "target" => chip'.response.uid \in Card
        BY <2>1, <2>2 DEF Plain, Outcomes, TypeOK, DataOK
    <2> QED BY <1>1, <2>3 DEF TargetInv, Finishing
<1> QED BY <1>2, <1>3 DEF Chips

LEMMA TargetInvariant ==
    ASSUME NotOvertaking
    PROVE  Spec => []TargetInv
<1>1. Init => TargetInv
    BY DEF Init, ChipInit, DriverInit, TargetInv, Finishing, Plain
<1>2. TypeOK /\ DeafInv /\ TargetInv /\ [Next]_vars => TargetInv'
    <2> SUFFICES ASSUME TypeOK, DeafInv, TargetInv, [Next]_vars
                 PROVE  TargetInv'
        OBVIOUS
    <2>1. CASE Interrupt
        BY <2>1, InterruptTarget DEF DeafInv
    <2>2. CASE Chips
        BY <2>2, ChipsTarget
    <2>3. CASE Environment
        BY <2>3 DEF Environment, CardEnters, CardLeaves, firmware, irqVars,
           TargetInv, Finishing
    <2>4. CASE UNCHANGED vars
        BY <2>4 DEF vars, bus, irqVars, TargetInv, Finishing
    <2> QED BY <2>1, <2>2, <2>3, <2>4, TaskTarget DEF Next
<1> QED BY <1>1, <1>2, TypeCorrect, DeafInvariant, PTL DEF Spec

\* A step that neither reports, nor says READY, nor moves a card.
LEMMA SilentSteps ==
    ASSUME TypeOK,
           \/ Boot \/ LoopFires \/ Pn532TimerFires \/ CallbackSteps \/ Chips
           \/ Interrupt /\ ~UidRejected /\ ~UidAcceptedStep
    PROVE  UNCHANGED Promise!view
<1> USE DEF Promise!view
<1>1. CASE Boot
    BY <1>1 DEF Boot, InitTimerFires, RetryTimerFires, FirmwareWrite,
       FirmwareAck, FirmwareAckCheck, FirmwareRead, FirmwareDone, RfWrite,
       RfRead, RfCheck, SamWrite, SamAck, SamRead, SamEnd, ListWrite, ListAck,
       ListCheck, SetIrqPin, Park, BootWrites, BootReads, BootAt, TaskAt,
       TaskTurn, bootRest, envVars
<1>2. CASE LoopFires \/ Pn532TimerFires
    BY <1>2 DEF LoopFires, Pn532TimerFires, TaskTurn, envVars
<1>3. CASE CallbackSteps
    BY <1>3 DEF CallbackSteps, LoopRearms, EnableWrite, AuthWrite,
       ReadBlockWrite, WriteBlockWrite, LedSelect, LedWrite, LedFinish,
       SendEnds, SendEndReads, SendEndClears, EnableFinish, AuthFinish,
       ReadBlockFinish, WriteBlockFinish, SenderFinish, SendWrite, TaskAt,
       sendRest, envVars
<1>4. CASE Chips
    BY <1>4 DEF Chips, ChipAcknowledges, ChipAnswers, firmware, envVars
<1>5. CASE Interrupt /\ ~UidRejected /\ ~UidAcceptedStep
    <2>1. \/ IsrEnter \/ IsrIgnores \/ IsrExit \/ AckRead \/ AckFinish
          \/ UidRead \/ AuthRead \/ AuthRefused \/ AuthAccepted
          \/ DataRead \/ DataRefused \/ DataAccepted \/ IsrSend \/ IsrSendEnd
          \/ WrittenRead \/ WrittenFinish \/ GpioRead \/ GpioFinish
        BY <1>5 DEF Interrupt
    <2> QED BY <2>1 DEF IsrEnter, IsrIgnores, IsrExit, AckRead, AckFinish,
        UidRead, AuthRead, AuthRefused, AuthAccepted, DataRead, DataRefused,
        DataAccepted, IsrSend, IsrSendEnd, WrittenRead, WrittenFinish,
        GpioRead, GpioFinish, Dispatched, Finishing, isrRest, envVars
<1> QED BY <1>1, <1>2, <1>3, <1>4, <1>5

\* What the UID handler looks at is the answer to the listing after READY.
LEMMA TargetTaken ==
    ASSUME DeafInv, faults = 0, Finishing("IRQ_READ_UID")
    PROVE  recvBuffer.kind = "target" /\ console.line = "ready"
<1>1. Taken
    BY HandlerTakes DEF Finishing
<1>2. chip.cmd = "listPassiveTarget"
    BY <1>1 DEF Taken, Finishing, HandlerOf
<1> QED BY <1>1, <1>2 DEF Taken, AnswerKinds, Settings, CardCommands,
        BlockCommands, ReadCommands

\* The UID handler reports a card that was there, or refuses one.
LEMMA ReportSteps ==
    ASSUME TypeOK, DeafInv, FreshInv, TargetInv, faults = 0,
           UidRejected \/ UidAcceptedStep
    PROVE  Promise!Next
<1>1. Finishing("IRQ_READ_UID")
    BY DEF UidRejected, UidAcceptedStep
<1>2. recvBuffer.kind = "target" /\ console.line = "ready"
    BY <1>1, TargetTaken
<1>3. recvBuffer.uid \in Card \cap seen
    BY <1>1, <1>2, CardAssumption DEF TargetInv, FreshInv
<1>4. CASE UidRejected
    <2>1. recvBuffer.uid \in seen \cap BadCard
        BY <1>3, <1>4, CardAssumption DEF UidRejected, UidAccepted
    <2>2. console' = [line |-> "error", uid |-> NoCard]
          /\ UNCHANGED <<field, seen>>
        BY <1>4 DEF UidRejected, isrRest, envVars
    <2>3. Promise!Refuse
        BY <1>2, <2>1, <2>2 DEF Promise!Refuse
    <2> QED BY <2>3 DEF Promise!Next
<1>5. CASE UidAcceptedStep
    <2>1. recvBuffer.uid \in seen \ BadCard
        BY <1>3, <1>5 DEF UidAcceptedStep, UidAccepted
    <2>2. console' = [line |-> "uid", uid |-> recvBuffer.uid]
          /\ UNCHANGED <<field, seen>>
        BY <1>5 DEF UidAcceptedStep, envVars
    <2>3. Promise!Report(recvBuffer.uid)
        BY <1>2, <2>1, <2>2 DEF Promise!Report
    <2> QED BY <1>3, <2>3 DEF Promise!Next
<1> QED BY <1>4, <1>5

\* As long as no transaction fails, every step of the firmware, the chip and
\* the cards is a step of CardReader or leaves its view alone: the safety half
\* of KeepsPromise, for every set of cards, in all builds, with a chip that does
\* not overtake an interrupt handler.
THEOREM ReportsAsPromised ==
    ASSUME NotOvertaking, MaxFaults = 0
    PROVE  Spec => Promise!SafeSpec
<1>1. Init => Promise!Init
    BY DEF Init, ChipInit, DriverInit, Promise!Init
<1>2. TypeOK /\ DeafInv /\ FreshInv /\ TargetInv /\ [Next]_vars =>
            [Promise!Next]_(Promise!view)
    <2> SUFFICES ASSUME TypeOK, DeafInv, FreshInv, TargetInv, [Next]_vars
                 PROVE  Promise!Next \/ UNCHANGED Promise!view
        OBVIOUS
    <2>1. faults = 0
        BY DEF TypeOK, DataOK
    <2>2. CASE UidRejected \/ UidAcceptedStep
        BY <2>1, <2>2, ReportSteps
    <2>3. CASE EnableFires
        BY <2>3 DEF EnableFires, Promise!Next, Promise!SayReady
    <2>4. CASE Environment
        BY <2>4 DEF Environment, CardEnters, CardLeaves, firmware,
           Promise!Next, Promise!CardEnters, Promise!CardLeaves
    <2>5. CASE UNCHANGED vars
        BY <2>5 DEF vars, envVars, Promise!view
    <2> QED BY <2>2, <2>3, <2>4, <2>5, SilentSteps DEF Next
<1> QED BY <1>1, <1>2, TypeCorrect, DeafInvariant, FreshInvariant,
        TargetInvariant, PTL DEF Spec, Promise!SafeSpec
-----------------------------------------------------------------------------
(* What needs a failed transaction to happen.                              *)

\* The error code is set by a failure only.
LEMMA CleanNext ==
    ASSUME TypeOK, [Next]_vars, faults' = 0
    PROVE  faults = 0 /\ (~i2c_error => ~i2c_error')
<1>1. ~Fault
    BY CleanStep
<1>2. ASSUME NEW cmd, BusWrite(cmd)
      PROVE  faults = 0 /\ (~i2c_error => ~i2c_error')
    BY <1>1, <1>2 DEF BusWrite
<1>3. ASSUME NEW buffer, NEW full, BusRead(buffer, full)
      PROVE  faults = 0 /\ (~i2c_error => ~i2c_error')
    BY <1>1, <1>3 DEF BusRead
<1>4. ASSUME NEW buffer, BootRead(buffer)
      PROVE  faults = 0 /\ (~i2c_error => ~i2c_error')
    BY <1>1, <1>3, <1>4 DEF BootRead
<1>5. CASE Boot
    <2>1. CASE \/ FirmwareWrite \/ RfWrite \/ SamWrite \/ ListWrite
        BY <1>2, <2>1 DEF FirmwareWrite, RfWrite, SamWrite, ListWrite, BootWrites
    <2>2. CASE \/ FirmwareAck \/ FirmwareRead \/ RfRead \/ SamAck \/ SamRead
               \/ ListAck
        BY <1>4, <2>2 DEF FirmwareAck, FirmwareRead, RfRead, SamAck, SamRead,
           ListAck, BootReads
    <2>3. CASE \/ InitTimerFires \/ RetryTimerFires \/ FirmwareAckCheck
               \/ FirmwareDone \/ RfCheck \/ SamEnd \/ ListCheck
               \/ SetIrqPin \/ Park
        <3>1. UNCHANGED faults
            BY <2>3 DEF InitTimerFires, RetryTimerFires,
               FirmwareAckCheck, FirmwareDone, RfCheck, SamEnd,
               ListCheck, SetIrqPin, Park, EndTransaction, bus
        <3>2. ~i2c_error => ~i2c_error'
            BY <2>3 DEF InitTimerFires, RetryTimerFires,
               FirmwareAckCheck, FirmwareDone, RfCheck, SamEnd,
               ListCheck, SetIrqPin, Park, EndTransaction, bus
        <3> QED BY <3>1, <3>2
    <2> QED BY <1>5, <2>1, <2>2, <2>3 DEF Boot
<1>6. CASE LoopFires \/ EnableFires \/ Pn532TimerFires
    BY <1>1, <1>6 DEF LoopFires, EnableFires, Pn532TimerFires, InItsTime, bus
<1>7. CASE CallbackSteps
    BY <1>1, <1>2, <1>7 DEF CallbackSteps, LoopRearms, EnableWrite, AuthWrite,
       ReadBlockWrite, WriteBlockWrite, LedSelect, LedWrite, LedFinish,
       InItsTime, SendWrite, SendEnds, SendEndReads, SendEndClears,
       EnableFinish, AuthFinish, ReadBlockFinish, WriteBlockFinish,
       SenderFinish, bus
<1>8. CASE Interrupt
    <2>1. CASE \/ AckRead \/ UidRead \/ AuthRead \/ DataRead \/ WrittenRead
               \/ GpioRead
        BY <1>3, <2>1 DEF AckRead, UidRead, AuthRead, DataRead, WrittenRead,
           GpioRead
    <2>2. CASE IsrSend
        BY <1>2, <2>2 DEF IsrSend
    <2>3. CASE \/ IsrEnter \/ IsrIgnores \/ IsrExit \/ AckFinish
               \/ UidRejected \/ UidAcceptedStep \/ AuthRefused
               \/ AuthAccepted \/ DataRefused \/ DataAccepted \/ IsrSendEnd
               \/ WrittenFinish \/ GpioFinish
        <3>1. UNCHANGED faults
            BY <2>3 DEF IsrEnter, IsrIgnores, IsrExit, AckFinish,
               UidRejected, UidAcceptedStep, AuthRefused,
               AuthAccepted, DataRefused, DataAccepted, IsrSendEnd,
               WrittenFinish, GpioFinish, EndTransaction, bus
        <3>2. ~i2c_error => ~i2c_error'
            BY <2>3 DEF IsrEnter, IsrIgnores, IsrExit, AckFinish,
               UidRejected, UidAcceptedStep, AuthRefused,
               AuthAccepted, DataRefused, DataAccepted, IsrSendEnd,
               WrittenFinish, GpioFinish, EndTransaction, bus
        <3> QED BY <3>1, <3>2
    <2> QED BY <1>8, <2>1, <2>2, <2>3 DEF Interrupt
<1>9. CASE Chips \/ Environment \/ UNCHANGED vars
    BY <1>9 DEF Chips, ChipAcknowledges, ChipAnswers, Environment, CardEnters,
       CardLeaves, firmware, vars, bus
<1> QED BY <1>5, <1>6, <1>7, <1>8, <1>9 DEF Next

\* As long as no transaction has failed, none starts with an error code set, in
\* all builds and with a chip of any speed: the early returns that leave a
\* transaction open do harm only after a failure.
THEOREM CleanStarts == Spec => [](faults = 0 => TransactionsStartClean)
<1> DEFINE Clean == faults = 0 => ~i2c_error
<1>1. Init => Clean
    BY DEF Init, BusInit
<1>2. TypeOK /\ Clean /\ [Next]_vars => Clean'
    BY CleanNext
<1>3. Clean => (faults = 0 => TransactionsStartClean)
    BY DEF TransactionsStartClean
<1> QED BY <1>1, <1>2, <1>3, TypeCorrect, PTL DEF Spec

\* As long as no transaction has failed, every UID that is printed is a whole
\* one: it takes a read that breaks off for pn532ReadCardUid to print a part.
\* For all builds and a chip that does not overtake an interrupt handler.
THEOREM WholeReports ==
    ASSUME NotOvertaking
    PROVE  Spec => [](faults = 0 => WholeUid)
<1> DEFINE Whole == faults = 0 => WholeUid
<1>1. Init => Whole
    BY CardAssumption DEF Init, DriverInit, WholeUid
<1>2. TypeOK /\ DeafInv /\ TargetInv /\ Whole /\ [Next]_vars => Whole'
    <2> SUFFICES ASSUME TypeOK, DeafInv, TargetInv, Whole, [Next]_vars, faults' = 0
                 PROVE  WholeUid'
        OBVIOUS
    <2>1. faults = 0 /\ WholeUid
        BY CleanNext
    <2>2. CASE UidAcceptedStep
        <3>1. Finishing("IRQ_READ_UID") /\ console'.uid = recvBuffer.uid
            BY <2>2 DEF UidAcceptedStep
        <3>2. recvBuffer.uid \in Card
            BY <2>1, <3>1, TargetTaken DEF TargetInv
        <3> QED BY <3>1, <3>2, CardAssumption DEF WholeUid
    <2>3. CASE UidRejected
        BY <2>3, CardAssumption DEF UidRejected, WholeUid
    <2>4. CASE EnableFires
        BY <2>1, <2>4 DEF EnableFires, WholeUid, TypeOK, DataOK
    <2>5. CASE Environment \/ UNCHANGED vars
        BY <2>1, <2>5 DEF Environment, CardEnters, CardLeaves, firmware, vars,
           WholeUid
    <2>6. CASE \/ Boot \/ LoopFires \/ Pn532TimerFires \/ CallbackSteps \/ Chips
               \/ Interrupt /\ ~UidRejected /\ ~UidAcceptedStep
        BY <2>1, <2>6, SilentSteps DEF Promise!view, WholeUid
    <2> QED BY <2>2, <2>3, <2>4, <2>5, <2>6 DEF Next
<1> QED BY <1>1, <1>2, TypeCorrect, DeafInvariant, TargetInvariant, PTL DEF Spec

=============================================================================
