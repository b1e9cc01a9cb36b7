------------------------------ MODULE Pn532Irq ------------------------------
(***************************************************************************)
(* pn532IntrHandler and the handlers it dispatches to.  The handler masks  *)
(* its pin, reads the frame the chip offers, ends the transaction, clears  *)
(* the pin's status and unmasks it.  The chip goes on between these steps: *)
(* an edge that falls while the pin is masked is lost.                     *)
(***************************************************************************)
EXTENDS Pn532Driver

\* What no handler touches.
isrRest == <<envVars, booting, initTimer, taskVars>>

\* A slip to test against: the pin is not masked.
IsrEnterUnmasked ==
    /\ isr = "none" /\ pinIntr /\ gpioStatus
    /\ isr' = "dispatch"
    /\ UNCHANGED <<bus, pinIntr, irqVars, readingBlock, timerVars, console,
                   isrRest>>

\* The interrupt is taken: read the status, mask the pin.
IsrEnter ==
    /\ isr = "none" /\ pinIntr /\ gpioStatus
    /\ pinIntr' = FALSE
    /\ isr' = "dispatch"
    /\ UNCHANGED <<bus, irqVars, readingBlock, timerVars, console, isrRest>>

\* The handler ends: clear the status, unmask the pin.
IsrExit ==
    /\ isr = "exit"
    /\ gpioStatus' = FALSE
    /\ pinIntr' = TRUE
    /\ isr' = "none"
    /\ UNCHANGED <<chip, i2c_error, recvBuffer, faults, irqVars, readingBlock,
                   timerVars, console, isrRest>>

Dispatched(irq) == isr = "dispatch" /\ pn532IrqInt = irq

Finishing(irq) == isr = "finish" /\ pn532IrqInt = irq

\* IRQ_IDLE, IRQ_PASSIVE_TARGET: nothing to do.
IsrIgnores ==
    /\ \E irq \in {"IRQ_IDLE", "IRQ_PASSIVE_TARGET"} : Dispatched(irq)
    /\ isr' = "exit"
    /\ UNCHANGED <<bus, pinIntr, irqVars, readingBlock, timerVars, console,
                   isrRest>>

-----------------------------------------------------------------------------
(* pn532MifareReadAckFrame                                                 *)

AckRead ==
    /\ Dispatched("IRQ_ACK_FRAME")
    /\ BusRead(Flushed(recvBuffer), FALSE)
    /\ isr' = "finish"
    /\ UNCHANGED <<pinIntr, irqVars, readingBlock, timerVars, console, isrRest>>

\* The handler for the response to the command that was acknowledged.
ResponseHandler ==
    CASE pn532IrqState = "GETTING_CARD"       -> "IRQ_READ_UID"
      [] pn532IrqState = "GETTING_BLOCK_AUTH" -> "IRQ_READ_AUTHENTICATION"
      [] pn532IrqState = "GETTING_BLOCK_DATA" -> "IRQ_READ_BLOCK_DATA"
      [] pn532IrqState = "WRITING_BLOCK_DATA" -> "IRQ_WRITE_DATA"
      [] pn532IrqState = "WRITING_GPIO_DATA"  -> "IRQ_GPIO_READ_RESP"
      [] OTHER                                -> pn532IrqInt

\* A slip to test against: what was read is not compared with an ACK frame.
AckFinishUnchecked ==
    /\ Finishing("IRQ_ACK_FRAME")
    /\ EndTransaction
    /\ pn532IrqInt' = IF ~i2c_error THEN ResponseHandler ELSE pn532IrqInt
    /\ isr' = "exit"
    /\ UNCHANGED <<wire, recvBuffer, faults, pinIntr, pn532IrqState,
                   readingBlock, timerVars, console, isrRest>>

AckFinish ==
    /\ Finishing("IRQ_ACK_FRAME")
    /\ EndTransaction
    /\ pn532IrqInt' = IF ~i2c_error /\ IsAckFrame(recvBuffer)
                        THEN ResponseHandler ELSE pn532IrqInt
    /\ isr' = "exit"
    /\ UNCHANGED <<wire, recvBuffer, faults, pinIntr, pn532IrqState,
                   readingBlock, timerVars, console, isrRest>>

-----------------------------------------------------------------------------
(* pn532ReadCardUid                                                        *)

\* A slip to test against: enableInterruptTimer is disarmed but not armed.
UidReadOnce ==
    /\ Dispatched("IRQ_READ_UID")
    /\ osLoopTimer' = "off"
    /\ pn532Timer' = "off"
    /\ enableInterruptTimer' = FALSE
    /\ BusRead(Flushed(recvBuffer), TRUE)
    /\ isr' = "finish"
    /\ UNCHANGED <<pinIntr, irqVars, readingBlock, console, isrRest>>

UidRead ==
    /\ Dispatched("IRQ_READ_UID")
    /\ osLoopTimer' = "off"
    /\ pn532Timer' = "off"
    /\ enableInterruptTimer' = TRUE
    /\ BusRead(Flushed(recvBuffer), TRUE)
    /\ isr' = "finish"
    /\ UNCHANGED <<pinIntr, irqVars, readingBlock, console, isrRest>>

\* Refused: reported, and back without ending the transaction and without
\* arming osLoopTimer again.
UidRejected ==
    /\ Finishing("IRQ_READ_UID")
    /\ ~UidAccepted(recvBuffer.uid)
    /\ console' = [line |-> "error", uid |-> NoCard]
    /\ isr' = "exit"
    /\ UNCHANGED <<bus, pinIntr, irqVars, readingBlock, timerVars, isrRest>>

\* A card that is to be read or written must first be authenticated.
AuthenticationIsDue == PN532_READING_BLOCK \/ PN532_WRITING_DATA

\* A slip to test against: loop is not armed again.
UidAcceptedLoopOff ==
    /\ Finishing("IRQ_READ_UID")
    /\ UidAccepted(recvBuffer.uid)
    /\ console' = [line |-> "uid", uid |-> recvBuffer.uid]
    /\ pn532Timer' = IF AuthenticationIsDue THEN "authenticate" ELSE pn532Timer
    /\ EndTransaction
    /\ osLoopTimer' = "off"
    /\ isr' = "exit"
    /\ UNCHANGED <<wire, recvBuffer, faults, pinIntr, irqVars, readingBlock,
                   initTimer, enableInterruptTimer, envVars, booting, taskVars>>

\* Accepted: printed before the error of the transaction is looked at.  The
\* call of pn532Connection on an error returns at once, as booting is over.
UidAcceptedStep ==
    /\ Finishing("IRQ_READ_UID")
    /\ UidAccepted(recvBuffer.uid)
    /\ console' = [line |-> "uid", uid |-> recvBuffer.uid]
    /\ pn532Timer' = IF AuthenticationIsDue THEN "authenticate" ELSE pn532Timer
    /\ EndTransaction
    /\ osLoopTimer' = "loop"
    /\ isr' = "exit"
    /\ UNCHANGED <<wire, recvBuffer, faults, pinIntr, irqVars, readingBlock,
                   initTimer, enableInterruptTimer, envVars, booting, taskVars>>

-----------------------------------------------------------------------------
(* pn532ReadAuthenticateResponse                                           *)

AuthRead ==
    /\ Dispatched("IRQ_READ_AUTHENTICATION")
    /\ BusRead(Flushed(recvBuffer), TRUE)
    /\ isr' = "finish"
    /\ UNCHANGED <<pinIntr, irqVars, readingBlock, timerVars, console, isrRest>>

\* A status other than zero: start over with the first block, and call loop.
AuthRefused ==
    /\ Finishing("IRQ_READ_AUTHENTICATION")
    /\ FALSE \in StatusIsZero(recvBuffer)
    /\ EndTransaction
    /\ readingBlock' = PN532_READING_SSID_BLOCK
    /\ osLoopTimer' = "loop"
    /\ isr' = "exit"
    /\ UNCHANGED <<wire, recvBuffer, faults, pinIntr, irqVars, initTimer,
                   pn532Timer, enableInterruptTimer, console, envVars, booting,
                   taskVars>>

\* What follows a successful authentication: the block is written in 2 ms, or
\* read in 10 ms, unless readingBlock says otherwise.
AfterAuthentication ==
    CASE i2c_error          -> pn532Timer
      [] PN532_WRITING_DATA -> "writeBlock"
      [] PN532_READING_BLOCK /\ readingBlock = PN532_READING_SSID_BLOCK ->
            "readBlock"
      [] OTHER              -> pn532Timer

\* A slip to test against: the status byte is not looked at.
AuthAcceptedUnchecked ==
    /\ Finishing("IRQ_READ_AUTHENTICATION")
    /\ EndTransaction
    /\ pn532Timer' = AfterAuthentication
    /\ isr' = "exit"
    /\ UNCHANGED <<wire, recvBuffer, faults, pinIntr, irqVars, readingBlock,
                   initTimer, osLoopTimer, enableInterruptTimer, console,
                   envVars, booting, taskVars>>

AuthAccepted ==
    /\ Finishing("IRQ_READ_AUTHENTICATION")
    /\ TRUE \in StatusIsZero(recvBuffer)
    /\ EndTransaction
    /\ pn532Timer' = AfterAuthentication
    /\ isr' = "exit"
    /\ UNCHANGED <<wire, recvBuffer, faults, pinIntr, irqVars, readingBlock,
                   initTimer, osLoopTimer, enableInterruptTimer, console,
                   envVars, booting, taskVars>>

-----------------------------------------------------------------------------
(* pn532MifareReadDataBlock                                                *)

DataRead ==
    /\ Dispatched("IRQ_READ_BLOCK_DATA")
    /\ BusRead(Flushed(recvBuffer), TRUE)
    /\ isr' = "finish"
    /\ UNCHANGED <<pinIntr, irqVars, readingBlock, timerVars, console, isrRest>>

\* An error status: give the exchange up.  readingBlock keeps its value.
DataRefused ==
    /\ Finishing("IRQ_READ_BLOCK_DATA")
    /\ FALSE \in StatusIsZero(recvBuffer)
    /\ pn532IrqInt' = "IRQ_PASSIVE_TARGET"
    /\ EndTransaction
    /\ osLoopTimer' = "loop"
    /\ isr' = "exit"
    /\ UNCHANGED <<wire, recvBuffer, faults, pinIntr, pn532IrqState,
                   readingBlock, initTimer, pn532Timer, enableInterruptTimer,
                   console, envVars, booting, taskVars>>

\* The block is printed; on an I2C error nothing more happens, after the first
\* block the second is requested at once, after the second all is done.
DataAccepted ==
    /\ Finishing("IRQ_READ_BLOCK_DATA")
    /\ TRUE \in StatusIsZero(recvBuffer)
    /\ EndTransaction
    /\ \/ /\ i2c_error
          /\ isr' = "exit"
          /\ UNCHANGED <<readingBlock, pn532IrqInt>>
       \/ /\ ~i2c_error
          /\ readingBlock = PN532_READING_SSID_BLOCK
          /\ readingBlock' = PN532_READING_PSWD_BLOCK
          /\ isr' = "send"
          /\ UNCHANGED pn532IrqInt
       \/ /\ ~i2c_error
          /\ readingBlock = PN532_READING_PSWD_BLOCK
          /\ readingBlock' = PN532_READING_SSID_BLOCK
          /\ pn532IrqInt' = "IRQ_PASSIVE_TARGET"
          /\ isr' = "exit"
    /\ UNCHANGED <<wire, recvBuffer, faults, pinIntr, pn532IrqState, timerVars,
                   console, isrRest>>

\* A slip to test against: the first block is requested a second time.
IsrSendFirst ==
    /\ isr = "send"
    /\ BusWrite(ReadCommand(PN532_READING_SSID_BLOCK))
    /\ isr' = "sendEnd"
    /\ UNCHANGED <<recvBuffer, pinIntr, irqVars, readingBlock, timerVars,
                   console, isrRest>>

\* pn532MifareSendReadBlockCommand(pn532.readingBlock), inside the handler.
IsrSend ==
    /\ isr = "send"
    /\ BusWrite(ReadCommand(readingBlock))
    /\ isr' = "sendEnd"
    /\ UNCHANGED <<recvBuffer, pinIntr, irqVars, readingBlock, timerVars,
                   console, isrRest>>

IsrSendEnd ==
    /\ isr = "sendEnd"
    /\ EndTransaction
    /\ pn532IrqInt' = "IRQ_ACK_FRAME"
    /\ pn532IrqState' = "GETTING_BLOCK_DATA"
    /\ isr' = "exit"
    /\ UNCHANGED <<wire, recvBuffer, faults, pinIntr, readingBlock, timerVars,
                   console, isrRest>>

-----------------------------------------------------------------------------
(* pn532ReadWritenDataFromBlock and pn532_readGpioResp: the answer is read *)
(* over what the buffer holds, and not looked at.                          *)

WrittenRead ==
    /\ Dispatched("IRQ_WRITE_DATA")
    /\ BusRead(recvBuffer, TRUE)
    /\ isr' = "finish"
    /\ UNCHANGED <<pinIntr, irqVars, readingBlock, timerVars, console, isrRest>>

WrittenFinish ==
    /\ Finishing("IRQ_WRITE_DATA")
    /\ EndTransaction
    /\ isr' = "exit"
    /\ UNCHANGED <<wire, recvBuffer, faults, pinIntr, irqVars, readingBlock,
                   timerVars, console, isrRest>>

GpioRead ==
    /\ Dispatched("IRQ_GPIO_READ_RESP")
    /\ BusRead(recvBuffer, TRUE)
    /\ isr' = "finish"
    /\ UNCHANGED <<pinIntr, irqVars, readingBlock, timerVars, console, isrRest>>

\* A slip to test against: no listing follows the lights.
GpioFinishForgets ==
    /\ Finishing("IRQ_GPIO_READ_RESP")
    /\ EndTransaction
    /\ isr' = "exit"
    /\ UNCHANGED <<wire, recvBuffer, faults, pinIntr, irqVars, readingBlock,
                   timerVars, console, isrRest>>

\* The lights' command has dropped the listing: the next is due in 2 seconds.
GpioFinish ==
    /\ Finishing("IRQ_GPIO_READ_RESP")
    /\ EndTransaction
    /\ enableInterruptTimer' = (enableInterruptTimer \/ ~i2c_error)
    /\ isr' = "exit"
    /\ UNCHANGED <<wire, recvBuffer, faults, pinIntr, irqVars, readingBlock,
                   initTimer, osLoopTimer, pn532Timer, console, isrRest>>

Interrupt ==
    \/ IsrEnter \/ IsrIgnores \/ IsrExit
    \/ AckRead \/ AckFinish
    \/ UidRead \/ UidRejected \/ UidAcceptedStep
    \/ AuthRead \/ AuthRefused \/ AuthAccepted
    \/ DataRead \/ DataRefused \/ DataAccepted
    \/ IsrSend \/ IsrSendEnd
    \/ WrittenRead \/ WrittenFinish
    \/ GpioRead \/ GpioFinish
=============================================================================
