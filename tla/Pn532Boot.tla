----------------------------- MODULE Pn532Boot -----------------------------
(***************************************************************************)
(* pn532Connection: the callback that finds the chip, configures it, sends *)
(* the first listing and hands over to the interrupt.  Until it enables    *)
(* the IRQ pin it polls: it waits a fixed time and reads.                  *)
(***************************************************************************)
EXTENDS Pn532Driver

BootAt(step) == TaskAt("connection", step)

\* What pn532Connection leaves alone until it is done.
bootRest == <<envVars, pinIntr, booting, irqVars, readingBlock, timerVars,
              isr, console>>

StartConnection == task' = "connection" /\ pc' = "fwWrite" /\ tries' = 0

\* initTimer expires.
InitTimerFires ==
    /\ TaskTurn /\ task = "none" /\ initTimer
    /\ initTimer' = FALSE
    /\ StartConnection
    /\ UNCHANGED <<bus, envVars, pinIntr, booting, irqVars, readingBlock,
                   osLoopTimer, pn532Timer, enableInterruptTimer, taskError,
                   isr, console>>

\* osLoopTimer expires, armed with pn532Connection.
RetryTimerFires ==
    /\ TaskTurn /\ task = "none" /\ osLoopTimer = "pn532Connection"
    /\ osLoopTimer' = "off"
    /\ StartConnection
    /\ UNCHANGED <<bus, envVars, pinIntr, booting, irqVars, readingBlock,
                   initTimer, pn532Timer, enableInterruptTimer, taskError,
                   isr, console>>

\* A read after a fixed delay.  One that comes before the chip's answer finds
\* the chip not ready: the answer is late, which counts as a fault.
BootRead(buffer) ==
    IF ~i2c_error /\ chip.phase \in {"command", "busy"}
        THEN /\ Fault
             /\ recvBuffer' = Plain("junk")
             /\ UNCHANGED <<chip, gpioStatus, i2c_error>>
        ELSE BusRead(buffer, TRUE)

BootWrites(step, cmd, next, buffer) ==
    /\ BootAt(step)
    /\ BusWrite(cmd)
    /\ recvBuffer' = buffer
    /\ Goto(next)
    /\ UNCHANGED bootRest

BootReads(step, buffer, next) ==
    /\ BootAt(step)
    /\ BootRead(buffer)
    /\ Goto(next)
    /\ UNCHANGED bootRest

-----------------------------------------------------------------------------
(* pn532GetFirmwareVersion, called up to four times.                       *)

FirmwareWrite == BootWrites("fwWrite", "getFirmwareVersion", "fwAck", recvBuffer)

FirmwareAck == BootReads("fwAck", recvBuffer, "fwAckCheck")

\* A slip to test against: nobody calls pn532Connection again.
FirmwareAbandoned ==
    IF tries + 1 < 4
        THEN /\ tries' = tries + 1 /\ pc' = "fwWrite"
             /\ UNCHANGED <<task, taskError, osLoopTimer>>
        ELSE UNCHANGED osLoopTimer /\ TaskReturns

\* A slip to test against: the failed attempts are not counted.
FirmwareForever == pc' = "fwWrite" /\ UNCHANGED <<task, tries, taskError, osLoopTimer>>

\* One more attempt has failed: after the fourth pn532Connection gives up and
\* is called again by osLoopTimer.
FirmwareFailed ==
    IF tries + 1 < 4
        THEN /\ tries' = tries + 1 /\ pc' = "fwWrite"
             /\ UNCHANGED <<task, taskError, osLoopTimer>>
        ELSE /\ osLoopTimer' = "pn532Connection"
             /\ TaskReturns

FirmwareAckCheck ==
    /\ BootAt("fwAckCheck")
    /\ IF IsAckFrame(recvBuffer)
          THEN Goto("fwRead") /\ UNCHANGED <<i2c_error, osLoopTimer>>
          ELSE EndTransaction /\ FirmwareFailed
    /\ UNCHANGED <<wire, recvBuffer, faults, envVars, pinIntr, booting, irqVars,
                   readingBlock, initTimer, pn532Timer, enableInterruptTimer,
                   isr, console>>

FirmwareRead == BootReads("fwRead", recvBuffer, "fwDone")

\* The version is taken from bytes 8..11 whatever the frame is; only a
\* buffer of zeros or an I2C error makes it zero.
FirmwareDone ==
    /\ BootAt("fwDone")
    /\ EndTransaction
    /\ IF ~i2c_error /\ recvBuffer.kind # "zero"
          THEN /\ tries' = 0 /\ pc' = "rfWrite"
               /\ UNCHANGED <<task, taskError, osLoopTimer>>
          ELSE FirmwareFailed
    /\ UNCHANGED <<wire, recvBuffer, faults, envVars, pinIntr, booting, irqVars,
                   readingBlock, initTimer, pn532Timer, enableInterruptTimer,
                   isr, console>>

-----------------------------------------------------------------------------
(* pn532SamConfig, whose result pn532Connection ignores.                   *)

RfWrite ==
    BootWrites("rfWrite", "rfConfiguration", "rfRead", Flushed(recvBuffer))

RfRead == BootReads("rfRead", recvBuffer, "rfCheck")

\* A slip to test against: the limit of ACKs is compared one too late.
RfCheckOneMore ==
    /\ BootAt("rfCheck")
    /\ \/ /\ IsAckFrame(recvBuffer)
          /\ IF tries = 5
                THEN tries' = 0 /\ pc' = "listWrite"
                ELSE tries' = tries + 1 /\ pc' = "rfRead"
       \/ /\ ~IsAckFrame(recvBuffer)
          /\ tries' = 0 /\ pc' = "samWrite"
    /\ UNCHANGED <<task, taskError, bus, bootRest>>

\* Reads again as long as the buffer holds an ACK; the fifth one makes
\* pn532SamConfig return in the middle of its transaction.
RfCheck ==
    /\ BootAt("rfCheck")
    /\ \/ /\ IsAckFrame(recvBuffer)
          /\ IF tries + 1 = 5
                THEN tries' = 0 /\ pc' = "listWrite"
                ELSE tries' = tries + 1 /\ pc' = "rfRead"
       \/ /\ ~IsAckFrame(recvBuffer)
          /\ tries' = 0 /\ pc' = "samWrite"
    /\ UNCHANGED <<task, taskError, bus, bootRest>>

SamWrite ==
    BootWrites("samWrite", "samConfiguration", "samAck", Flushed(recvBuffer))

SamAck == BootReads("samAck", Flushed(recvBuffer), "samRead")

SamRead == BootReads("samRead", recvBuffer, "samEnd")

SamEnd ==
    /\ BootAt("samEnd")
    /\ EndTransaction
    /\ Goto("listWrite")
    /\ UNCHANGED <<wire, recvBuffer, faults, bootRest>>

-----------------------------------------------------------------------------
(* pn532ReadPassiveTargetID and the rest of pn532Connection.               *)

ListWrite ==
    BootWrites("listWrite", "listPassiveTarget", "listAck", Flushed(recvBuffer))

ListAck == BootReads("listAck", Flushed(recvBuffer), "listCheck")

\* Without an ACK the function returns in the middle of its transaction.
ListCheck ==
    /\ BootAt("listCheck")
    /\ Goto("setPin")
    /\ i2c_error' = (i2c_error /\ ~IsAckFrame(recvBuffer))
    /\ pn532IrqInt' = IF IsAckFrame(recvBuffer) /\ ~i2c_error
                        THEN "IRQ_ACK_FRAME" ELSE pn532IrqInt
    /\ UNCHANGED <<wire, recvBuffer, faults, envVars, pinIntr, booting,
                   pn532IrqState, readingBlock, timerVars, isr, console>>

\* pn532.booting = false, and pn532SetIrqPin clears the pin's status and
\* unmasks it.
SetIrqPin ==
    /\ BootAt("setPin")
    /\ booting' = FALSE
    /\ gpioStatus' = FALSE
    /\ pinIntr' = TRUE
    /\ Goto("park")
    /\ UNCHANGED <<chip, i2c_error, recvBuffer, faults, envVars, irqVars,
                   readingBlock, timerVars, isr, console>>

\* A slip to test against: the timer for loop is not armed.
ParkLoopOff ==
    /\ BootAt("park")
    /\ pn532IrqInt' = "IRQ_IDLE"
    /\ pn532IrqState' = "STATUS_IDLE"
    /\ enableInterruptTimer' = TRUE
    /\ TaskReturns
    /\ UNCHANGED <<bus, envVars, pinIntr, booting, readingBlock, initTimer,
                   osLoopTimer, pn532Timer, isr, console>>

\* The handler is parked and the timers for loop (in a second) and
\* enablePn532Interrupt (in three) are armed.
Park ==
    /\ BootAt("park")
    /\ pn532IrqInt' = "IRQ_IDLE"
    /\ pn532IrqState' = "STATUS_IDLE"
    /\ osLoopTimer' = "loop"
    /\ enableInterruptTimer' = TRUE
    /\ TaskReturns
    /\ UNCHANGED <<bus, envVars, pinIntr, booting, readingBlock, initTimer,
                   pn532Timer, isr, console>>

Boot ==
    \/ InitTimerFires \/ RetryTimerFires
    \/ FirmwareWrite \/ FirmwareAck \/ FirmwareAckCheck \/ FirmwareRead
    \/ FirmwareDone
    \/ RfWrite \/ RfRead \/ RfCheck
    \/ SamWrite \/ SamAck \/ SamRead \/ SamEnd
    \/ ListWrite \/ ListAck \/ ListCheck
    \/ SetIrqPin \/ Park
=============================================================================
