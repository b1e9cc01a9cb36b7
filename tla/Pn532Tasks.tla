---------------------------- MODULE Pn532Tasks ----------------------------
(***************************************************************************)
(* The timer callbacks that run once the firmware has booted: loop,        *)
(* enablePn532Interrupt, and the senders that go on with a card:           *)
(* pn532SendAuthenticationKey and, depending on the build,                 *)
(* pn532MifareSendReadBlockCommand or mifareSendWriteCMD.                  *)
(*                                                                         *)
(* Timers are one-shot and expire in any order, but for one relation of    *)
(* their lengths that the driver leans on: the card exchange that follows  *)
(* a UID (two delays of 10 ms and three short commands) is over before     *)
(* enablePn532Interrupt is due again (a second), and a command to the      *)
(* lights before the next (100 ms); a listing is acknowledged before loop  *)
(* is due (seconds).  What takes longer counts as a fault.                 *)
(***************************************************************************)
EXTENDS Pn532Driver

\* An exchange other than a listing that has not come to its end.
ExchangeOpen ==
    \/ pn532Timer # "off"
    \/ /\ chip.cmd \in {"authenticate", "writeGpio"} \cup BlockCommands
       /\ chip.phase \in {"command", "busy"}

\* A command to the lights comes after the ones before it, or is a fault.
InItsTime ==
    IF ExchangeOpen \/ chip.phase = "command" THEN Fault ELSE UNCHANGED faults

\* loop begins.  In the build with lights it shows whether wifi.connection is
\* set: three commands to the lights follow when it is not.
LoopFires ==
    /\ TaskTurn /\ task = "none" /\ osLoopTimer = "loop"
    /\ osLoopTimer' = "off"
    /\ task' = "loop"
    /\ \/ pc' = "rearm" /\ UNCHANGED faults
       \/ PN532_CONNECTED_LEDS /\ pc' = "led" /\ InItsTime
    /\ UNCHANGED <<wire, i2c_error, recvBuffer, envVars, pinIntr, booting,
                   irqVars, readingBlock, initTimer, pn532Timer,
                   enableInterruptTimer, tries, taskError, isr, console>>

\* loop ends by arming its own timer again, whatever an interrupt has done to
\* the timer in between.
LoopRearms ==
    /\ TaskAt("loop", "rearm")
    /\ osLoopTimer' = "loop"
    /\ TaskReturns
    /\ UNCHANGED <<bus, envVars, pinIntr, booting, irqVars, readingBlock,
                   initTimer, pn532Timer, enableInterruptTimer, isr, console>>

-----------------------------------------------------------------------------
(* Sending a command: a start, a write, and the two lines of               *)
(* brzo_i2c_end_transaction.                                               *)

sendRest == <<envVars, pinIntr, booting, irqVars, readingBlock, timerVars,
              isr, console>>

SendWrite(callback, cmd, buffer) ==
    /\ TaskAt(callback, "write")
    /\ BusWrite(cmd)
    /\ recvBuffer' = buffer
    /\ Goto("endRead")
    /\ UNCHANGED sendRest

\* uint8_t dummy = i2c_error;
SendEndReads(callback) ==
    /\ TaskAt(callback, "endRead")
    /\ taskError' = i2c_error
    /\ pc' = "endClear"
    /\ UNCHANGED <<task, tries, bus, sendRest>>

\* i2c_error = 0; return dummy;
SendEndClears(callback) ==
    /\ TaskAt(callback, "endClear")
    /\ i2c_error' = FALSE
    /\ Goto("finish")
    /\ UNCHANGED <<wire, recvBuffer, faults, sendRest>>

-----------------------------------------------------------------------------
(* enablePn532Interrupt and pn532ReadyToReadPassiveTargetID.               *)

EnableFires ==
    /\ TaskTurn /\ task = "none" /\ enableInterruptTimer
    /\ IF ExchangeOpen THEN Fault ELSE UNCHANGED faults
    /\ enableInterruptTimer' = FALSE
    /\ task' = "enable" /\ pc' = "write"
    /\ console' = [console EXCEPT !.line = "ready"]
    /\ seen' = {field} \cap Card
    /\ pn532IrqInt' = "IRQ_ACK_FRAME"
    /\ pn532IrqState' = "GETTING_CARD"
    /\ UNCHANGED <<wire, i2c_error, recvBuffer, field, build, pinIntr, booting,
                   readingBlock, initTimer, osLoopTimer, pn532Timer, tries,
                   taskError, isr>>

EnableWrite == SendWrite("enable", "listPassiveTarget", Flushed(recvBuffer))

\* A slip to test against: the error test the wrong way round.
EnableFinishInverted ==
    /\ TaskAt("enable", "finish")
    /\ IF ~taskError
          THEN /\ pn532IrqInt' = "IRQ_IDLE"
               /\ pn532IrqState' = "STATUS_IDLE"
          ELSE UNCHANGED irqVars
    /\ TaskReturns
    /\ pinIntr' = TRUE
    /\ UNCHANGED <<bus, envVars, booting, readingBlock, timerVars, isr, console>>

\* On an error the handler is parked; the pin is unmasked in any case.
EnableFinish ==
    /\ TaskAt("enable", "finish")
    /\ IF taskError
          THEN /\ pn532IrqInt' = "IRQ_IDLE"
               /\ pn532IrqState' = "STATUS_IDLE"
          ELSE UNCHANGED irqVars
    /\ TaskReturns
    /\ pinIntr' = TRUE
    /\ UNCHANGED <<bus, envVars, booting, readingBlock, timerVars, isr, console>>

-----------------------------------------------------------------------------
(* The senders of the reading and the writing build, run by pn532Timer.    *)

Pn532TimerFires ==
    /\ TaskTurn /\ task = "none" /\ pn532Timer # "off"
    /\ pn532Timer' = "off"
    /\ task' = pn532Timer /\ pc' = "write"
    /\ UNCHANGED <<bus, envVars, pinIntr, booting, irqVars, readingBlock,
                   initTimer, osLoopTimer, enableInterruptTimer, tries,
                   taskError, isr, console>>

AuthWrite == SendWrite("authenticate", "authenticate", recvBuffer)

ReadBlockWrite ==
    SendWrite("readBlock", ReadCommand(PN532_READING_SSID_BLOCK), recvBuffer)

\* The handler of the coming ACK is set up only after the transaction, and
\* whether or not it failed.
SenderFinish(callback, state) ==
    /\ TaskAt(callback, "finish")
    /\ pn532IrqInt' = "IRQ_ACK_FRAME"
    /\ pn532IrqState' = state
    /\ TaskReturns
    /\ UNCHANGED <<bus, envVars, pinIntr, booting, readingBlock, timerVars,
                   isr, console>>

AuthFinish == SenderFinish("authenticate", "GETTING_BLOCK_AUTH")

ReadBlockFinish == SenderFinish("readBlock", "GETTING_BLOCK_DATA")

WriteBlockWrite == SendWrite("writeBlock", "writeBlock", recvBuffer)

WriteBlockFinish == SenderFinish("writeBlock", "WRITING_BLOCK_DATA")

-----------------------------------------------------------------------------
(* pn532_led_color, called three times by loop.                            *)

\* The handler of the coming ACK is set up before the command is sent.
LedSelect ==
    /\ TaskAt("loop", "led")
    /\ InItsTime
    /\ pn532IrqInt' = "IRQ_ACK_FRAME"
    /\ pn532IrqState' = "WRITING_GPIO_DATA"
    /\ Goto("write")
    /\ UNCHANGED <<wire, i2c_error, recvBuffer, envVars, pinIntr, booting,
                   readingBlock, timerVars, isr, console>>

LedWrite == SendWrite("loop", "writeGpio", recvBuffer)

\* The result is not looked at.
LedFinish ==
    /\ TaskAt("loop", "finish")
    /\ IF tries + 1 < 3
          THEN tries' = tries + 1 /\ pc' = "led"
          ELSE tries' = 0 /\ pc' = "rearm"
    /\ UNCHANGED <<task, taskError, bus, sendRest>>

-----------------------------------------------------------------------------

SendEnds ==
    \E callback \in {"enable", "authenticate", "readBlock", "writeBlock", "loop"} :
        SendEndReads(callback) \/ SendEndClears(callback)

\* The steps of a callback that has begun.
CallbackSteps ==
    \/ LoopRearms
    \/ EnableWrite \/ AuthWrite \/ ReadBlockWrite \/ WriteBlockWrite
    \/ LedSelect \/ LedWrite \/ LedFinish
    \/ SendEnds
    \/ EnableFinish \/ AuthFinish \/ ReadBlockFinish \/ WriteBlockFinish
=============================================================================
