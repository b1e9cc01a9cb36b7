------------------------------ MODULE BrzoI2c ------------------------------
(***************************************************************************)
(* The I2C master of driver/brzo_i2c.c at the level of its calls, and the  *)
(* GPIO pin to which the chip's IRQ line is wired (driver/gpio_pins.c).    *)
(*                                                                         *)
(* brzo_i2c_write and brzo_i2c_read run with all interrupts disabled, so   *)
(* each call is one step.  A call that fails leaves a code in the global   *)
(* i2c_error, and every later call is skipped until                        *)
(* brzo_i2c_end_transaction clears it.  The code is abstracted to "set".   *)
(***************************************************************************)
EXTENDS Pn532Chip, Naturals

CONSTANT
    MaxFaults   \* how many I2C faults and late answers a behaviour may hold

ASSUME MaxFaultsAssumption == MaxFaults \in Nat

VARIABLES
    i2c_error,  \* the global error code: is it non-zero?
    recvBuffer, \* pn532.recvBuffer
    pinIntr,    \* the interrupt type of IRQ_PIN: ANYEDGE (TRUE) or DISABLE
    gpioStatus, \* the latched interrupt status of IRQ_PIN
    faults      \* faults so far, bounded by MaxFaults

wire == <<chip, gpioStatus>>
bus  == <<chip, gpioStatus, i2c_error, recvBuffer, faults>>

BusInit ==
    /\ i2c_error = FALSE
    /\ recvBuffer = Plain("zero")
    /\ pinIntr = FALSE
    /\ gpioStatus = FALSE
    /\ faults = 0

\* The chip becomes c.  An edge of the IRQ line is latched when the pin's
\* interrupt type is ANYEDGE and is lost when it is DISABLE.
ChipMoves(c) ==
    /\ chip' = c
    /\ gpioStatus' = (gpioStatus \/ (pinIntr /\ IrqLow(c) # IrqLow(chip)))

Fault ==
    /\ faults < MaxFaults
    /\ faults' = faults + 1

\* brzo_i2c_write: skipped after an error; delivered; or failed, with the
\* chip having taken the frame (an error on its last bits) or not.
BusWrite(cmd) ==
    \/ /\ i2c_error
       /\ UNCHANGED <<chip, gpioStatus, i2c_error, faults>>
    \/ /\ ~i2c_error
       /\ ChipMoves(Receives(chip, cmd))
       /\ UNCHANGED <<i2c_error, faults>>
    \/ /\ ~i2c_error
       /\ Fault
       /\ i2c_error' = TRUE
       /\ \E c \in {chip, Receives(chip, cmd)} : ChipMoves(c)

\* brzo_i2c_read into a buffer that holds the frame "buffer" beforehand.
BusRead(buffer, full) ==
    \/ /\ i2c_error
       /\ recvBuffer' = buffer
       /\ UNCHANGED <<chip, gpioStatus, i2c_error, faults>>
    \/ /\ ~i2c_error
       /\ recvBuffer' = ReadInto(buffer, FrameOf(chip), full)
       /\ ChipMoves(AfterRead(chip))
       /\ UNCHANGED <<i2c_error, faults>>
    \/ /\ ~i2c_error
       /\ Fault
       /\ i2c_error' = TRUE
       /\ recvBuffer' \in PartsInto(buffer, FrameOf(chip), full)
       /\ \E c \in {chip, AfterRead(chip)} : ChipMoves(c)

\* brzo_i2c_end_transaction where nothing can run between its two lines.
EndTransaction == i2c_error' = FALSE
=============================================================================
