---------------------------- MODULE Pn532Driver ----------------------------
(***************************************************************************)
(* The state the firmware keeps for the reader: the globals of pn532.c and *)
(* user_config.h, the software timers, and the program points at which the *)
(* two threads of control stand.                                           *)
(*                                                                         *)
(* There are two: the SDK task, which runs the timer callbacks one at a    *)
(* time to their end, and the GPIO interrupt, which may preempt the task   *)
(* between any two of its steps.  The task's steps are split wherever the  *)
(* interrupt could tell the difference; an interrupt that is pending and   *)
(* not masked is taken before the task's next step.                        *)
(***************************************************************************)
EXTENDS BrzoI2c

CONSTANTS
    Builds,                 \* the firmwares that are looked at
    SwiftIn                 \* for each of them, where the chip may act between
                            \* the last I2C call of a piece of code and its
                            \* return: in a "handler", in a "callback"

ASSUME BuildAssumption ==
    /\ Builds \subseteq {"uid", "reading", "writing", "leds"}
    /\ SwiftIn \in [Builds -> SUBSET {"handler", "callback"}]

VARIABLES
    build,                  \* the firmware that runs, for good
    booting,                \* pn532.booting
    pn532IrqInt,            \* which handler the next interrupt runs
    pn532IrqState,          \* what the ACK being waited for belongs to
    readingBlock,           \* pn532.readingBlock
    initTimer,              \* is it armed (with pn532Connection)?
    osLoopTimer,            \* the callback it is armed with, or "off"
    pn532Timer,             \* the callback it is armed with, or "off"
    enableInterruptTimer,   \* is it armed (with enablePn532Interrupt)?
    task,                   \* the callback the SDK task is running
    pc,                     \* the step of that callback that comes next
    tries,                  \* the local _try of the boot loops
    taskError,              \* the local _error, also the "dummy" of
                            \* brzo_i2c_end_transaction
    isr,                    \* the step of pn532IntrHandler that comes next
    console,                \* the last report on the serial line, with the
                            \* UID of the last card printed
    seen                    \* history: the cards that have been in the field
                            \* since READY TO READ NEXT UID was last printed

PN532_READING_SSID_BLOCK == 1
PN532_READING_PSWD_BLOCK == 3

\* The build switches.  The default build defines none of them, the others one
\* each.
PN532_READING_BLOCK == build = "reading"
PN532_WRITING_DATA == build = "writing"
PN532_CONNECTED_LEDS == build = "leds"

IrqInt ==
    {"IRQ_IDLE", "IRQ_ACK_FRAME", "IRQ_READ_UID", "IRQ_READ_AUTHENTICATION",
     "IRQ_READ_BLOCK_DATA", "IRQ_WRITE_DATA", "IRQ_GPIO_READ_RESP",
     "IRQ_PASSIVE_TARGET"}

IrqState ==
    {"STATUS_IDLE", "GETTING_CARD", "GETTING_BLOCK_AUTH", "GETTING_BLOCK_DATA",
     "WRITING_BLOCK_DATA", "WRITING_GPIO_DATA"}

BootStep ==
    {"fwWrite", "fwAck", "fwAckCheck", "fwRead", "fwDone",
     "rfWrite", "rfRead", "rfCheck", "samWrite", "samAck", "samRead", "samEnd",
     "listWrite", "listAck", "listCheck", "setPin", "park"}

CallbackStep == {"led", "write", "endRead", "endClear", "finish", "rearm"}

envVars   == <<field, seen, build>>
irqVars   == <<pn532IrqInt, pn532IrqState>>
timerVars == <<initTimer, osLoopTimer, pn532Timer, enableInterruptTimer>>
taskVars  == <<task, pc, tries, taskError>>

\* The state in which post_user_init_func leaves the firmware: the reader's
\* variables are set up and pn532Connection is due in a second.
DriverInit ==
    /\ build \in Builds
    /\ booting = TRUE
    /\ pn532IrqInt = "IRQ_IDLE"
    /\ pn532IrqState = "STATUS_IDLE"
    /\ readingBlock = PN532_READING_SSID_BLOCK
    /\ initTimer = TRUE
    /\ osLoopTimer = "off"
    /\ pn532Timer = "off"
    /\ enableInterruptTimer = FALSE
    /\ task = "none" /\ pc = "none" /\ tries = 0 /\ taskError = FALSE
    /\ isr = "none"
    /\ console = [line |-> "none", uid |-> NoCard]
    /\ seen = {}

-----------------------------------------------------------------------------

\* The task may take a step: no interrupt handler runs and none is due.
TaskTurn == isr = "none" /\ ~(pinIntr /\ gpioStatus)

TaskAt(callback, step) == TaskTurn /\ task = callback /\ pc = step

Goto(step) == pc' = step /\ UNCHANGED <<task, tries, taskError>>

TaskReturns ==
    /\ task' = "none" /\ pc' = "none"
    /\ tries' = 0 /\ taskError' = FALSE

\* MIFARE_CMD_READ of the given block.
ReadCommand(block) ==
    IF block = PN532_READING_SSID_BLOCK THEN "readSsidBlock" ELSE "readPswdBlock"
=============================================================================
