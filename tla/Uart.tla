-------------------------------- MODULE Uart --------------------------------
(***************************************************************************)
(* driver/uart.c: the ring that UART0 is received into (module UartRx) and *)
(* the printing through UART1, which uart_init installs as the putc of     *)
(* every ets_uart_printf.  Both the SDK task and the GPIO interrupt        *)
(* handler of the reader print, and neither knows of the other: the        *)
(* handler may come between any two steps of the task, and the receive     *)
(* interrupt between any two of either: while pn532IntrHandler prints it   *)
(* waits only until a call of brzo_i2c has lowered the interrupt level, so *)
(* it is let in there at any time.                                         *)
(***************************************************************************)
EXTENDS UartRx, SequencesExt

CONSTANTS
    LF,             \* '\n'
    Text,           \* what each printer prints, a sequence of characters
    TX_LIMIT,       \* the 126 of uart1_tx_one_char
    TX_DEPTH        \* how many characters the transmit FIFO holds, 128

Printer == {"task", "handler"}

ASSUME TxAssumption ==
    /\ Text \in [Printer -> Seq(Char \cup {LF})]
    /\ LF \notin Char
    /\ TX_LIMIT \in Nat \ {0} /\ TX_DEPTH \in Nat /\ TX_LIMIT < TX_DEPTH

VARIABLES
    txFifo,         \* the transmit FIFO, characters tagged with their printer
    sent,           \* history: the characters that have left it
    todo,           \* what each printer has still to print
    current,        \* what is left to send of the character being printed
    step            \* "idle", or at the "look" or the "put" of
                    \* uart1_tx_one_char

txVars == <<txFifo, sent, todo, current, step>>
vars   == <<rxVars, masked, isr, txVars>>

Init ==
    /\ RxInit
    /\ txFifo = <<>> /\ sent = <<>>
    /\ todo = Text
    /\ current = [p \in Printer |-> <<>>]
    /\ step = [p \in Printer |-> "idle"]

-----------------------------------------------------------------------------
(* Printing.                                                               *)

\* The characters that uart1_write_char makes of one.
Translated(c) ==
    CASE c = LF -> <<CR, LF>>
      [] c = CR -> <<>>
      [] OTHER  -> <<c>>

Running(p) ==
    IF p = "handler" THEN isr = "print" ELSE isr = "none" /\ ~masked

StepTo(p, s) == step' = [step EXCEPT ![p] = s]

Begins(p) ==
    /\ todo[p] # <<>>
    /\ todo' = [todo EXCEPT ![p] = Tail(@)]
    /\ current' = [current EXCEPT ![p] = Translated(Head(todo[p]))]
    /\ StepTo(p, IF Translated(Head(todo[p])) = <<>> THEN "idle" ELSE "look")

uart1_write_char(p) ==
    /\ Running(p) /\ step[p] = "idle"
    /\ Begins(p)
    /\ UNCHANGED <<txFifo, sent, rxVars, masked, isr>>

\* Two slips to test against: a FIFO filled to its depth, and a status register
\* that is read only once.
FifoHasRoomAtDepth(p) ==
    /\ Running(p) /\ step[p] = "look" /\ Len(txFifo) < TX_DEPTH
    /\ StepTo(p, "put")
    /\ UNCHANGED <<txFifo, sent, todo, current, rxVars, masked, isr>>

FifoHasRoomOnce(p) ==
    /\ Running(p) /\ step[p] = "look"
    /\ StepTo(p, IF Len(txFifo) < TX_LIMIT THEN "put" ELSE "spin")
    /\ UNCHANGED <<txFifo, sent, todo, current, rxVars, masked, isr>>

\* The loop of uart1_tx_one_char is left.
FifoHasRoom(p) ==
    /\ Running(p) /\ step[p] = "look" /\ Len(txFifo) < TX_LIMIT
    /\ StepTo(p, "put")
    /\ UNCHANGED <<txFifo, sent, todo, current, rxVars, masked, isr>>

\* Its write to the FIFO, which is lost when the FIFO is full.
WriteFifo(p) ==
    /\ Running(p) /\ step[p] = "put"
    /\ txFifo' = IF Len(txFifo) < TX_DEPTH
                    THEN Append(txFifo, [by |-> p, c |-> Head(current[p])])
                    ELSE txFifo
    /\ current' = [current EXCEPT ![p] = Tail(@)]
    /\ StepTo(p, IF Tail(current[p]) = <<>> THEN "idle" ELSE "look")
    /\ UNCHANGED <<sent, todo, rxVars, masked, isr>>

Prints(p) == uart1_write_char(p) \/ FifoHasRoom(p) \/ WriteFifo(p)

\* The line takes a character.
Shifts ==
    /\ txFifo # <<>>
    /\ sent' = Append(sent, Head(txFifo))
    /\ txFifo' = Tail(txFifo)
    /\ UNCHANGED <<todo, current, step, rxVars, masked, isr>>

-----------------------------------------------------------------------------
(* What the two sides share: one interrupt level.                          *)

\* The GPIO interrupt prints a part of its text, and returns.
PrinterEnters ==
    /\ isr = "none" /\ ~masked
    /\ isr' = "print"
    /\ Begins("handler")
    /\ UNCHANGED <<txFifo, sent, rxVars, masked>>

PrinterReturns ==
    /\ isr = "print" /\ step["handler"] = "idle"
    /\ isr' = "none"
    /\ UNCHANGED <<rxVars, masked, txVars>>

\* The task enters or leaves a call of brzo_i2c, which disables interrupts.
Mask ==
    /\ isr = "none" /\ step["task"] = "idle"
    /\ masked' = ~masked
    /\ UNCHANGED <<rxVars, isr, txVars>>

ByteArrives(c) == ByteComes(c) /\ UNCHANGED <<masked, isr, txVars>>

Receiver ==
    /\ HandlerEnters \/ TakesByte \/ HandlerReturns
    /\ UNCHANGED <<masked, txVars>>

Next ==
    \/ \E c \in Char : ByteArrives(c)
    \/ Receiver
    \/ \E p \in Printer : Prints(p)
    \/ Shifts
    \/ PrinterEnters \/ PrinterReturns
    \/ Mask

Spec == Init /\ [][Next]_vars

\* Fairness.  Code that has begun to run goes on, and the line takes what is in
\* the FIFO.  The task leaves brzo_i2c again.  An interrupt that is enabled
\* again and again is taken, the receive handler sees when the FIFO is empty,
\* and the GPIO handler runs when the receive handler does not, the task when
\* neither does.  Nothing makes bytes come in.
Fairness ==
    /\ WF_vars(Draining /\ Receiver)
    /\ SF_vars(Draining /\ rxFifo = <<>> /\ Receiver)
    /\ SF_vars(isr = "none" /\ Receiver)
    /\ SF_vars(Prints("handler"))
    /\ SF_vars(PrinterReturns)
    /\ SF_vars(Prints("task"))
    /\ SF_vars(PrinterEnters)
    /\ WF_vars(masked /\ Mask)
    /\ WF_vars(Shifts)

FairSpec == Spec /\ Fairness

-----------------------------------------------------------------------------
(* Properties.                                                             *)

Tagged == [by : Printer, c : Char \cup {LF}]

\* Every variable keeps to its type; the ring's write position stays inside it.
TypeOK ==
    /\ RxTypeOK
    /\ txFifo \in Seq(Tagged) /\ sent \in Seq(Tagged)
    /\ todo \in [Printer -> Seq(Char \cup {LF})]
    /\ current \in [Printer -> Seq(Char \cup {LF})]
    /\ step \in [Printer -> {"idle", "look", "put"}]

\* However the two printers interleave, at most one character more than the
\* limit gets into the transmit FIFO: the one for which the task had found room
\* before the handler came.
AtMostOneMore == Len(txFifo) <= TX_LIMIT + 1

\* What p has put into the FIFO, of all that has left it or is still in it.
Reached(p) ==
    LET put == sent \o txFifo
    IN  FlattenSeq([i \in DOMAIN put |-> IF put[i].by = p THEN <<put[i].c>> ELSE <<>>])

\* All that uart1_write_char makes of a text.
Written(text) == FlattenSeq([i \in DOMAIN text |-> Translated(text[i])])

\* No character of either printer is lost, doubled or put out of order, though
\* the two share the FIFO: what has reached it, what is under way and what is
\* still to come always make up the printer's whole text.
NothingLost ==
    \A p \in Printer :
        Reached(p) \o current[p] \o Written(todo[p]) = Written(Text[p])

\* Everything gets printed, although each printer waits for room that only the
\* line can make: as long as the receive handler keeps up with what comes in.
AllPrinted ==
    []<>(rxFifo = <<>>) => <>(todo = [p \in Printer |-> <<>>] /\ txFifo = <<>>)
=============================================================================
