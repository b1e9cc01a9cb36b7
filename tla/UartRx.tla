------------------------------- MODULE UartRx -------------------------------
(***************************************************************************)
(* The receive side of driver/uart.c: uart0_rx_intr_handler drains the     *)
(* hardware's FIFO into a ring of RX_BUFF_SIZE bytes while further bytes   *)
(* come in.  Nothing in the repository reads the ring.  Module Uart holds  *)
(* the transmit side and what the two share.                               *)
(***************************************************************************)
EXTENDS Naturals, Sequences

CONSTANTS
    Char,           \* the bytes that come in
    CR,             \* '\r' among them
    RX_BUFF_SIZE,   \* uart.h:6
    TrigLvl,        \* the FIFO level that raises the interrupt, from ROM
    FifoDepth       \* how many bytes the hardware's FIFO holds

ASSUME UartAssumption ==
    /\ CR \in Char
    /\ RX_BUFF_SIZE \in Nat \ {0}
    /\ TrigLvl \in Nat \ {0} /\ FifoDepth \in Nat /\ TrigLvl <= FifoDepth

VARIABLES
    rxFifo,         \* the bytes in the FIFO
    intStatus,      \* UART_RXFIFO_FULL in the interrupt status register
    masked,         \* are interrupts disabled?
    isr,            \* the interrupt handler that runs: "none", "drain" (in the
                    \* loop of uart0_rx_intr_handler), "print" (in
                    \* pn532IntrHandler, which prints) or "nested" (in that
                    \* loop, on top of pn532IntrHandler)
    pRcvMsgBuff,    \* the ring
    pWritePos,      \* the index of the next byte
    BuffState,      \* "EMPTY" or "WRITE_OVER"
    arrived         \* history: the last RX_BUFF_SIZE bytes taken off the FIFO

ring == <<pRcvMsgBuff, pWritePos, BuffState, arrived>>
rxVars == <<rxFifo, intStatus, ring>>

\* As uart_init leaves it; BuffState is what the ROM has put there.
RxInit ==
    /\ rxFifo = <<>> /\ intStatus = FALSE /\ masked = FALSE /\ isr = "none"
    /\ pRcvMsgBuff \in [0..RX_BUFF_SIZE - 1 -> {CR}]
    /\ pWritePos = 0 /\ BuffState = "EMPTY"
    /\ arrived = <<>>

-----------------------------------------------------------------------------

\* A byte comes in.  The status is latched when the FIFO fills up to the level;
\* a byte that finds it full is lost.
ByteComes(c) ==
    /\ IF Len(rxFifo) < FifoDepth
          THEN /\ rxFifo' = Append(rxFifo, c)
               /\ intStatus' = (intStatus \/ Len(rxFifo') = TrigLvl)
          ELSE UNCHANGED <<rxFifo, intStatus>>
    /\ UNCHANGED <<masked, isr, ring>>

Draining == isr \in {"drain", "nested"}

\* The handler looks at the status and clears it.  It may come on top of the
\* GPIO handler, in which brzo_i2c has lowered the interrupt level (RSIL 0).
HandlerEnters ==
    /\ isr \in {"none", "print"} /\ ~masked /\ intStatus
    /\ intStatus' = FALSE
    /\ isr' = IF isr = "print" THEN "nested" ELSE "drain"
    /\ UNCHANGED <<rxFifo, masked, ring>>

\* A slip to test against: the end of the ring is looked for too late.
NextPosLate(pos) == IF pos = RX_BUFF_SIZE THEN 0 ELSE pos + 1

\* The position after pos: the ring wraps, whatever it still holds.
NextPos(pos) == IF pos + 1 = RX_BUFF_SIZE THEN 0 ELSE pos + 1

\* Another: the position moves on before the byte is stored.
StoresAfter(RcvChar) ==
    /\ pRcvMsgBuff' = [pRcvMsgBuff EXCEPT ![NextPos(pWritePos)] = RcvChar]
    /\ BuffState' = IF RcvChar = CR THEN "WRITE_OVER" ELSE BuffState
    /\ pWritePos' = NextPos(pWritePos)
    /\ arrived' = Append(IF Len(arrived) < RX_BUFF_SIZE
                            THEN arrived ELSE Tail(arrived), RcvChar)

Stores(RcvChar) ==
    /\ pRcvMsgBuff' = [pRcvMsgBuff EXCEPT ![pWritePos] = RcvChar]
    /\ BuffState' = IF RcvChar = CR THEN "WRITE_OVER" ELSE BuffState
    /\ pWritePos' = NextPos(pWritePos)
    /\ arrived' = Append(IF Len(arrived) < RX_BUFF_SIZE
                            THEN arrived ELSE Tail(arrived), RcvChar)

\* What the handler returns to.
Interrupted == IF isr = "nested" THEN "print" ELSE "none"

\* A slip to test against: the handler takes one byte per interrupt.
TakesOneByte ==
    /\ Draining /\ rxFifo # <<>>
    /\ Stores(Head(rxFifo))
    /\ rxFifo' = Tail(rxFifo)
    /\ isr' = Interrupted
    /\ UNCHANGED <<intStatus, masked>>

\* One round of its loop.
TakesByte ==
    /\ Draining /\ rxFifo # <<>>
    /\ Stores(Head(rxFifo))
    /\ rxFifo' = Tail(rxFifo)
    /\ UNCHANGED <<intStatus, masked, isr>>

HandlerReturns ==
    /\ Draining /\ rxFifo = <<>>
    /\ isr' = Interrupted
    /\ UNCHANGED <<rxFifo, intStatus, masked, ring>>

-----------------------------------------------------------------------------
(* Properties.                                                             *)

\* The write position never leaves the ring.
RxTypeOK ==
    /\ rxFifo \in Seq(Char) /\ Len(rxFifo) <= FifoDepth
    /\ intStatus \in BOOLEAN /\ masked \in BOOLEAN /\ isr \in {"none", "drain", "print", "nested"}
    /\ pRcvMsgBuff \in [0..RX_BUFF_SIZE - 1 -> Char]
    /\ pWritePos \in 0..RX_BUFF_SIZE - 1
    /\ BuffState \in {"EMPTY", "WRITE_OVER"}

\* The position i bytes before pos.
Back(pos, i) == IF i <= pos THEN pos - i ELSE pos + RX_BUFF_SIZE - i

\* Going back from the write position the ring holds the bytes that have been
\* received last, in order, however often it has wrapped.
RingHoldsLatest ==
    \A i \in 1..Len(arrived) :
        pRcvMsgBuff[Back(pWritePos, i)] = arrived[Len(arrived) + 1 - i]

\* No interrupt is lost: outside the handler, a FIFO filled to the level always
\* has its status latched, also when the bytes came while the handler was
\* running or interrupts were disabled.
NoByteStuck == ~Draining /\ Len(rxFifo) >= TrigLvl => intStatus

\* Every byte that comes in while the FIFO is filled to the level is on its
\* way into the ring: the handler runs sooner or later.
Served == Len(rxFifo) >= TrigLvl ~> Draining
=============================================================================
