----------------------------- MODULE UartProofs -----------------------------
(***************************************************************************)
(* Proofs about module Uart, for every size of the ring and of the FIFOs   *)
(* and for all texts.                                                      *)
(***************************************************************************)
EXTENDS Uart, SequenceTheorems, WellFoundedInduction, TLAPS

\* What a printer that is about to write knows about the FIFO.  The handler,
\* which no printer preempts, still has the room it has seen; of the task's room
\* the handler may have used all but the limit's last place.
RoomKept ==
    /\ \A p \in Printer : step[p] # "idle" => current[p] # <<>>
    /\ step["handler"] # "idle" => isr \in {"print", "nested"}
    /\ step["handler"] = "put" => Len(txFifo) < TX_LIMIT
    /\ step["task"] = "put" => Len(txFifo) <= TX_LIMIT

TxInv == TypeOK /\ RoomKept /\ AtMostOneMore

-----------------------------------------------------------------------------

\* What uart1_write_char sends for a character are characters again.
LEMMA TranslatedType ==
    ASSUME NEW c \in Char \cup {LF}
    PROVE  Translated(c) \in Seq(Char \cup {LF})
<1> DEFINE S == Char \cup {LF}
<1>1. CR \in S /\ LF \in S /\ c \in S
    BY UartAssumption
<1>2. <<CR, LF>> \in Seq(S) /\ <<>> \in Seq(S) /\ <<c>> \in Seq(S)
    BY <1>1
<1> QED BY <1>2 DEF Translated

\* The write position stays inside the ring when it moves on.
LEMMA NextPosType ==
    ASSUME NEW pos \in 0..RX_BUFF_SIZE - 1
    PROVE  NextPos(pos) \in 0..RX_BUFF_SIZE - 1
BY UartAssumption DEF NextPos

\* Every step of the receive side keeps its part of the types.
LEMMA RxTypeStep ==
    ASSUME RxTypeOK,
           (\E c \in Char : ByteComes(c))
               \/ HandlerEnters \/ TakesByte \/ HandlerReturns
    PROVE  RxTypeOK'
<1> USE DEF RxTypeOK
<1>1. ASSUME NEW c \in Char, ByteComes(c)
      PROVE  RxTypeOK'
    <2>1. CASE Len(rxFifo) < FifoDepth
        <3>1. rxFifo' \in Seq(Char) /\ Len(rxFifo') = Len(rxFifo) + 1
            BY <1>1, <2>1 DEF ByteComes
        <3>2. intStatus' \in BOOLEAN
            BY <1>1, <2>1, Zenon DEF ByteComes
        <3> QED BY <1>1, <2>1, <3>1, <3>2, UartAssumption DEF ByteComes, ring
    <2>2. CASE ~(Len(rxFifo) < FifoDepth)
        BY <1>1, <2>2 DEF ByteComes, ring
    <2> QED BY <2>1, <2>2
<1>2. CASE HandlerEnters
    BY <1>2 DEF HandlerEnters, ring
<1>3. CASE TakesByte
    <2>1. Head(rxFifo) \in Char /\ rxFifo' \in Seq(Char)
            /\ Len(rxFifo') <= FifoDepth
        BY <1>3, UartAssumption DEF TakesByte
    <2>2. pRcvMsgBuff' \in [0..RX_BUFF_SIZE - 1 -> Char]
        BY <1>3, <2>1 DEF TakesByte, Stores
    <2>3. pWritePos' \in 0..RX_BUFF_SIZE - 1
        BY <1>3, NextPosType DEF TakesByte, Stores
    <2>4. BuffState' \in {"EMPTY", "WRITE_OVER"}
        BY <1>3 DEF TakesByte, Stores
    <2> QED BY <1>3, <2>1, <2>2, <2>3, <2>4 DEF TakesByte
<1>4. CASE HandlerReturns
    BY <1>4 DEF HandlerReturns, Interrupted, ring
<1> QED BY <1>1, <1>2, <1>3, <1>4

-----------------------------------------------------------------------------

\* The state that uart_init leaves satisfies the invariant.
LEMMA TxInvInit ==
    Init => TxInv
<1> SUFFICES ASSUME Init PROVE TxInv
    OBVIOUS
<1>1. RxTypeOK
    BY UartAssumption DEF Init, RxInit, RxTypeOK
<1>2. TypeOK
    BY <1>1, TxAssumption DEF Init, TypeOK, Tagged
<1> QED
    BY <1>2, TxAssumption DEF Init, TxInv, RoomKept, AtMostOneMore, Printer

\* A printer that takes up its next character keeps the types.
LEMMA BeginsType ==
    ASSUME TypeOK, NEW p \in Printer, Begins(p)
    PROVE  /\ todo' \in [Printer -> Seq(Char \cup {LF})]
           /\ current' \in [Printer -> Seq(Char \cup {LF})]
           /\ step' \in [Printer -> {"idle", "look", "put"}]
           /\ step'[p] # "put"
           /\ step'[p] # "idle" => current'[p] # <<>>
           /\ \A q \in Printer \ {p} :
                step'[q] = step[q] /\ current'[q] = current[q]
<1>1. todo[p] \in Seq(Char \cup {LF}) /\ todo[p] # <<>>
    BY DEF TypeOK, Begins
<1>2. Head(todo[p]) \in Char \cup {LF} /\ Tail(todo[p]) \in Seq(Char \cup {LF})
    BY <1>1
<1>3. Translated(Head(todo[p])) \in Seq(Char \cup {LF})
    BY <1>2, TranslatedType
<1>4. todo' \in [Printer -> Seq(Char \cup {LF})]
    BY <1>2 DEF TypeOK, Begins
<1>5. current' \in [Printer -> Seq(Char \cup {LF})]
    BY <1>3 DEF TypeOK, Begins
<1>6. /\ step' \in [Printer -> {"idle", "look", "put"}]
      /\ step'[p] # "put"
      /\ step'[p] # "idle" => current'[p] # <<>>
      /\ \A q \in Printer \ {p} :
            step'[q] = step[q] /\ current'[q] = current[q]
    BY DEF TypeOK, Begins, StepTo
<1> QED BY <1>4, <1>5, <1>6

\* The printing steps keep the invariant.
LEMMA PrintsKeep ==
    ASSUME TxInv, NEW p \in Printer, Prints(p)
    PROVE  TxInv'
<1> USE DEF TxInv
<1> RxTypeOK'
    BY DEF Prints, uart1_write_char, FifoHasRoom, WriteFifo, rxVars, ring,
           TypeOK, RxTypeOK
<1>1. CASE uart1_write_char(p)
    <2>1. TypeOK'
        BY <1>1, BeginsType DEF uart1_write_char, TypeOK
    <2>2. /\ isr' = isr /\ txFifo' = txFifo
          /\ p = "handler" => isr = "print"
        BY <1>1 DEF uart1_write_char, Running
    <2>3. /\ step'[p] # "put"
          /\ step'[p] # "idle" => current'[p] # <<>>
          /\ \A q \in Printer \ {p} :
                step'[q] = step[q] /\ current'[q] = current[q]
        BY <1>1, BeginsType DEF uart1_write_char
    <2>4. RoomKept' /\ AtMostOneMore'
        BY <2>2, <2>3 DEF RoomKept, AtMostOneMore, Printer
    <2> QED BY <2>1, <2>4
<1>2. CASE FifoHasRoom(p)
    <2>1. TypeOK'
        BY <1>2 DEF FifoHasRoom, StepTo, TypeOK
    <2>2. RoomKept' /\ AtMostOneMore'
        BY <1>2, TxAssumption DEF FifoHasRoom, StepTo, Running, RoomKept,
           AtMostOneMore, Printer, TypeOK
    <2> QED BY <2>1, <2>2
<1>3. CASE WriteFifo(p)
    <2> DEFINE t == [by |-> p, c |-> Head(current[p])]
    <2>1. current[p] \in Seq(Char \cup {LF}) /\ current[p] # <<>>
        BY <1>3 DEF TypeOK, RoomKept, WriteFifo
    <2>2. /\ Head(current[p]) \in Char \cup {LF}
          /\ Tail(current[p]) \in Seq(Char \cup {LF})
        BY <2>1
    <2>3. t \in Tagged
        BY <2>2 DEF Tagged
    <2>4. txFifo' \in Seq(Tagged) /\ Len(txFifo') <= Len(txFifo) + 1
        BY <1>3, <2>3 DEF WriteFifo, TypeOK
    <2>5. current' \in [Printer -> Seq(Char \cup {LF})]
        BY <1>3, <2>2 DEF WriteFifo, TypeOK
    <2>6. /\ step' \in [Printer -> {"idle", "look", "put"}]
          /\ step'[p] # "put"
          /\ step'[p] # "idle" => current'[p] # <<>>
          /\ \A q \in Printer \ {p} : step'[q] = step[q] /\ current'[q] = current[q]
        BY <1>3 DEF WriteFifo, StepTo, TypeOK
    <2>7. TypeOK'
        BY <1>3, <2>4, <2>5, <2>6 DEF WriteFifo, TypeOK
    <2>8. RoomKept' /\ AtMostOneMore'
        BY <1>3, <2>4, <2>6, TxAssumption DEF WriteFifo, Running, RoomKept,
           AtMostOneMore, Printer, TypeOK
    <2> QED BY <2>7, <2>8
<1> QED BY <1>1, <1>2, <1>3 DEF Prints

\* Every step keeps the invariant.
LEMMA TxInvStep ==
    TxInv /\ [Next]_vars => TxInv'
<1> SUFFICES ASSUME TxInv, [Next]_vars PROVE TxInv'
    OBVIOUS
<1> USE DEF TxInv
<1>1. ASSUME NEW c \in Char, ByteArrives(c)
      PROVE  TxInv'
    <2>1. RxTypeOK'
        BY <1>1, RxTypeStep DEF ByteArrives, TypeOK
    <2> QED BY <1>1, <2>1 DEF ByteArrives, txVars, TypeOK, RoomKept, AtMostOneMore
<1>2. CASE Receiver
    <2>1. RxTypeOK'
        BY <1>2, RxTypeStep DEF Receiver, TypeOK
    <2>2. step["handler"] = "idle" \/ isr' \in {"print", "nested"}
        BY <1>2 DEF Receiver, HandlerEnters, TakesByte, HandlerReturns, Draining,
           Interrupted, RoomKept
    <2> QED BY <1>2, <2>1, <2>2 DEF Receiver, txVars, TypeOK, RoomKept,
            AtMostOneMore, Printer
<1>3. ASSUME NEW p \in Printer, Prints(p)
      PROVE  TxInv'
    BY <1>3, PrintsKeep
<1>4. CASE Shifts
    <2>1. txFifo \in Seq(Tagged) /\ txFifo # <<>>
        BY <1>4 DEF Shifts, TypeOK
    <2>2. /\ Head(txFifo) \in Tagged
          /\ Tail(txFifo) \in Seq(Tagged) /\ Len(Tail(txFifo)) = Len(txFifo) - 1
        BY <2>1
    <2>3. TypeOK'
        BY <1>4, <2>2 DEF Shifts, TypeOK, RxTypeOK, rxVars, ring
    <2> QED BY <1>4, <2>1, <2>2, <2>3, TxAssumption DEF Shifts, RoomKept, AtMostOneMore
<1>5. CASE PrinterEnters
    <2>1. "handler" \in Printer
        BY DEF Printer
    <2>2. RxTypeOK'
        BY <1>5 DEF PrinterEnters, rxVars, ring, TypeOK, RxTypeOK
    <2>3. TypeOK'
        BY <1>5, <2>1, <2>2, BeginsType DEF PrinterEnters, TypeOK
    <2> QED BY <1>5, <2>1, <2>3, BeginsType
            DEF PrinterEnters, RoomKept, AtMostOneMore, Printer
<1>6. CASE PrinterReturns
    <2>1. TypeOK'
        BY <1>6 DEF PrinterReturns, txVars, rxVars, ring, TypeOK, RxTypeOK
    <2> QED BY <1>6, <2>1 DEF PrinterReturns, txVars, RoomKept, AtMostOneMore
<1>7. CASE Mask
    <2>1. TypeOK'
        BY <1>7, Zenon DEF Mask, txVars, rxVars, ring, TypeOK, RxTypeOK
    <2> QED BY <1>7, <2>1 DEF Mask, txVars, RoomKept, AtMostOneMore
<1>8. CASE UNCHANGED vars
    BY <1>8 DEF vars, txVars, rxVars, ring, TypeOK, RxTypeOK, RoomKept, AtMostOneMore
<1> QED BY <1>1, <1>2, <1>3, <1>4, <1>5, <1>6, <1>7, <1>8 DEF Next

\* Types are kept: the ring's write position never leaves the ring
\* (uart.c:138-141), whatever its size.
THEOREM TypeCorrect == Spec => []TypeOK
<1>1. TxInv => TypeOK
    BY DEF TxInv
<1> QED BY <1>1, TxInvInit, TxInvStep, PTL DEF Spec

\* The task and the handler together put at most one character more into the
\* transmit FIFO than uart1_tx_one_char means to (uart.c:72-78), so that the two
\* places between 126 and 128 are enough.
THEOREM FifoBounded == Spec => []AtMostOneMore
<1>1. TxInv => AtMostOneMore
    BY DEF TxInv
<1> QED BY <1>1, TxInvInit, TxInvStep, PTL DEF Spec

-----------------------------------------------------------------------------

\* Every step keeps pending what is pending.
LEMMA NoByteStuckStep ==
    TypeOK /\ NoByteStuck /\ [Next]_vars => NoByteStuck'
<1> SUFFICES ASSUME TypeOK, NoByteStuck, [Next]_vars PROVE NoByteStuck'
    OBVIOUS
<1> USE DEF NoByteStuck, Draining
<1>1. ASSUME NEW c \in Char, ByteArrives(c)
      PROVE  NoByteStuck'
    <2>1. Len(rxFifo) < FifoDepth => Len(rxFifo') = Len(rxFifo) + 1
        BY <1>1 DEF ByteArrives, ByteComes, TypeOK, RxTypeOK
    <2>2. Len(rxFifo) \in Nat
        BY DEF TypeOK, RxTypeOK
    <2>3. CASE Len(rxFifo) < FifoDepth /\ Len(rxFifo) + 1 = TrigLvl
        <3>1. intStatus'
            BY <1>1, <2>1, <2>3 DEF ByteArrives, ByteComes
        <3> QED BY <3>1
    <2>4. CASE ~(Len(rxFifo) < FifoDepth /\ Len(rxFifo) + 1 = TrigLvl)
        <3>1. Len(rxFifo') >= TrigLvl => Len(rxFifo) >= TrigLvl
            BY <1>1, <2>1, <2>2, <2>4, UartAssumption DEF ByteArrives, ByteComes
        <3>2. isr' = isr /\ (intStatus => intStatus')
            BY <1>1, Zenon DEF ByteArrives, ByteComes
        <3> QED BY <3>1, <3>2, Zenon
    <2> QED BY <2>3, <2>4
<1>2. CASE Receiver
    BY <1>2, UartAssumption
       DEF Receiver, HandlerEnters, TakesByte, HandlerReturns, Interrupted,
           TypeOK, RxTypeOK
<1>3. CASE (\E p \in Printer : Prints(p)) \/ Shifts \/ Mask
    BY <1>3 DEF Prints, uart1_write_char, FifoHasRoom, WriteFifo, Shifts, Mask,
       rxVars
<1>4. CASE PrinterEnters \/ PrinterReturns
    BY <1>4 DEF PrinterEnters, PrinterReturns, rxVars
<1>5. CASE UNCHANGED vars
    BY <1>5 DEF vars, rxVars
<1> QED BY <1>1, <1>2, <1>3, <1>4, <1>5 DEF Next

\* A receive FIFO filled to its trigger level always has its interrupt pending
\* or its handler running: clearing the status before the loop (uart.c:120)
\* loses nothing, for every trigger level and depth.
THEOREM NothingStuck == Spec => []NoByteStuck
<1>1. Init => NoByteStuck
    BY UartAssumption DEF Init, RxInit, NoByteStuck
<1> QED BY <1>1, TypeCorrect, NoByteStuckStep, PTL DEF Spec

-----------------------------------------------------------------------------

\* The ring's contents, with the length of the history that they match.
RingInv ==
    /\ arrived \in Seq(Char) /\ Len(arrived) <= RX_BUFF_SIZE
    /\ RingHoldsLatest

\* A byte that moves in front of the others moves them one place back.
LEMMA BackSteps ==
    ASSUME NEW pos \in 0..RX_BUFF_SIZE - 1, NEW i \in 1..RX_BUFF_SIZE
    PROVE  /\ i = 1 => Back(NextPos(pos), i) = pos
           /\ i > 1 => /\ Back(NextPos(pos), i) = Back(pos, i - 1)
                       /\ Back(pos, i - 1) # pos
           /\ Back(NextPos(pos), i) \in 0..RX_BUFF_SIZE - 1
BY UartAssumption DEF Back, NextPos

\* Storing a byte keeps the ring and its history in step.
LEMMA StoresKeepsRing ==
    ASSUME RxTypeOK, RingInv, NEW c \in Char, Stores(c)
    PROVE  RingInv'
<1> USE DEF RingInv
<1> DEFINE L == Len(arrived)
           kept == IF L < RX_BUFF_SIZE THEN arrived ELSE Tail(arrived)
<1>1. L \in Nat /\ L <= RX_BUFF_SIZE
    OBVIOUS
<1>2. /\ kept \in Seq(Char)
      /\ Len(kept) = IF L < RX_BUFF_SIZE THEN L ELSE L - 1
      /\ \A j \in 1..Len(kept) :
            kept[j] = IF L < RX_BUFF_SIZE THEN arrived[j] ELSE arrived[j + 1]
    <2>1. CASE L < RX_BUFF_SIZE
        BY <1>1, <2>1
    <2>2. CASE ~(L < RX_BUFF_SIZE)
        <3>1. arrived # <<>>
            BY <1>1, <2>2, UartAssumption
        <3>2. /\ Tail(arrived) \in Seq(Char) /\ Len(Tail(arrived)) = L - 1
              /\ \A j \in 1..L - 1 : Tail(arrived)[j] = arrived[j + 1]
            BY <1>1, <3>1
        <3> QED BY <2>2, <3>2
    <2> QED BY <2>1, <2>2
<1> HIDE DEF kept
<1>3. arrived' = Append(kept, c)
    BY DEF Stores, kept
<1>4. /\ arrived' \in Seq(Char)
      /\ Len(arrived') = Len(kept) + 1
      /\ arrived'[Len(kept) + 1] = c
      /\ \A j \in 1..Len(kept) : arrived'[j] = kept[j]
    BY <1>2, <1>3
<1>5. Len(arrived') <= RX_BUFF_SIZE
    BY <1>1, <1>2, <1>4, UartAssumption
<1>6. /\ pWritePos \in 0..RX_BUFF_SIZE - 1
      /\ pWritePos' = NextPos(pWritePos)
      /\ pRcvMsgBuff'[pWritePos] = c
      /\ \A j \in 0..RX_BUFF_SIZE - 1 :
            j # pWritePos => pRcvMsgBuff'[j] = pRcvMsgBuff[j]
    BY DEF Stores, RxTypeOK
<1>7. ASSUME NEW i \in 1..Len(arrived')
      PROVE  pRcvMsgBuff'[Back(pWritePos', i)] = arrived'[Len(arrived') + 1 - i]
    <2>1. i \in 1..RX_BUFF_SIZE
        BY <1>2, <1>4, <1>5, UartAssumption
    <2>2. CASE i = 1
        BY <1>4, <1>6, <2>1, <2>2, <1>2, BackSteps
    <2>3. CASE i > 1
        <3>1. i - 1 \in 1..L /\ i - 1 \in 1..Len(kept)
            BY <1>1, <1>2, <1>4, <2>3
        <3>2. Back(pWritePos', i) = Back(pWritePos, i - 1)
            BY <1>6, <2>1, <2>3, BackSteps
        <3>3. pRcvMsgBuff'[Back(pWritePos', i)] = pRcvMsgBuff[Back(pWritePos, i - 1)]
            BY <1>6, <2>1, <2>3, <3>2, BackSteps
        <3>4. pRcvMsgBuff[Back(pWritePos, i - 1)] = arrived[L + 1 - (i - 1)]
            BY <3>1 DEF RingHoldsLatest
        <3>5. arrived'[Len(arrived') + 1 - i] = kept[Len(kept) + 2 - i]
            <4>1. Len(arrived') + 1 - i = Len(kept) + 2 - i
                BY <1>1, <1>2, <1>4, <3>1
            <4>2. Len(kept) + 2 - i \in 1..Len(kept)
                BY <1>1, <1>2, <2>3, <3>1
            <4> QED BY <1>4, <4>1, <4>2
        <3>6. kept[Len(kept) + 2 - i] = arrived[L + 2 - i]
            BY <1>1, <1>2, <3>1
        <3> QED BY <1>1, <3>1, <3>3, <3>4, <3>5, <3>6
    <2> QED BY <1>2, <1>4, <2>2, <2>3
<1> QED BY <1>4, <1>5, <1>7 DEF RingHoldsLatest

\* Every step keeps the ring in step with the history.
LEMMA RingInvStep ==
    TypeOK /\ RingInv /\ [Next]_vars => RingInv'
<1> SUFFICES ASSUME TypeOK, RingInv, [Next]_vars PROVE RingInv'
    OBVIOUS
<1>1. CASE Receiver /\ TakesByte
    <2>1. Head(rxFifo) \in Char
        BY <1>1 DEF TakesByte, TypeOK, RxTypeOK
    <2> QED BY <1>1, <2>1, StoresKeepsRing DEF TakesByte, TypeOK
<1>2. CASE UNCHANGED ring
    BY <1>2 DEF ring, RingInv, RingHoldsLatest
<1>3. UNCHANGED ring \/ (Receiver /\ TakesByte)
    BY DEF Next, vars, rxVars, ByteArrives, ByteComes, Receiver, HandlerEnters,
       HandlerReturns, Prints, uart1_write_char, FifoHasRoom, WriteFifo, Shifts,
       PrinterEnters, PrinterReturns, Mask
<1> QED BY <1>1, <1>2, <1>3

\* The ring is right about the last RX_BUFF_SIZE bytes however often it has
\* wrapped (uart.c:130-142), for every size of it.
THEOREM RingRight == Spec => []RingHoldsLatest
<1>1. Init => RingInv
    BY UartAssumption DEF Init, RxInit, RingInv, RingHoldsLatest
<1>2. RingInv => RingHoldsLatest
    BY DEF RingInv
<1> QED BY <1>1, <1>2, TypeCorrect, RingInvStep, PTL DEF Spec

-----------------------------------------------------------------------------
(* Sequences joined one behind the other.                                  *)

\* Induction over the numbers, for a set in the place of a predicate.
LEMMA SetInduction ==
    ASSUME NEW T, 0 \in T, \A n \in Nat : n \in T => n + 1 \in T
    PROVE  Nat \subseteq T
<1> DEFINE R == OpToRel(<, Nat)
           U == Nat \ T
<1>1. \A x \in Nat, y \in Nat : <<x, y>> \in R <=> x < y
    BY DEF OpToRel
<1>2. SUFFICES ASSUME U # {} PROVE FALSE
    OBVIOUS
<1>3. IsWellFoundedOn(R, Nat)
    BY NatLessThanWellFounded
<1>4. U \subseteq Nat
    OBVIOUS
<1> HIDE DEF R, U
<1>5. \E x \in U : \A y \in U : ~ (<<y, x>> \in R)
    BY <1>2, <1>3, <1>4, WFMin, Zenon
<1> USE DEF U
<1>6. PICK x \in U : \A y \in U : ~ (y < x)
    BY <1>1, <1>4, <1>5
<1>7. x # 0 /\ x \in Nat
    OBVIOUS
<1>8. x - 1 \in Nat /\ x - 1 < x /\ (x - 1) + 1 = x
    BY <1>7
<1>9. x - 1 \in T
    BY <1>6, <1>8
<1> QED BY <1>6, <1>8, <1>9

\* s \o t, named so that the provers need not look into it.
Cat(s, t) == s \o t

LEMMA CatFacts ==
    ASSUME NEW S
    PROVE  /\ <<>> \in Seq(S)
           /\ \A s \in Seq(S) : Cat(s, <<>>) = s /\ Cat(<<>>, s) = s
           /\ \A s, t \in Seq(S) : Cat(s, t) \in Seq(S)
           /\ \A s, t, u \in Seq(S) : Cat(Cat(s, t), u) = Cat(s, Cat(t, u))
<1>1. <<>> \in Seq(S)
    OBVIOUS
<1>2. ASSUME NEW s \in Seq(S) PROVE Cat(s, <<>>) = s /\ Cat(<<>>, s) = s
    BY DEF Cat
<1>3. ASSUME NEW s \in Seq(S), NEW t \in Seq(S) PROVE Cat(s, t) \in Seq(S)
    BY DEF Cat
<1>4. ASSUME NEW s \in Seq(S), NEW t \in Seq(S), NEW u \in Seq(S)
      PROVE  Cat(Cat(s, t), u) = Cat(s, Cat(t, u))
    BY SMTT(30) DEF Cat
<1> QED BY <1>1, <1>2, <1>3, <1>4, Zenon

\* f holds the first n of them joined.
Joins(f, ss, n) ==
    /\ f[0] = <<>>
    /\ \A i \in 1..n : f[i] = Cat(f[i - 1], ss[i])

\* There are such joints,
LEMMA JoinsExist ==
    ASSUME NEW S, NEW ss \in Seq(Seq(S))
    PROVE  \A n \in 0..Len(ss) : \E f \in [0..n -> Seq(S)] : Joins(f, ss, n)
<1> DEFINE Q == Seq(S)
           T == {n \in Nat : n <= Len(ss) => \E f \in [0..n -> Q] : Joins(f, ss, n)}
<1>1. Len(ss) \in Nat /\ \A i \in 1..Len(ss) : ss[i] \in Q
    OBVIOUS
<1>2. <<>> \in Q /\ \A x, y \in Q : Cat(x, y) \in Q
    BY CatFacts, Zenon
<1> HIDE DEF Q
<1>3. 0 \in T
    <2> DEFINE f == [i \in 0..0 |-> <<>>]
    <2>1. f \in [0..0 -> Q] /\ Joins(f, ss, 0)
        BY <1>2 DEF Joins
    <2> QED BY <2>1
<1>4. ASSUME NEW n \in Nat, n \in T PROVE n + 1 \in T
    <2>1. SUFFICES ASSUME n + 1 <= Len(ss)
                   PROVE  \E f \in [0..n + 1 -> Q] : Joins(f, ss, n + 1)
        OBVIOUS
    <2>2. PICK g \in [0..n -> Q] : Joins(g, ss, n)
        BY <1>1, <1>4, <2>1
    <2> DEFINE new == Cat(g[n], ss[n + 1])
               f == [i \in 0..n + 1 |-> IF i = n + 1 THEN new ELSE g[i]]
    <2>3. g[n] \in Q /\ ss[n + 1] \in Q
        BY <1>1, <2>1, <2>2
    <2>4. new \in Q
        BY <1>2, <2>3
    <2>5. f[0] = <<>>
        BY <2>2 DEF Joins
    <2>6. ASSUME NEW i \in 1..n + 1 PROVE f[i] = Cat(f[i - 1], ss[i])
        <3>1. CASE i = n + 1
            <4>1. f[i] = new /\ f[i - 1] = g[n]
                BY <3>1
            <4> QED BY <3>1, <4>1
        <3>2. CASE i # n + 1
            <4>1. i \in 1..n /\ f[i] = g[i] /\ f[i - 1] = g[i - 1]
                BY <3>2
            <4> QED BY <2>2, <4>1 DEF Joins
        <3> QED BY <3>1, <3>2
    <2>7. Joins(f, ss, n + 1)
        BY <2>5, <2>6 DEF Joins
    <2> HIDE DEF new
    <2>8. f \in [0..n + 1 -> Q]
        BY <2>2, <2>4
    <2> QED BY <2>7, <2>8
<1>5. Nat \subseteq T
    BY <1>3, <1>4, SetInduction
<1>6. \A n \in 0..Len(ss) : n \in Nat /\ n <= Len(ss)
    BY <1>1
<1> QED BY <1>5, <1>6, Zenon DEF Q

\* and the last of them is FlattenSeq.
LEMMA FlattenIsLast ==
    ASSUME NEW S, NEW ss \in Seq(Seq(S)), NEW f, Joins(f, ss, Len(ss))
    PROVE  FlattenSeq(ss) = f[Len(ss)]
<1> DEFINE n == Len(ss)
           Def(h) == [i \in 1..n |-> IF i = 1 THEN ss[i] ELSE Cat(h[i - 1], ss[i])]
           flatten == CHOOSE h : h = Def(h)
           g == [i \in 1..n |-> f[i]]
           T == {i \in Nat : i + 1 <= n => flatten[i + 1] = f[i + 1]}
<1>1. n \in Nat /\ \A i \in 1..n : ss[i] \in Seq(S)
    OBVIOUS
<1>2. CASE n = 0
    <2>1. ss = <<>>
        BY <1>2
    <2> QED BY <1>2, <2>1 DEF FlattenSeq, Joins
<1>3. CASE n # 0
    <2>1. f[1] = ss[1]
        <3>1. f[1] = Cat(f[0], ss[1]) /\ f[0] = <<>> /\ ss[1] \in Seq(S)
            BY <1>1, <1>3 DEF Joins
        <3> QED BY <3>1, CatFacts, Zenon
    <2>2. \A i \in 2..n : f[i] = Cat(f[i - 1], ss[i])
        BY <1>1 DEF Joins
    <2>3. FlattenSeq(ss) = flatten[n]
        BY <1>3 DEF FlattenSeq, Cat
    <2> HIDE DEF n
    <2>4. g = Def(g)
        BY <1>1, <2>1, <2>2
    <2>5. flatten = Def(flatten)
        BY <2>4
    <2> HIDE DEF flatten
    <2>6. 0 \in T
        BY <1>1, <1>3, <2>1, <2>5
    <2>7. ASSUME NEW i \in Nat, i \in T PROVE i + 1 \in T
        <3>1. SUFFICES ASSUME i + 1 + 1 <= n PROVE flatten[i + 1 + 1] = f[i + 1 + 1]
            OBVIOUS
        <3> DEFINE k == i + 1
        <3>2. k \in 1..n /\ k + 1 \in 2..n /\ k + 1 - 1 = k /\ k + 1 # 1 /\ k + 1 \in 1..n
            BY <1>1, <3>1
        <3>3. flatten[k] = f[k]
            BY <2>7, <3>2
        <3> HIDE DEF k
        <3>4. f[k + 1] = Cat(f[k], ss[k + 1])
            BY <2>2, <3>2
        <3>5. flatten[k + 1] = Cat(flatten[k], ss[k + 1])
            BY <2>5, <3>2
        <3> QED BY <3>3, <3>4, <3>5 DEF k
    <2>8. Nat \subseteq T
        BY <2>6, <2>7, SetInduction
    <2>9. n - 1 \in Nat /\ (n - 1) + 1 = n
        BY <1>1, <1>3
    <2>10. flatten[n] = f[n]
        BY <2>8, <2>9
    <2> QED BY <2>3, <2>10 DEF n
<1> QED BY <1>2, <1>3

\* Joining nothing gives nothing.
LEMMA FlattenNone == FlattenSeq(<<>>) = <<>>
BY DEF FlattenSeq

\* A sequence more at the end.
LEMMA FlattenAppend ==
    ASSUME NEW S, NEW ss \in Seq(Seq(S)), NEW x \in Seq(S)
    PROVE  /\ FlattenSeq(ss) \in Seq(S)
           /\ FlattenSeq(Append(ss, x)) = Cat(FlattenSeq(ss), x)
<1> DEFINE n == Len(ss)
           more == Append(ss, x)
<1>1. n \in Nat /\ more \in Seq(Seq(S)) /\ Len(more) = n + 1
        /\ more[n + 1] = x /\ \A i \in 1..n : more[i] = ss[i]
    OBVIOUS
<1> HIDE DEF more
<1>2. PICK f \in [0..n + 1 -> Seq(S)] : Joins(f, more, n + 1)
    <2>1. n + 1 \in 0..Len(more)
        BY <1>1
    <2> QED BY <1>1, <2>1, JoinsExist, Zenon
<1>3. Joins(f, ss, n)
    BY <1>1, <1>2 DEF Joins
<1>4. FlattenSeq(ss) = f[n]
    BY <1>3, FlattenIsLast
<1>5. FlattenSeq(more) = f[n + 1]
    BY <1>1, <1>2, FlattenIsLast
<1>6. f[n + 1] = Cat(f[n], x) /\ f[n] \in Seq(S)
    BY <1>1, <1>2 DEF Joins
<1> QED BY <1>4, <1>5, <1>6 DEF more

\* The first sequence and the others.
LEMMA FlattenHead ==
    ASSUME NEW S, NEW ss \in Seq(Seq(S)), ss # <<>>
    PROVE  FlattenSeq(ss) = Cat(Head(ss), FlattenSeq(Tail(ss)))
<1> DEFINE n == Len(ss) - 1
           rest == Tail(ss)
           first == Head(ss)
<1>1. /\ n \in Nat /\ Len(ss) = n + 1 /\ first = ss[1] /\ first \in Seq(S)
      /\ rest \in Seq(Seq(S)) /\ Len(rest) = n
      /\ \A i \in 1..n : rest[i] = ss[i + 1] /\ rest[i] \in Seq(S)
    OBVIOUS
<1> HIDE DEF n, rest, first
<1>2. PICK f \in [0..n + 1 -> Seq(S)] : Joins(f, ss, n + 1)
    <2>1. n + 1 \in 0..Len(ss)
        BY <1>1
    <2> QED BY <2>1, JoinsExist, Zenon
<1>3. PICK g \in [0..n -> Seq(S)] : Joins(g, rest, n)
    <2>1. n \in 0..Len(rest)
        BY <1>1
    <2> QED BY <1>1, <2>1, JoinsExist, Zenon
<1> DEFINE T == {i \in Nat : i <= n => f[i + 1] = Cat(first, g[i])}
<1>4. 0 \in T
    <2>1. f[1] = Cat(f[0], ss[1]) /\ f[0] = <<>> /\ g[0] = <<>>
        BY <1>1, <1>2, <1>3 DEF Joins
    <2>2. Cat(<<>>, first) = first /\ Cat(first, <<>>) = first
        BY <1>1, CatFacts, Zenon
    <2> QED BY <1>1, <2>1, <2>2
<1>5. ASSUME NEW i \in Nat, i \in T PROVE i + 1 \in T
    <2>1. SUFFICES ASSUME i + 1 <= n PROVE f[i + 1 + 1] = Cat(first, g[i + 1])
        OBVIOUS
    <2> DEFINE k == i + 1
    <2>2. k \in 1..n /\ k - 1 = i /\ k + 1 \in 1..n + 1 /\ k + 1 - 1 = k /\ i \in 0..n
        BY <1>1, <2>1
    <2>3. f[k] = Cat(first, g[i])
        BY <1>5, <2>2
    <2> HIDE DEF k, T
    <2>4. f[k + 1] = Cat(f[k], ss[k + 1])
        BY <1>2, <2>2 DEF Joins
    <2>5. g[k] = Cat(g[i], rest[k]) /\ rest[k] = ss[k + 1]
        BY <1>1, <1>3, <2>2 DEF Joins
    <2>6. g[i] \in Seq(S) /\ rest[k] \in Seq(S)
        BY <1>1, <1>3, <2>2
    <2>7. Cat(Cat(first, g[i]), rest[k]) = Cat(first, Cat(g[i], rest[k]))
        <3>1. first \in Seq(S)
            BY <1>1
        <3>2. \A s, t, u \in Seq(S) : Cat(Cat(s, t), u) = Cat(s, Cat(t, u))
            BY CatFacts, Zenon
        <3> QED BY <2>6, <3>1, <3>2, Zenon
    <2> QED BY <2>3, <2>4, <2>5, <2>7 DEF k
<1>6. Nat \subseteq T
    BY <1>4, <1>5, SetInduction
<1>7. f[n + 1] = Cat(first, g[n])
    BY <1>1, <1>6
<1>8. FlattenSeq(ss) = f[n + 1]
    BY <1>1, <1>2, FlattenIsLast
<1>9. FlattenSeq(rest) = g[n]
    BY <1>1, <1>3, FlattenIsLast
<1> QED BY <1>7, <1>8, <1>9 DEF first, rest

-----------------------------------------------------------------------------
(* The texts.                                                              *)

Character == Char \cup {LF}

\* Two sequences with the same places are one.
LEMMA SamePlaces ==
    ASSUME NEW S, NEW s \in Seq(S), NEW t \in Seq(S), NEW n \in Nat,
           Len(s) = n, Len(t) = n, \A i \in 1..n : s[i] = t[i]
    PROVE  s = t
BY SeqEqual

\* What is to be written for a text begins with what is written for its first
\* character.
LEMMA WrittenHead ==
    ASSUME NEW text \in Seq(Character)
    PROVE  /\ Written(text) \in Seq(Character)
           /\ text # <<>> =>
                /\ Written(Tail(text)) \in Seq(Character)
                /\ Written(text) = Cat(Translated(Head(text)), Written(Tail(text)))
<1> DEFINE Q == Seq(Character)
           Parts(t) == [i \in DOMAIN t |-> Translated(t[i])]
<1>1. \A c \in Character : Translated(c) \in Q
    BY TranslatedType DEF Character
<1> HIDE DEF Q
<1>2. ASSUME NEW t \in Seq(Character)
      PROVE  /\ Parts(t) \in Seq(Q) /\ Len(Parts(t)) = Len(t)
             /\ \A i \in 1..Len(t) : Parts(t)[i] = Translated(t[i])
    <2>1. Len(t) \in Nat /\ DOMAIN t = 1..Len(t) /\ \A i \in 1..Len(t) : t[i] \in Character
        OBVIOUS
    <2>2. \A i \in 1..Len(t) : Translated(t[i]) \in Q
        BY <1>1, <2>1
    <2> QED BY <2>1, <2>2
<1>3. ASSUME NEW t \in Seq(Character) PROVE Written(t) \in Q
    <2>1. Written(t) = FlattenSeq(Parts(t))
        BY Zenon DEF Written
    <2>2. <<>> \in Q
        BY DEF Q
    <2> HIDE DEF Parts
    <2> QED BY <1>2, <2>1, <2>2, FlattenAppend DEF Q
<1>4. ASSUME text # <<>>
      PROVE  Written(text) = Cat(Translated(Head(text)), Written(Tail(text)))
    <2> DEFINE ss == Parts(text)
               rest == Tail(text)
               n == Len(text) - 1
    <2>1. /\ n \in Nat /\ Len(text) = n + 1 /\ Head(text) = text[1]
          /\ rest \in Seq(Character) /\ Len(rest) = n
          /\ \A i \in 1..n : rest[i] = text[i + 1]
        BY <1>4
    <2>2. Written(text) = FlattenSeq(ss) /\ Written(rest) = FlattenSeq(Parts(rest))
        BY Zenon DEF Written
    <2>3. /\ ss \in Seq(Q) /\ Len(ss) = n + 1
          /\ \A i \in 1..n + 1 : ss[i] = Translated(text[i])
        BY <1>2, <2>1
    <2>4. /\ Parts(rest) \in Seq(Q) /\ Len(Parts(rest)) = n
          /\ \A i \in 1..n : Parts(rest)[i] = Translated(rest[i])
        BY <1>2, <2>1
    <2> HIDE DEF n, Parts, ss, rest
    <2>5. /\ ss # <<>> /\ Head(ss) = ss[1]
          /\ Tail(ss) \in Seq(Q) /\ Len(Tail(ss)) = n
          /\ \A i \in 1..n : Tail(ss)[i] = ss[i + 1]
        BY <2>1, <2>3
    <2>6. \A i \in 1..n : Tail(ss)[i] = Parts(rest)[i]
        BY <2>1, <2>3, <2>4, <2>5
    <2>7. Tail(ss) = Parts(rest)
        BY <2>1, <2>4, <2>5, <2>6, SamePlaces
    <2>8. FlattenSeq(ss) = Cat(Head(ss), FlattenSeq(Tail(ss)))
        BY <2>3, <2>5, FlattenHead, Zenon DEF Q
    <2>9. Head(ss) = Translated(Head(text))
        BY <2>1, <2>3, <2>5
    <2> QED BY <2>2, <2>7, <2>8, <2>9, Zenon DEF rest
<1>5. text # <<>> => Tail(text) \in Seq(Character)
    OBVIOUS
<1> QED BY <1>3, <1>4, <1>5, Zenon DEF Q

\* What p has put into the FIFO, of what has been put into it.
PutBy(p, put) ==
    FlattenSeq([i \in DOMAIN put |-> IF put[i].by = p THEN <<put[i].c>> ELSE <<>>])

\* A character more is one more of its printer's, and none of the other's.
LEMMA PutMore ==
    ASSUME NEW p, NEW put \in Seq(Tagged), NEW t \in Tagged
    PROVE  /\ PutBy(p, put) \in Seq(Character)
           /\ PutBy(p, Append(put, t)) =
                Cat(PutBy(p, put), IF t.by = p THEN <<t.c>> ELSE <<>>)
<1> DEFINE Q == Seq(Character)
           Of(x) == IF x.by = p THEN <<x.c>> ELSE <<>>
           Parts(s) == [i \in DOMAIN s |-> Of(s[i])]
           more == Append(put, t)
           n == Len(put)
<1>1. ASSUME NEW x \in Tagged PROVE Of(x) \in Q
    <2>1. x.c \in Character
        BY DEF Tagged, Character
    <2>2. <<x.c>> \in Seq(Character) /\ <<>> \in Seq(Character)
        BY <2>1
    <2> QED BY <2>2, Zenon
<1> HIDE DEF Q, Of
<1>2. ASSUME NEW s \in Seq(Tagged)
      PROVE  /\ Parts(s) \in Seq(Q) /\ Len(Parts(s)) = Len(s)
             /\ \A i \in 1..Len(s) : Parts(s)[i] = Of(s[i])
    <2>1. Len(s) \in Nat /\ DOMAIN s = 1..Len(s) /\ \A i \in 1..Len(s) : s[i] \in Tagged
        OBVIOUS
    <2>2. \A i \in 1..Len(s) : Of(s[i]) \in Q
        BY <1>1, <2>1
    <2> QED BY <2>1, <2>2
<1>3. /\ n \in Nat /\ more \in Seq(Tagged) /\ Len(more) = n + 1
      /\ more[n + 1] = t /\ \A i \in 1..n : more[i] = put[i]
    OBVIOUS
<1>4. PutBy(p, put) = FlattenSeq(Parts(put)) /\ PutBy(p, more) = FlattenSeq(Parts(more))
    BY Zenon DEF PutBy, Of
<1> HIDE DEF n, more
<1>5. /\ Parts(put) \in Seq(Q) /\ Len(Parts(put)) = n
      /\ \A i \in 1..n : Parts(put)[i] = Of(put[i])
    BY <1>2 DEF n
<1>6. /\ Parts(more) \in Seq(Q) /\ Len(Parts(more)) = n + 1
      /\ \A i \in 1..n + 1 : Parts(more)[i] = Of(more[i])
    BY <1>2, <1>3
<1> HIDE DEF Parts
<1>7. Of(t) \in Q
    BY <1>1
<1>8. /\ Append(Parts(put), Of(t)) \in Seq(Q)
      /\ Len(Append(Parts(put), Of(t))) = n + 1
      /\ Append(Parts(put), Of(t))[n + 1] = Of(t)
      /\ \A i \in 1..n : Append(Parts(put), Of(t))[i] = Parts(put)[i]
    BY <1>3, <1>5, <1>7
<1>9. \A i \in 1..n + 1 : Append(Parts(put), Of(t))[i] = Parts(more)[i]
    BY <1>3, <1>5, <1>6, <1>8
<1>10. n + 1 \in Nat
    BY <1>3
<1>11. Append(Parts(put), Of(t)) = Parts(more)
    BY <1>6, <1>8, <1>9, <1>10, SamePlaces
<1>12. /\ FlattenSeq(Parts(put)) \in Q
       /\ FlattenSeq(Append(Parts(put), Of(t))) = Cat(FlattenSeq(Parts(put)), Of(t))
    BY <1>5, <1>7, FlattenAppend, Zenon DEF Q
<1> QED BY <1>4, <1>11, <1>12, Zenon DEF more, Of, Q

LEMMA PutByNone ==
    ASSUME NEW p
    PROVE  PutBy(p, <<>>) = <<>>
<1>1. [i \in DOMAIN <<>> |-> IF <<>>[i].by = p THEN <<<<>>[i].c>> ELSE <<>>] = <<>>
    OBVIOUS
<1> QED BY <1>1, FlattenNone, Zenon DEF PutBy

\* When the line takes a character, all that has been put stays the same.
LEMMA QueueTaken ==
    ASSUME NEW S, NEW s \in Seq(S), NEW f \in Seq(S), f # <<>>
    PROVE  Append(s, Head(f)) \o Tail(f) = s \o f
OBVIOUS

\* A printer between two characters has sent the last one whole.
TextInv ==
    /\ \A p \in Printer : step[p] = "idle" => current[p] = <<>>
    /\ NothingLost

\* The three parts of a printer's text.
LEMMA TextParts ==
    ASSUME TypeOK, NEW p \in Printer
    PROVE  /\ sent \o txFifo \in Seq(Tagged)
           /\ Reached(p) = PutBy(p, sent \o txFifo)
           /\ Reached(p) \in Seq(Character)
           /\ current[p] \in Seq(Character)
           /\ todo[p] \in Seq(Character)
           /\ Written(todo[p]) \in Seq(Character)
           /\ Reached(p) \o current[p] \o Written(todo[p])
                = Cat(Cat(Reached(p), current[p]), Written(todo[p]))
<1>1. sent \o txFifo \in Seq(Tagged)
    BY DEF TypeOK
<1>2. Reached(p) = PutBy(p, sent \o txFifo)
    BY Zenon DEF Reached, PutBy
<1>3. [by |-> p, c |-> CR] \in Tagged
    BY UartAssumption DEF Tagged
<1>4. Reached(p) \in Seq(Character)
    BY <1>1, <1>2, <1>3, PutMore, Zenon
<1>5. current[p] \in Seq(Character) /\ todo[p] \in Seq(Character)
    BY DEF TypeOK, Character
<1>6. Written(todo[p]) \in Seq(Character)
    BY <1>5, WrittenHead, Zenon
<1> QED BY <1>1, <1>2, <1>4, <1>5, <1>6, Zenon DEF Cat

\* The state that uart_init leaves.
LEMMA TextInit ==
    Init => TextInv
<1> SUFFICES ASSUME Init PROVE TextInv
    OBVIOUS
<1>1. TypeOK
    BY TxInvInit DEF TxInv
<1>2. ASSUME NEW p \in Printer
      PROVE  /\ current[p] = <<>>
             /\ Reached(p) \o current[p] \o Written(todo[p]) = Written(Text[p])
    <2>1. current[p] = <<>> /\ todo[p] = Text[p] /\ sent \o txFifo = <<>>
        BY <1>2 DEF Init
    <2>2. Reached(p) = <<>>
        BY <1>1, <2>1, TextParts, PutByNone, Zenon
    <2>3. Written(todo[p]) \in Seq(Character)
        BY <1>1, TextParts, Zenon
    <2>4. Cat(Cat(<<>>, <<>>), Written(todo[p])) = Written(todo[p])
        BY <2>3, CatFacts, Zenon
    <2> QED BY <1>1, <2>1, <2>2, <2>4, TextParts, Zenon
<1> QED BY <1>2, Zenon DEF TextInv, NothingLost

\* A printer that takes up its next character has that much less to come.
LEMMA BeginsText ==
    ASSUME TypeOK, TypeOK', TextInv, NEW p \in Printer, Begins(p), step[p] = "idle",
           UNCHANGED <<txFifo, sent>>
    PROVE  TextInv'
<1>1. /\ todo[p] # <<>> /\ todo'[p] = Tail(todo[p])
      /\ current'[p] = Translated(Head(todo[p]))
      /\ step'[p] = "idle" => current'[p] = <<>>
    BY DEF Begins, StepTo, TypeOK
<1>2. \A q \in Printer \ {p} :
        step'[q] = step[q] /\ current'[q] = current[q] /\ todo'[q] = todo[q]
    BY DEF Begins, StepTo, TypeOK
<1>3. \A q \in Printer : Reached(q)' = Reached(q)
    BY Zenon DEF Reached
<1>4. Cat(Cat(Reached(p), current[p]), Written(todo[p])) = Written(Text[p])
    BY TextParts, Zenon DEF TextInv, NothingLost
<1>5. current[p] = <<>>
    BY DEF TextInv
<1>6. /\ Reached(p) \in Seq(Character) /\ todo[p] \in Seq(Character)
    BY TextParts, Zenon
<1>7. Written(todo[p]) = Cat(Translated(Head(todo[p])), Written(Tail(todo[p])))
    BY <1>1, <1>6, WrittenHead, Zenon
<1>8. current'[p] \in Seq(Character) /\ Written(todo'[p]) \in Seq(Character)
    <2>1. current'[p] \in Seq(Character) /\ todo'[p] \in Seq(Character)
        BY DEF TypeOK, Character
    <2> QED BY <2>1, WrittenHead, Zenon
<1>9. Cat(Cat(Reached(p), current'[p]), Written(todo'[p])) = Written(Text[p])
    <2>1. Cat(Reached(p), <<>>) = Reached(p)
        BY <1>6, CatFacts, Zenon
    <2>2. Cat(Cat(Reached(p), current'[p]), Written(todo'[p]))
            = Cat(Reached(p), Cat(current'[p], Written(todo'[p])))
        <3>1. \A s, t, u \in Seq(Character) : Cat(Cat(s, t), u) = Cat(s, Cat(t, u))
            BY CatFacts, Zenon
        <3> QED BY <1>6, <1>8, <3>1, Zenon
    <2> QED BY <1>1, <1>4, <1>5, <1>7, <2>1, <2>2, Zenon
<1>10. (Reached(p) \o current[p] \o Written(todo[p]) = Written(Text[p]))'
    BY <1>3, <1>9, Zenon DEF Cat
<1>11. ASSUME NEW q \in Printer \ {p}
       PROVE  (Reached(q) \o current[q] \o Written(todo[q]) = Written(Text[q]))'
    <2>1. Reached(q) \o current[q] \o Written(todo[q]) = Written(Text[q])
        BY Zenon DEF TextInv, NothingLost
    <2> QED BY <1>2, <1>3, <2>1, Zenon
<1>12. NothingLost'
    BY <1>10, <1>11, Zenon DEF NothingLost
<1>13. \A q \in Printer : step'[q] = "idle" => current'[q] = <<>>
    BY <1>1, <1>2, Zenon DEF TextInv
<1> QED BY <1>12, <1>13, Zenon DEF TextInv

\* A character that is written to the FIFO gets there.
LEMMA WriteText ==
    ASSUME TxInv, TxInv', TextInv, NEW p \in Printer, WriteFifo(p)
    PROVE  TextInv'
<1> DEFINE t == [by |-> p, c |-> Head(current[p])]
           put == sent \o txFifo
<1>1. TypeOK /\ TypeOK'
    BY DEF TxInv
<1>2. /\ current[p] \in Seq(Character) /\ current[p] # <<>>
      /\ Head(current[p]) \in Character /\ Tail(current[p]) \in Seq(Character)
      /\ <<Head(current[p])>> \in Seq(Character)
      /\ <<Head(current[p])>> \o Tail(current[p]) = current[p]
    <2>1. current[p] \in Seq(Character) /\ current[p] # <<>>
        BY DEF TxInv, TypeOK, RoomKept, WriteFifo, Character
    <2>2. /\ Head(current[p]) \in Character /\ Tail(current[p]) \in Seq(Character)
          /\ <<Head(current[p])>> \in Seq(Character)
        BY <2>1
    <2>3. \A s \in Seq(Character) : s # <<>> => <<Head(s)>> \o Tail(s) = s
        OBVIOUS
    <2> QED BY <2>1, <2>2, <2>3, Zenon
<1>3. t \in Tagged /\ t.by = p /\ t.c = Head(current[p])
    BY <1>2 DEF Tagged, Character
<1>4. Len(txFifo) < TX_DEPTH
    <2>1. Len(txFifo) <= TX_LIMIT /\ Len(txFifo) \in Nat
        <3>1. step[p] = "put" /\ (p = "task" \/ p = "handler")
            BY DEF WriteFifo, Printer
        <3>2. step["task"] = "put" => Len(txFifo) <= TX_LIMIT
            BY DEF TxInv, RoomKept
        <3>3. step["handler"] = "put" => Len(txFifo) < TX_LIMIT
            BY DEF TxInv, RoomKept
        <3>4. Len(txFifo) \in Nat
            BY <1>1 DEF TypeOK
        <3> QED BY <3>1, <3>2, <3>3, <3>4, TxAssumption
    <2> QED BY <2>1, TxAssumption
<1>5. sent' = sent /\ txFifo' = Append(txFifo, t) /\ todo' = todo
    BY <1>4 DEF WriteFifo
<1>6. /\ current'[p] = Tail(current[p])
      /\ step'[p] = "idle" => current'[p] = <<>>
      /\ \A q \in Printer \ {p} : step'[q] = step[q] /\ current'[q] = current[q]
    BY <1>1 DEF WriteFifo, StepTo, TypeOK
<1>7. put \in Seq(Tagged) /\ (sent \o txFifo)' = Append(put, t)
    <2>1. sent \in Seq(Tagged) /\ txFifo \in Seq(Tagged)
        BY <1>1 DEF TypeOK
    <2> HIDE DEF t
    <2>2. t \in Tagged
        BY <1>3
    <2>3. sent \o txFifo \in Seq(Tagged)
        BY <2>1
    <2>4. sent \o Append(txFifo, t) = Append(sent \o txFifo, t)
        BY <2>1, <2>2
    <2> QED BY <1>5, <2>3, <2>4, Zenon
<1> HIDE DEF t, put
<1>8. ASSUME NEW q \in Printer
      PROVE  Reached(q)' = Cat(Reached(q), IF q = p THEN <<Head(current[p])>> ELSE <<>>)
    <2>1. Reached(q) = PutBy(q, put)
        BY <1>1, TextParts, Zenon DEF put
    <2>2. Reached(q)' = PutBy(q, Append(put, t))
        BY <1>7, Zenon DEF Reached, PutBy
    <2>3. PutBy(q, Append(put, t)) = Cat(PutBy(q, put), IF t.by = q THEN <<t.c>> ELSE <<>>)
        BY <1>3, <1>7, PutMore, Zenon
    <2> QED BY <1>3, <2>1, <2>2, <2>3, Zenon
<1>9. ASSUME NEW q \in Printer
      PROVE  /\ Reached(q) \in Seq(Character) /\ current[q] \in Seq(Character)
             /\ Written(todo[q]) \in Seq(Character)
             /\ Cat(Cat(Reached(q), current[q]), Written(todo[q])) = Written(Text[q])
    BY <1>1, TextParts, Zenon DEF TextInv, NothingLost
<1>10. Cat(Cat(Cat(Reached(p), <<Head(current[p])>>), Tail(current[p])), Written(todo[p]))
        = Written(Text[p])
    <2>1. \A s, u, v \in Seq(Character) : Cat(Cat(s, u), v) = Cat(s, Cat(u, v))
        BY CatFacts, Zenon
    <2>2. Cat(Cat(Reached(p), <<Head(current[p])>>), Tail(current[p]))
            = Cat(Reached(p), Cat(<<Head(current[p])>>, Tail(current[p])))
        BY <1>2, <1>9, <2>1, Zenon
    <2>3. Cat(<<Head(current[p])>>, Tail(current[p])) = current[p]
        BY <1>2, Zenon DEF Cat
    <2> QED BY <1>9, <2>2, <2>3, Zenon
<1>11. (Reached(p) \o current[p] \o Written(todo[p]) = Written(Text[p]))'
    <2>1. Reached(p)' = Cat(Reached(p), <<Head(current[p])>>)
        BY <1>8, Zenon
    <2> QED BY <1>5, <1>6, <1>10, <2>1, Zenon DEF Cat
<1>12. ASSUME NEW q \in Printer \ {p}
       PROVE  (Reached(q) \o current[q] \o Written(todo[q]) = Written(Text[q]))'
    <2>1. Reached(q)' = Cat(Reached(q), <<>>)
        BY <1>8, Zenon
    <2>2. Cat(Reached(q), <<>>) = Reached(q)
        BY <1>9, CatFacts, Zenon
    <2> QED BY <1>5, <1>6, <1>9, <2>1, <2>2, Zenon DEF Cat
<1>13. NothingLost'
    BY <1>11, <1>12, Zenon DEF NothingLost
<1>14. \A q \in Printer : step'[q] = "idle" => current'[q] = <<>>
    BY <1>6, Zenon DEF TextInv
<1> QED BY <1>13, <1>14, Zenon DEF TextInv

\* A step that leaves a text alone, and the whole of what has been put.
LEMMA SameText ==
    ASSUME TextInv, todo' = todo, current' = current,
           \A p \in Printer : step'[p] = "idle" => step[p] = "idle",
           (sent \o txFifo)' = sent \o txFifo
    PROVE  TextInv'
<1>1. \A p \in Printer : Reached(p)' = Reached(p)
    BY Zenon DEF Reached
<1>2. NothingLost'
    BY <1>1, Zenon DEF TextInv, NothingLost
<1> QED BY <1>2, Zenon DEF TextInv

\* Every step keeps the texts whole.
LEMMA TextStep ==
    TxInv /\ TxInv' /\ TextInv /\ [Next]_vars => TextInv'
<1> SUFFICES ASSUME TxInv, TxInv', TextInv, [Next]_vars PROVE TextInv'
    OBVIOUS
<1>1. TypeOK /\ TypeOK'
    BY DEF TxInv
<1>2. CASE UNCHANGED txVars
    BY <1>2, SameText DEF txVars
<1>3. ASSUME NEW p \in Printer, Prints(p)
      PROVE  TextInv'
    <2>1. CASE uart1_write_char(p)
        BY <1>1, <2>1, BeginsText DEF uart1_write_char
    <2>2. CASE FifoHasRoom(p)
        <3>1. \A q \in Printer : step'[q] = "idle" => step[q] = "idle"
            BY <1>1, <2>2 DEF FifoHasRoom, StepTo, TypeOK
        <3> QED BY <2>2, <3>1, SameText DEF FifoHasRoom
    <2>3. CASE WriteFifo(p)
        BY <2>3, WriteText
    <2> QED BY <1>3, <2>1, <2>2, <2>3 DEF Prints
<1>4. CASE Shifts
    <2>1. sent \in Seq(Tagged) /\ txFifo \in Seq(Tagged)
        BY <1>1 DEF TypeOK
    <2>2. (sent \o txFifo)' = sent \o txFifo
        BY <1>4, <2>1, QueueTaken, Zenon DEF Shifts
    <2> QED BY <1>4, <2>2, SameText, Zenon DEF Shifts
<1>5. CASE PrinterEnters
    <2>1. "handler" \in Printer /\ step["handler"] = "idle"
        BY <1>1, <1>5 DEF PrinterEnters, TxInv, RoomKept, Printer, TypeOK
    <2> QED BY <1>1, <1>5, <2>1, BeginsText DEF PrinterEnters
<1>6. UNCHANGED txVars \/ (\E p \in Printer : Prints(p)) \/ Shifts \/ PrinterEnters
    BY DEF Next, vars, ByteArrives, Receiver, PrinterReturns, Mask
<1> QED BY <1>2, <1>3, <1>4, <1>5, <1>6, Zenon

\* No character of either printer is lost, doubled or put out of order (uart.c:
\* 70-98), for all texts: the FIFO is never full when it is written to, and what
\* the handler puts between is not taken for the task's.
THEOREM TextsWhole == Spec => []NothingLost
<1>1. TextInv => NothingLost
    BY DEF TextInv
<1> QED BY <1>1, TxInvInit, TxInvStep, TextInit, TextStep, PTL DEF Spec
=============================================================================
