------------------------------- MODULE MCUart -------------------------------
(***************************************************************************)
(* A small instance of Uart: a ring that wraps after two bytes, a receive  *)
(* FIFO deeper than its trigger level, and a transmit FIFO of four with a  *)
(* limit of two, the real distance, which the two texts together overrun.  *)
(***************************************************************************)
EXTENDS Uart

CONSTANT a

MCText == [task |-> <<a, LF, CR>>, handler |-> <<LF>>]
=============================================================================
