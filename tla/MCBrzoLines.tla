---------------------------- MODULE MCBrzoLines ----------------------------
(***************************************************************************)
(* Instances of BrzoLines for TLC: two or three bytes with short and long  *)
(* runs of equal bits, transfers of up to three of them, and a clock       *)
(* stretch limit of two samples.                                           *)
(***************************************************************************)
EXTENDS BrzoLines

\* A slave that stretches the clocks of bits, and one that also stretches the
\* first clock after a byte; and one that stretches that of the acknowledge.
MCHabits == {{"bit"}, {"bit", "byte"}}
MCAckHabits == {{"ack"}}
=============================================================================
