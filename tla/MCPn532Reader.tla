--------------------------- MODULE MCPn532Reader ---------------------------
(***************************************************************************)
(* Small instances of Pn532Reader for TLC: one to three cards, one of them *)
(* with a UID that is refused, and a handful of faults.                    *)
(***************************************************************************)
EXTENDS Pn532Reader, TLC

\* The accepted cards are interchangeable: nothing but equality of UIDs counts.
GoodCards == Permutations(Card \ BadCard)

\* A chip that may act everywhere.
Anywhere == [b \in Builds |-> {"handler", "callback"}]

\* A chip that never overtakes an interrupt handler, and overtakes a callback
\* only in the builds that set the handler of the ACK up before they send.
NotInHandlers ==
    [b \in Builds |-> IF b \in {"uid", "leds"} THEN {"callback"} ELSE {}]

\* A chip that overtakes nothing.
Nowhere == [b \in Builds |-> {}]
=============================================================================
