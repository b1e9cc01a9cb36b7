----------------------------- MODULE CardReader -----------------------------
(***************************************************************************)
(* What the firmware promises whoever stands in front of the reader: it    *)
(* says READY TO READ NEXT UID, then reports one card that has been held   *)
(* up since, or refuses one, then says READY again.  Nothing of the chip,  *)
(* the bus, the timers or the interrupt is left in it.                     *)
(***************************************************************************)

CONSTANTS
    Card,       \* the cards
    BadCard,    \* the cards that are refused
    NoCard      \* an empty field

VARIABLES
    field,      \* the card in front of the reader, or NoCard
    seen,       \* the cards that have been there since READY was last said
    console     \* the last report on the console

view == <<field, seen, console>>

Init ==
    /\ field = NoCard
    /\ seen = {}
    /\ console = [line |-> "none", uid |-> NoCard]

-----------------------------------------------------------------------------

CardEnters(card) ==
    /\ field = NoCard
    /\ field' = card
    /\ seen' = seen \cup {card}
    /\ UNCHANGED console

CardLeaves ==
    /\ field # NoCard
    /\ field' = NoCard
    /\ UNCHANGED <<seen, console>>

\* READY TO READ NEXT UID.  It may be said twice without a report between.
SayReady ==
    /\ console' = [console EXCEPT !.line = "ready"]
    /\ seen' = {field} \cap Card
    /\ UNCHANGED field

Report(card) ==
    /\ console.line = "ready"
    /\ card \in seen \ BadCard
    /\ console' = [line |-> "uid", uid |-> card]
    /\ UNCHANGED <<field, seen>>

Refuse ==
    /\ console.line = "ready"
    /\ seen \cap BadCard # {}
    /\ console' = [line |-> "error", uid |-> NoCard]
    /\ UNCHANGED <<field, seen>>

Next ==
    \/ \E card \in Card : CardEnters(card) \/ Report(card)
    \/ CardLeaves
    \/ SayReady
    \/ Refuse

SafeSpec == Init /\ [][Next]_view

\* READY is said after every report, and a card that stays is dealt with.
Fairness ==
    /\ WF_view(console.line # "ready" /\ SayReady)
    /\ WF_view(\E card \in Card : field = card /\ Report(card))
    /\ WF_view(field \in BadCard /\ Refuse)

Spec == SafeSpec /\ Fairness
=============================================================================
