---------------------------- MODULE MCPn532Bytes ----------------------------
(***************************************************************************)
(* An instance of Pn532Bytes for TLC.  The UIDs have each length that      *)
(* cards have, and 0x80s in some and in all of the bytes that checkUID     *)
(* looks at.  The blocks have no terminator, one looks like a UID.  The    *)
(* reads break off before and after each byte that is looked at.           *)
(***************************************************************************)
EXTENDS Pn532Bytes

MCBadCard ==
    {<<128, 128, 128, 128, 5, 6, 7>>,
     <<4, 1, 2, 3, 5, 6, 7, 8, 9, 10>>}

MCCard ==
    MCBadCard \cup
    {<<128, 128, 128, 7>>, <<4, 1, 2, 3, 128, 128, 255>>}

MCData ==
    {[i \in 1..16 |-> 128],
     [i \in 1..16 |-> 4]}

MCCuts == {0, 6, 8, 13, 14, 16}
=============================================================================
