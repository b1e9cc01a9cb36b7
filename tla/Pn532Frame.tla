----------------------------- MODULE Pn532Frame -----------------------------
(***************************************************************************)
(* The frames between the PN532 and the driver, as far as the driver's     *)
(* decisions depend on them.  The byte content of a frame is abstracted to *)
(* two fields: bytes 0..12 (is it an ACK, which status does it carry) are  *)
(* "kind", and bytes 13..27, where a listing carries the UID, are "uid".   *)
(* Module Pn532Bytes shows that the bytes bear this out.                   *)
(***************************************************************************)

CONSTANTS
    Card,       \* the cards, identified with their UIDs
    BadCard,    \* the cards whose UID pn532ReadCardUid refuses
    NoCard,     \* an empty field; also a frame without an acceptable UID
    CutUid      \* bytes that pass for a UID and are none: the beginning of
                \* one, or the data of a block

ASSUME CardAssumption ==
    /\ BadCard \subseteq Card
    /\ NoCard \notin Card
    /\ CutUid \notin Card
    /\ CutUid # NoCard

Uid == Card \cup {NoCard, CutUid}

\* "done" is a response without a status byte.
Frame ==
    [kind : {"zero", "junk", "ack", "firmware", "done", "success", "failure",
             "target"},
     uid  : Uid]

\* A frame that carries no UID.
Plain(kind) == [kind |-> kind, uid |-> NoCard]

-----------------------------------------------------------------------------
(* The receive buffer.                                                     *)

\* A slip to test against: flushArray called with a length of zero.
FlushedNothing(buffer) == buffer

\* flushArray(pn532.recvBuffer, PN532_I2C_BUFFER_LENGTH)
Flushed(buffer) == Plain("zero")

\* The first 8 bytes of a frame read into buffer, or all 28 of them.
ReadInto(buffer, frame, full) ==
    IF full THEN frame ELSE [buffer EXCEPT !.kind = frame.kind]

\* What a read that failed can leave of the frame in buffer: nothing, its
\* head, a part of its UID, or everything.
PartsInto(buffer, frame, full) ==
    {buffer, ReadInto(buffer, frame, FALSE), ReadInto(buffer, frame, full)}
        \cup (IF full /\ frame.uid \in Card
                THEN {[frame EXCEPT !.uid = CutUid]} ELSE {})

-----------------------------------------------------------------------------
(* The tests.                                                              *)

\* pn532ReadAckFrame: does the buffer hold an ACK frame behind its status byte?
IsAckFrame(buffer) == buffer.kind = "ack"

\* checkUID and the length test before it.
UidAccepted(uid) == uid \notin BadCard \cup {NoCard}

\* Can the status byte recvBuffer[8] be zero?  It is in a successful response
\* and in a flushed buffer; past the end of an ACK frame it is anything.
StatusIsZero(buffer) ==
    CASE buffer.kind \in {"success", "zero"} -> {TRUE}
      [] buffer.kind = "ack"                 -> {TRUE, FALSE}
      [] OTHER                               -> {FALSE}
=============================================================================
