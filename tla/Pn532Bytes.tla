----------------------------- MODULE Pn532Bytes -----------------------------
(***************************************************************************)
(* The frames byte by byte: how pn532.c builds the commands it writes, and *)
(* what its tests make of the bytes it reads, whole or cut short by an I2C *)
(* error.  A card is its UID, a sequence of bytes.  One action is one      *)
(* function of pn532.c from its read or up to its write; the handlers and  *)
(* the order in which they run are in Pn532Reader.                         *)
(***************************************************************************)
EXTENDS Pn532Frame, Integers, Sequences

CONSTANTS
    Data,       \* the contents of the blocks, sequences of 16 bytes
    Cuts        \* the numbers of bytes after which a read may fail

uint8_t == 0..255

ASSUME BytesAssumption ==
    /\ \A card \in Card : card \in Seq(uint8_t) /\ Len(card) \in {4, 7, 10}
    /\ BadCard = {card \in Card : Len(card) = 10 \/ \A i \in 1..4 : card[i] = 128}
    /\ \A data \in Data : data \in [1..16 -> uint8_t]
    /\ Cuts \subseteq 0..28

VARIABLES
    uid,        \* pn532.uid and pn532.tempUid, which follows it
    uidLength,  \* pn532.uidLength
    beyond,     \* how many bytes behind tempUid, where the struct ends, have
                \* been set to zero
    recvBuffer, \* pn532.recvBuffer: recvBuffer[i + 1] is its byte i
    printed,    \* history: the UID that was printed last
    event       \* history: what the last function has read or written

uidVars == <<uid, uidLength, beyond, printed>>
vars == <<uidVars, recvBuffer, event>>

Byte(i) == recvBuffer[i + 1]

Zeros(n) == [i \in 1..n |-> 0]

\* The loop of a checksum.
SumOf(bytes) ==
    LET sum[n \in 0..Len(bytes)] ==
            IF n = 0 THEN 0 ELSE sum[n - 1] + bytes[n]
    IN  sum[Len(bytes)]

\* The beginning of new, as much of it as there is, over old.
Over(new, old) == [i \in 1..Len(old) |-> IF i <= Len(new) THEN new[i] ELSE old[i]]

Init ==
    /\ uid = Zeros(14) /\ uidLength = 0 /\ beyond = 0 /\ printed = <<>>
    /\ recvBuffer = Zeros(28)
    /\ event = [type |-> "none"]

-----------------------------------------------------------------------------
(* Writing.                                                                *)

\* A slip to test against: the checksum leaves the direction byte out.
CommandBufferUnsummed(cmd) ==
    LET length   == Len(cmd) + 1
        checksum == (0 + 0 + 255 + SumOf(cmd)) % 256
    IN  <<0, 0, 255, length, (256 - length) % 256, 212>> \o cmd
            \o <<255 - checksum, 0>>

\* commandBuffer: preamble, length and its complement, direction, the command,
\* the complement of the sum, postamble.
CommandBuffer(cmd) ==
    LET length   == Len(cmd) + 1
        checksum == (0 + 0 + 255 + 212 + SumOf(cmd)) % 256
    IN  <<0, 0, 255, length, (256 - length) % 256, 212>> \o cmd
            \o <<255 - checksum, 0>>

Writes(cmd, bytes, room) ==
    /\ event' = [type |-> "write", cmd |-> cmd, bytes |-> bytes, room |-> room]
    /\ UNCHANGED <<uidVars, recvBuffer>>

\* j + pn532.cmdLength bytes of the frame are written, where j is the length of
\* the command and cmdLength counts the eight bytes around it.
Sends(cmd, room) ==
    Writes(cmd, SubSeq(CommandBuffer(cmd), 1, Len(cmd) + 8), room)

\* The first frame of pn532SamConfig is written byte by byte: set the number
\* of retries, without limit.
SendRfConfiguration ==
    Writes(<<50, 5, 255, 1, 255>>,
           <<0, 0, 255, 6, 250, 212, 50, 5, 255, 1, 255, 246, 0>>, 28)

SendFirmwareVersion == Sends(<<2>>, 3)

SendSamConfiguration == Sends(<<20, 1, 20, 1>>, 4)

SendListPassiveTarget == Sends(<<74, 1, 0>>, 3)

IsFirstBlock(block) == IF block < 128 THEN block % 4 = 0 ELSE block % 16 = 0

keyUniversal == [i \in 1..6 |-> 255]

\* A slip to test against: the length of the array is taken for the UID's.
SendAuthenticateWholeUid(block) ==
    /\ uidLength > 0
    /\ IsFirstBlock(block)
    /\ Sends(<<64, 1, 97, block + 3>> \o keyUniversal \o SubSeq(uid, 1, 7), 16)

\* Armed with block 0 once a UID has been accepted.  The trailer of its sector
\* is authenticated, with key B.
SendAuthenticate(block) ==
    /\ uidLength > 0
    /\ IsFirstBlock(block)
    /\ Sends(<<64, 1, 97, block + 3>> \o keyUniversal \o SubSeq(uid, 1, uidLength), 16)

SendReadBlock(block) == Sends(<<64, 1, 48, block>>, 4)

SendWriteBlock(data) == Sends(<<64, 1, 160, 1>> \o data, 20)

\* pn532_led_color: pins P32 and P34 are always set, P31 and P33 switch the
\* LEDs off.
PinsOf(color) == 128 + 4 + 16 + IF color = "NONE" THEN 8 + 2 ELSE 0

SendWriteGpio(color) == Sends(<<14, PinsOf(color), 0>>, 3)

Send ==
    \/ SendRfConfiguration \/ SendFirmwareVersion \/ SendSamConfiguration
    \/ SendListPassiveTarget \/ SendAuthenticate(0)
    \/ \E block \in {1, 3} : SendReadBlock(block)
    \/ \E data \in Data : SendWriteBlock(data)
    \/ \E color \in {"NONE", "ORANGE"} : SendWriteGpio(color)

-----------------------------------------------------------------------------
(* What the chip sends, behind a status byte, as the manual has it.        *)

Information(data) ==
    <<0, 0, 255, Len(data), (256 - Len(data)) % 256>> \o data
        \o <<(256 - (SumOf(data) % 256)) % 256, 0>>

\* 28 bytes are read whatever the length of the frame.
Padded(frame, filler) == Over(<<1>> \o frame, [i \in 1..28 |-> filler])

Offer(frames, bytes) == [frames |-> frames, bytes |-> bytes]

\* What the chip may send, and the frames of Pn532Frame that stand for it.
Offers ==
    {Offer({Plain("ack")}, Padded(<<0, 0, 255, 0, 255, 0>>, filler)) :
        filler \in {0, 128}}
    \cup
    {Offer({Plain("junk")}, [i \in 1..28 |-> 128]),
     Offer({Plain("firmware")}, Padded(Information(<<213, 3, 50, 1, 6, 7>>), 128)),
     Offer({Plain("done")}, Padded(Information(<<213, 15>>), 128)),
     Offer({Plain("success")}, Padded(Information(<<213, 65, 0>>), 128)),
     Offer({Plain("failure")}, Padded(Information(<<213, 65, 20>>), 128))}
    \cup
    {Offer({[kind |-> "success", uid |-> u] : u \in {NoCard, CutUid}},
           Padded(Information(<<213, 65, 0>> \o data), 128)) : data \in Data}
    \cup
    {Offer({[kind |-> "target", uid |-> card]},
           Padded(Information(<<213, 75, 1, 1, 0, 4, 8, Len(card)>> \o card), 128)) :
        card \in Card}

-----------------------------------------------------------------------------
(* Reading.                                                                *)

\* A slip to test against: the buffer keeps what an earlier read has left.
ReceivedUnflushed(bytes, count) == Over(SubSeq(bytes, 1, count), recvBuffer)

\* The flushed buffer after the first count bytes have arrived.
Received(bytes, count) == Over(SubSeq(bytes, 1, count), Zeros(28))

\* length bytes of an offer are asked for, and all or some of them arrive.
Reads(length, handler) ==
    \E offer \in Offers, count \in {c \in Cuts : c < length} \cup {length} :
        /\ recvBuffer' = Received(offer.bytes, count)
        /\ event' = [type |-> "read", handler |-> handler, offer |-> offer,
                     count |-> count, length |-> length]

\* pn532ReadAckFrame, behind the status byte.
ReadAckFrame(buffer) ==
    LET pn532ack == <<0, 0, 255, 0, 255, 0>>
    IN  \A i \in 1..6 : buffer[i + 1] = pn532ack[i]

MifareReadAckFrame == Reads(8, "ack") /\ UNCHANGED uidVars

\* checkUID: whatever the length, the first four bytes must not all be 0x80.
CheckUID(bytes, length) ==
    /\ 0 < length /\ length < 8
    /\ \E i \in 1..4 : bytes[i] # 128

\* The first length bytes of bytes, of the struct's end, and of what lies behind
\* it are set to zero.
Clears(bytes, length) ==
    /\ uid' = Over(Zeros(length), bytes)
    /\ beyond' = IF length > 14 + beyond THEN length - 14 ELSE beyond

\* Two slips to test against: the length of a refused UID is kept, and the
\* length of the receive buffer is cleared.
RefusesUnreset(bytes, length) ==
    /\ Clears(bytes, length) /\ uidLength' = length
    /\ UNCHANGED printed

RefusesWholeBuffer(bytes, length) ==
    /\ Clears(bytes, 28) /\ uidLength' = 0
    /\ UNCHANGED printed

\* As many bytes of pn532.uid are cleared as the length says, which may be 255.
Refuses(bytes, length) ==
    /\ Clears(bytes, length) /\ uidLength' = 0
    /\ UNCHANGED printed

Accepts(bytes, length) ==
    /\ uid' = bytes /\ uidLength' = length
    /\ printed' = SubSeq(bytes, 1, length)
    /\ UNCHANGED beyond

\* pn532ReadCardUid: byte 13 is the length, the UID follows.
ReadCardUid ==
    /\ Reads(28, "uid")
    /\ LET length == recvBuffer'[14]
           copied == Over(SubSeq(recvBuffer', 15, 14 + length), uid)
       IN  IF length > 7 THEN Refuses(uid, length)
           ELSE IF CheckUID(copied, length) THEN Accepts(copied, length)
           ELSE Refuses(copied, length)

\* pn532ReadAuthenticateResponse
ReadAuthenticateResponse == Reads(28, "authenticate") /\ UNCHANGED uidVars

\* A slip to test against: the status byte is not looked at.
BlockAcceptedUnchecked(buffer) == TRUE

BlockAccepted(buffer) == buffer[9] = 0

\* pn532MifareReadDataBlock
MifareReadDataBlock == Reads(28, "data") /\ UNCHANGED uidVars

Read ==
    \/ MifareReadAckFrame \/ ReadCardUid
    \/ ReadAuthenticateResponse \/ MifareReadDataBlock

Next == Send \/ Read

Spec == Init /\ [][Next]_vars

-----------------------------------------------------------------------------
(* Properties.                                                             *)

\* Every byte is a byte, and the buffers keep their lengths.
TypeOK ==
    /\ uid \in [1..14 -> uint8_t] /\ uidLength \in 0..7
    /\ beyond \in 0..241 /\ printed \in Seq(uint8_t)
    /\ recvBuffer \in [1..28 -> uint8_t]

\* The chip's reading of a command frame, as its manual has it.
IsFrameOf(bytes, cmd) ==
    /\ Len(bytes) >= 8
    /\ SubSeq(bytes, 1, 3) = <<0, 0, 255>>
    /\ (bytes[4] + bytes[5]) % 256 = 0
    /\ Len(bytes) = bytes[4] + 7
    /\ bytes[6] = 212
    /\ SumOf(SubSeq(bytes, 6, 6 + bytes[4])) % 256 = 0
    /\ SubSeq(bytes, 7, 5 + bytes[4]) = cmd
    /\ bytes[Len(bytes)] = 0

\* Whatever the driver writes is a frame of the length it writes, with the
\* right checksums, that says what was meant, and fits the buffer sendcmd.
SentAsMeant ==
    event.type = "write" =>
        /\ IsFrameOf(event.bytes, event.cmd)
        /\ Len(event.bytes) <= 28

\* The frame f of Pn532Frame says of the buffer what the driver's tests find.
Agrees(f) ==
    /\ IsAckFrame(f) = ReadAckFrame(recvBuffer)
    /\ event.length = 28 => (Byte(8) = 0) \in StatusIsZero(f)
    /\ event.handler = "uid" =>
        /\ UidAccepted(f.uid) = (uidLength > 0)
        /\ UidAccepted(f.uid) /\ f.uid # CutUid => SubSeq(uid, 1, uidLength) = f.uid

\* Pn532Frame is a true abstraction of the bytes: whatever the chip sends and
\* wherever the read breaks off, one of the frames that BrzoI2c leaves in the
\* buffer agrees with the driver's tests on the bytes: is it an ACK, is the
\* status zero, is there a UID and whose.
FramesStandForBytes ==
    event.type = "read" =>
        \E frame \in event.offer.frames :
            \E f \in IF event.count = event.length
                        THEN {ReadInto(Plain("zero"), frame, event.length = 28)}
                        ELSE PartsInto(Plain("zero"), frame, event.length = 28) :
                Agrees(f)

\* The text that is printed for a block, the sixteen bytes from the tenth on,
\* has no terminator of its own.  Where dataInBlock ends keyUniversal follows,
\* without a zero, and then recvBuffer, for which the block is still there: its
\* second byte ends the text at the latest, a preamble or a byte that has not
\* come.  Only the test of the status keeps away the bytes that have no zero.
TextEnds ==
    event.type = "read" /\ event.handler = "data" /\ BlockAccepted(recvBuffer) =>
        \E i \in 10..25 \cup 1..2 : recvBuffer[i] = 0

\* Behind the struct's end memory is cleared only when pn532ReadCardUid takes
\* something else for the answer to a listing, junk or the data of a block, with
\* a length that no card has: no answer to a listing, whole or broken off
\* anywhere, and whatever was read before it, reaches there.
OnlyStraysReachBeyond ==
    [][beyond' # beyond => \A frame \in event'.offer.frames : frame.kind # "target"]_vars

\* An authentication names the card that was printed last, all of its UID and
\* nothing else, although refused UIDs, longer ones and broken reads have gone
\* through the same array in between.
PrintedIsAuthenticated ==
    event.type = "write" /\ event.cmd[1] = 64 /\ event.cmd[3] = 97 =>
        SubSeq(event.cmd, 11, Len(event.cmd)) = printed

\* A command fits the local array in which it is put together, but for one: an
\* authentication for a UID of seven bytes has 17, and _cmd has 16.
CommandFits ==
    event.type = "write" /\ Len(event.cmd) > event.room =>
        event.cmd[1] = 64 /\ event.cmd[3] = 97 /\ uidLength = 7
=============================================================================
