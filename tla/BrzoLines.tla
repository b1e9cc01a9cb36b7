----------------------------- MODULE BrzoLines -----------------------------
(***************************************************************************)
(* brzo_i2c_write and brzo_i2c_read of driver/brzo_i2c.c, bit by bit.  One *)
(* action is one store to a line with the delay that follows it, or one    *)
(* sample; pc names the piece of assembler it models.  pn532.c never asks  *)
(* for a repeated start nor for an empty transfer, so neither is here.     *)
(***************************************************************************)
EXTENDS I2cSlave

CONSTANT
    ClockStretch    \* iteration_scl_clock_stretch

ASSUME ClockStretchAssumption == ClockStretch \in Nat \ {0}

VARIABLES
    pc,             \* the next step of the call, "idle" between calls
    kind,           \* the last call: "write" or "read"
    byte,           \* r_byte_to_send, or r_temp2 while a byte is read
    left,           \* the bits of it still to come: r_bit_index = 2^(left - 1)
    data,           \* the bytes to be written, or those read so far
    count,          \* r_no_of_bytes, the bytes still to come
    wait,           \* r_temp1, the low samples of SCL before the time-out
    i2c_error

registers == <<kind, byte, left, data, count, wait>>
vars == <<busLines, registers, pc, i2c_error>>

Payload == UNION {[1..n -> Bytes] : n \in 1..MaxBytes}

\* The state in which brzo_i2c_setup leaves the lines at start-up.
Init ==
    /\ mSda = TRUE /\ mScl = TRUE /\ SlaveInit
    /\ pc = "idle" /\ kind = "write" /\ byte = 0 /\ left = 8
    /\ data = <<>> /\ count = 0 /\ wait = 0
    /\ i2c_error = 0

-----------------------------------------------------------------------------
(* The caller.  With i2c_error set a call returns at once.                 *)

Called(callKind, address) ==
    /\ pc = "idle" /\ i2c_error = 0
    /\ pc' = "start" /\ kind' = callKind /\ byte' = address
    /\ slave' = [slave EXCEPT !.taken = <<>>, !.given = <<>>]
    /\ UNCHANGED <<mSda, mScl, left, wait, i2c_error>>

CallWrite ==
    /\ Called("write", 2 * PN532_I2C_ADDRESS)
    /\ data' \in Payload
    /\ count' = Len(data')

CallRead ==
    /\ Called("read", 2 * PN532_I2C_ADDRESS + 1)
    /\ data' = <<>>
    /\ count' \in 1..MaxBytes

EndTransaction ==
    /\ pc = "idle"
    /\ i2c_error' = 0
    /\ UNCHANGED <<busLines, registers, pc>>

\* brzo_i2c_setup, which pn532.c calls after most errors: both lines high.
Setup ==
    /\ pc = "idle"
    /\ Lines(TRUE, TRUE)
    /\ UNCHANGED <<registers, pc, i2c_error>>

-----------------------------------------------------------------------------
(* The pieces of the two routines.                                         *)

\* A step that only sets the lines.
Drives(at, sda, scl, next) ==
    /\ pc = at
    /\ Lines(sda, scl)
    /\ pc' = next
    /\ UNCHANGED <<registers, i2c_error>>

Fails(code) == i2c_error' = code /\ UNCHANGED <<busLines, registers>>

Loads(b) == byte' = b /\ left' = 8

\* Is the bus free?  Then START.
BusTaken ==
    /\ pc = "start" /\ ~(Sda /\ Scl)
    /\ Fails(1)
    /\ pc' = "idle"

Start ==
    /\ pc = "start" /\ Sda /\ Scl
    /\ Lines(FALSE, TRUE)
    /\ pc' = "bitLow" /\ left' = 8
    /\ UNCHANGED <<kind, byte, data, count, wait, i2c_error>>

\* l_send_bit: SCL low, then SDA to the bit's value, then SCL high.
BitLow == Drives("bitLow", mSda, FALSE, "bitData")

BitData == Drives("bitData", BitOf(byte, left - 1) = 1, FALSE, "bitHigh")

\* SCL is let go, and may be sampled low ClockStretch + 1 times.
Raises(at, next) ==
    /\ pc = at
    /\ Lines(mSda, TRUE)
    /\ wait' = ClockStretch + 1
    /\ pc' = next
    /\ UNCHANGED <<kind, byte, left, data, count, i2c_error>>

BitHigh == Raises("bitHigh", "bitSample")

ReadHigh == Raises("readHigh", "readSample")

\* A slip to test against: the number of iterations is not counted down.
StretchUncounted ==
    /\ pc \in {"bitSample", "readSample"} /\ ~Scl /\ wait > 1
    /\ wait' = wait
    /\ UNCHANGED <<busLines, pc, kind, byte, left, data, count, i2c_error>>

\* l_stretch: SCL is still low.
Stretch ==
    /\ pc \in {"bitSample", "readSample"} /\ ~Scl /\ wait > 1
    /\ wait' = wait - 1
    /\ UNCHANGED <<busLines, pc, kind, byte, left, data, count, i2c_error>>

\* The time-out: no STOP, and SDA stays as it is.
StretchedTooLong ==
    /\ pc \in {"bitSample", "readSample"} /\ ~Scl /\ wait = 1
    /\ Fails(8)
    /\ pc' = "idle"

BitSent ==
    /\ pc = "bitSample" /\ Scl
    /\ IF left > 1 THEN pc' = "bitLow" /\ left' = left - 1
                   ELSE pc' = "ackLow" /\ UNCHANGED left
    /\ UNCHANGED <<busLines, kind, byte, data, count, wait, i2c_error>>

\* The ninth cycle.  brzo_i2c_read has SDA high already, from the last bit of
\* the address.  SCL is not sampled here.
AckLow == Drives("ackLow", mSda, FALSE, IF kind = "write" THEN "ackRelease" ELSE "ackHigh")

AckRelease == Drives("ackRelease", TRUE, FALSE, "ackHigh")

AckHigh == Drives("ackHigh", mSda, TRUE, "ackSample")

Nack ==
    /\ pc = "ackSample" /\ Sda
    /\ Fails(IF kind = "write" THEN 2 ELSE 4)
    /\ pc' = IF kind = "write" THEN "nackSda" ELSE "stopSda"

\* A slip to test against: r_no_of_bytes is not counted down.
SlaveAckUncounted ==
    /\ pc = "ackSample" /\ ~Sda /\ kind = "write"
    /\ Lines(FALSE, TRUE)
    /\ IF count = 0
          THEN pc' = "stopLow" /\ UNCHANGED <<byte, left>>
          ELSE Loads(data[Len(data) - count + 1]) /\ pc' = "bitLow"
    /\ UNCHANGED <<kind, data, count, wait, i2c_error>>

\* l_slave_ack: the master pulls SDA low as well, and goes on to the next byte.
SlaveAck ==
    /\ pc = "ackSample" /\ ~Sda /\ kind = "write"
    /\ Lines(FALSE, TRUE)
    /\ IF count = 0
          THEN pc' = "stopLow" /\ UNCHANGED <<byte, left, count>>
          ELSE /\ Loads(data[Len(data) - count + 1])
               /\ count' = count - 1
               /\ pc' = "bitLow"
    /\ UNCHANGED <<kind, data, wait, i2c_error>>

\* A slip to test against: r_temp2 keeps the bits of the address.
SlaveAckReadStale ==
    /\ pc = "ackSample" /\ ~Sda /\ kind = "read"
    /\ left' = 8
    /\ pc' = "readLow"
    /\ UNCHANGED <<busLines, kind, byte, data, count, wait, i2c_error>>

\* l_slave_ack_r
SlaveAckRead ==
    /\ pc = "ackSample" /\ ~Sda /\ kind = "read"
    /\ Loads(0)
    /\ pc' = "readLow"
    /\ UNCHANGED <<busLines, kind, data, count, wait, i2c_error>>

\* l_read_bit: SCL low, SDA let go, SCL high, sample.
ReadLow == Drives("readLow", mSda, FALSE, "readRelease")

ReadRelease == Drives("readRelease", TRUE, FALSE, "readHigh")

BitRead ==
    /\ pc = "readSample" /\ Scl
    /\ byte' = byte + (IF Sda THEN 2^(left - 1) ELSE 0)
    /\ IF left > 1
          THEN pc' = "readLow" /\ left' = left - 1 /\ UNCHANGED <<data, count>>
          ELSE /\ data' = Append(data, byte')
               /\ count' = count - 1
               /\ pc' = "answerLow"
               /\ UNCHANGED left
    /\ UNCHANGED <<busLines, kind, wait, i2c_error>>

\* The master's acknowledge: SDA low if it wants more, high after the last.
AnswerLow == Drives("answerLow", mSda, FALSE, "answerSda")

\* A slip to test against: the last byte is acknowledged as well.
AnswerAlways == Drives("answerSda", FALSE, FALSE, "answerHigh")

AnswerSda == Drives("answerSda", count = 0, FALSE, "answerHigh")

AnswerHigh ==
    /\ pc = "answerHigh"
    /\ Lines(mSda, TRUE)
    /\ IF count = 0 THEN pc' = "stopSda" /\ UNCHANGED <<byte, left>>
                    ELSE pc' = "readLow" /\ Loads(0)
    /\ UNCHANGED <<kind, data, count, wait, i2c_error>>

\* STOP.  After a byte that was acknowledged it begins with SCL low; reading
\* pulls SDA low before that; l_stop_after_NACK leaves SCL high.
StopSda == Drives("stopSda", FALSE, TRUE, "stopLow")

StopLow == Drives("stopLow", mSda, FALSE, "stopHigh")

StopHigh == Drives("stopHigh", FALSE, TRUE, "stopEnd")

NackSda == Drives("nackSda", FALSE, TRUE, "stopEnd")

StopEnd == Drives("stopEnd", TRUE, TRUE, "idle")

-----------------------------------------------------------------------------

Calls == CallWrite \/ CallRead \/ EndTransaction \/ Setup

Code ==
    \/ BusTaken \/ Start
    \/ BitLow \/ BitData \/ BitHigh \/ BitSent
    \/ Stretch \/ StretchedTooLong
    \/ AckLow \/ AckRelease \/ AckHigh \/ Nack \/ SlaveAck \/ SlaveAckRead
    \/ ReadLow \/ ReadRelease \/ ReadHigh \/ BitRead
    \/ AnswerLow \/ AnswerSda \/ AnswerHigh
    \/ StopSda \/ StopLow \/ StopHigh \/ NackSda \/ StopEnd

LetsGo == SlaveReleases /\ UNCHANGED <<registers, pc, i2c_error>>

Next == Calls \/ Code \/ LetsGo

\* The routine runs, with interrupts disabled, to its end.  Nothing is assumed
\* of the slave, which may keep SCL low for ever.
Spec == Init /\ [][Next]_vars /\ WF_vars(Code)

-----------------------------------------------------------------------------
(* Properties.                                                             *)

Label ==
    {"idle", "start", "bitLow", "bitData", "bitHigh", "bitSample", "ackLow",
     "ackRelease", "ackHigh", "ackSample", "readLow", "readRelease", "readHigh",
     "readSample", "answerLow", "answerSda", "answerHigh", "stopSda", "stopLow",
     "stopHigh", "nackSda", "stopEnd"}

\* Every register keeps to its width and range: the index never leaves the
\* buffer, and a byte put together from eight samples fits eight bits.
TypeOK ==
    /\ mSda \in BOOLEAN /\ mScl \in BOOLEAN
    /\ slave \in Slave
    /\ pc \in Label /\ kind \in {"write", "read"}
    /\ byte \in 0..255 /\ left \in 1..8
    /\ data \in Seq(0..255) /\ Len(data) <= MaxBytes
    /\ count \in 0..MaxBytes /\ wait \in 0..ClockStretch + 1
    /\ i2c_error \in {0, 1, 2, 4, 8}

\* The lines implement the calls: whatever the slave refuses and however long
\* it stretches its clocks, the bytes arrive unchanged and in order, the error
\* code tells how far the call got, and every call returns.  A register holds
\* the error code until the end of the routine.
I2c == INSTANCE I2cCalls WITH
    call   <- IF pc = "idle" THEN "none" ELSE kind,
    todo   <- IF kind = "write" THEN data ELSE <<>>,
    taken  <- slave.taken,
    wanted <- IF kind = "read" THEN Len(data) + count ELSE 0,
    given  <- slave.given,
    buffer <- IF kind = "read" THEN data ELSE <<>>,
    i2c_error <- IF pc = "idle" THEN i2c_error ELSE 0

ImplementsCalls == I2c!CallsSpec

\* The most steps that a bit takes, with every sample but the last one low, and
\* that n bits take; and a byte with its acknowledge, and n bytes.
BitSteps == ClockStretch + 4
BitsTake(n) == n * BitSteps
ByteSteps == 8 * BitSteps + 4
BytesTake(n) == n * ByteSteps

\* The most steps that the piece of the routine at pc takes.
PieceLeft ==
    CASE pc \in {"bitLow", "readLow"}       -> BitSteps
      [] pc \in {"bitData", "readRelease"}  -> BitSteps - 1
      [] pc \in {"bitHigh", "readHigh"}     -> BitSteps - 2
      [] pc \in {"bitSample", "readSample"} -> wait
      [] pc \in {"ackLow", "stopSda"}       -> 4
      [] pc \in {"ackRelease", "answerLow", "stopLow"} -> 3
      [] pc \in {"ackHigh", "answerSda", "stopHigh", "nackSda"} -> 2
      [] pc \in {"start", "ackSample", "answerHigh", "stopEnd"} -> 1
      [] pc = "idle"                        -> 0

\* The most steps that a call still takes: the bits and the acknowledge of this
\* byte, the bytes to come (the one that is being read is still counted), STOP.
StepsLeft ==
    PieceLeft +
    CASE pc \in {"idle", "nackSda", "stopSda", "stopLow", "stopHigh", "stopEnd"} -> 0
      [] pc = "start" -> BytesTake(count + 1) + 4
      [] pc \in {"bitLow", "bitData", "bitHigh", "bitSample"} ->
            BitsTake(left - 1) + 4 + BytesTake(count) + 4
      [] pc \in {"readLow", "readRelease", "readHigh", "readSample"} ->
            BitsTake(left - 1) + 4 + BytesTake(count - 1) + 4
      [] OTHER -> BytesTake(count) + 4

\* Whatever the slave does, and it may hold SCL low for ever, a call is over
\* after a bounded number of steps: each of its steps leaves fewer to be taken,
\* and the slave adds none.  Interrupts are disabled for no longer.
CallsEnd ==
    [][IF Code THEN StepsLeft' \in 0..(StepsLeft - 1)
               ELSE pc # "idle" => StepsLeft' = StepsLeft]_vars

Returns == pc # "idle" /\ pc' = "idle"

\* A call that has come to its end, with a success or after a NACK, leaves
\* both lines high and the slave waiting for the next START: the STOP has been
\* seen, and neither side is in the middle of a byte.  The clock of the STOP is
\* not sampled, so a slave that still stretches it does not see the STOP; that
\* can only be after a write, by a slave that stretches the clock after a byte,
\* and the call returns zero.
BusLeftFree ==
    [][Returns /\ i2c_error' \in {0, 2, 4} =>
            IF slave'.stretch
               THEN kind = "write" /\ i2c_error' = 0 /\ "byte" \in slave'.habit
               ELSE Sda' /\ Scl' /\ slave'.mode = "idle"]_vars

\* Zero means that all bytes have been transferred, as sent.
ZeroMeansDone ==
    [][Returns /\ i2c_error' = 0 =>
            IF kind = "write" THEN slave'.taken = data
                              ELSE data = SubSeq(slave'.given, 1, Len(data))]_vars
=============================================================================
