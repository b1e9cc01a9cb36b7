-------------------------- MODULE BrzoLinesProofs --------------------------
(***************************************************************************)
(* Theorems about BrzoLines: its types, the bus it leaves behind, and that *)
(* it implements the safety part of I2cCalls, for all bytes, buffers and   *)
(* clock stretch limits and for every slave that does not stretch the      *)
(* clock of its acknowledge.  The first part states the inductive          *)
(* invariant.  It says at every piece of the two routines how far the      *)
(* slave is: how many bits of the byte have passed, what its shift         *)
(* register holds of it, and how many of the bytes it has taken or given.  *)
(***************************************************************************)
EXTENDS BrzoLines, SequenceTheorems, TLAPS

\* What is asked of the slave: the clock of its acknowledge, the only one that
\* the routines do not sample, is not one that it stretches.
NoAckStretch == \A habit \in Habits : "ack" \notin habit

-----------------------------------------------------------------------------
(* How far a call is.                                                      *)

\* A write: the bytes of data that have been put on the wire, the one that is
\* on it included.
Sent == Len(data) - count

\* Those that came before the one on the wire.
Before == IF Sent = 0 THEN 0 ELSE Sent - 1

\* The byte on the wire: the address, then the bytes of data.
OnWire ==
    IF kind = "read" THEN 2 * PN532_I2C_ADDRESS + 1
    ELSE IF Sent = 0 THEN 2 * PN532_I2C_ADDRESS ELSE data[Sent]

\* The slave's mode: one for the address, another for what follows it.
Phase(address, later) == IF kind = "read" \/ Sent = 0 THEN address ELSE later

\* A write of which the slave has taken the first n bytes.
Writes(n) ==
    /\ kind = "write" /\ slave.given = <<>>
    /\ data \in Seq(Bytes) /\ Len(data) \in 1..MaxBytes /\ count <= Len(data)
    /\ Len(slave.taken) = n /\ \A i \in 1..n : slave.taken[i] = data[i]

\* A read that has got no further than its address.
Addresses ==
    /\ kind = "read" /\ count > 0
    /\ data = <<>> /\ slave.taken = <<>> /\ slave.given = <<>>

\* A read of whose bytes all but the last n have been stored.
Reads(n) ==
    /\ kind = "read" /\ slave.taken = <<>>
    /\ Len(data) + count <= MaxBytes
    /\ Len(slave.given) = Len(data) + n
    /\ \A i \in 1..Len(data) : slave.given[i] = data[i]

\* The slave has yet to decide on the byte on the wire, or has taken it.
BeforeAck == Addresses \/ Writes(Before)

AfterAck == Addresses \/ Writes(Sent)

\* The bits of b without the last n, shifted down or left in their place.
Top(b, n) == b \div 2^n

Kept(b, n) == Top(b, n) * 2^n

\* All but the last n bits of the byte have been shifted in.
Arrived(n) ==
    /\ slave.mode = Phase("address", "receive")
    /\ slave.bits = 8 - n /\ slave.reg = Top(byte, n)

Bit == BitOf(byte, left - 1) = 1

\* The slave is sending its n-th bit, and byte holds those before.
SendsBack(n) ==
    /\ Reads(1)
    /\ slave.mode = "send" /\ slave.bits = n
    /\ slave.reg = slave.given[Len(data) + 1]
    /\ byte = Kept(slave.reg, left)

-----------------------------------------------------------------------------
(* The pieces of the routines.                                             *)

\* l_send_bit.  The first bit after an acknowledge finds the slave still
\* holding SDA.  While it stretches the clock the bit has not passed yet.
SendsBit ==
    /\ byte = OnWire /\ BeforeAck /\ i2c_error = 0
    /\ pc = "bitLow" =>
          /\ Scl
          /\ \/ Arrived(left)
             \/ /\ kind = "write" /\ Sent > 0 /\ left = 8 /\ ~mSda
                /\ slave.mode = IF Sent = 1 THEN "ackAddress" ELSE "ackData"
                /\ Sent = 1 => slave.reg = 2 * PN532_I2C_ADDRESS
    /\ pc \in {"bitData", "bitHigh"} => ~mScl /\ Arrived(left)
    /\ pc \in {"bitHigh", "bitSample"} => mSda = Bit
    /\ pc = "bitSample" => mScl /\ Arrived(IF slave.stretch THEN left ELSE left - 1)

\* The ninth clock: the slave has refused the byte or taken it.
Acknowledging ==
    /\ byte = OnWire /\ i2c_error = 0 /\ ~slave.stretch
    /\ pc = "ackLow" => Scl /\ Arrived(0) /\ BeforeAck /\ (kind = "read" => mSda)
    /\ pc # "ackLow" =>
          \/ slave.mode = "idle" /\ BeforeAck
          \/ slave.mode = Phase("ackAddress", "ackData") /\ slave.reg = OnWire /\ AfterAck
    /\ pc \in {"ackRelease", "ackHigh"} => ~mScl
    /\ pc \in {"ackHigh", "ackSample"} => mSda
    /\ pc = "ackSample" => Scl

\* l_read_bit.
ReceivesBit ==
    /\ i2c_error = 0 /\ count > 0
    /\ pc = "readLow" =>
          /\ Scl
          /\ \/ left < 8 /\ SendsBack(8 - left)
             \/ /\ left = 8 /\ byte = 0 /\ Reads(0)
                /\ \/ slave.mode = "acked"
                   \/ slave.mode = "ackAddress" /\ slave.reg = 2 * PN532_I2C_ADDRESS + 1
    /\ pc # "readLow" => SendsBack(9 - left)
    /\ pc \in {"readRelease", "readHigh"} => ~mScl
    /\ pc \in {"readHigh", "readSample"} => mSda
    /\ pc = "readSample" => mScl

\* The master's acknowledge of a byte that has been stored.
Answering ==
    /\ Reads(0) /\ i2c_error = 0 /\ ~slave.stretch
    /\ pc = "answerLow" => Scl /\ slave.mode = "send" /\ slave.bits = 8
    /\ pc # "answerLow" => ~mScl /\ slave.mode = "ackWait"
    /\ pc = "answerHigh" => mSda = (count = 0)

\* What the error code says of a call that is about to return.
GotFar ==
    /\ i2c_error \in {0, 2, 4}
    /\ i2c_error = 0 => count = 0 /\ (Writes(Sent) \/ Reads(0))
    /\ i2c_error = 2 => kind = "write" /\ Len(slave.taken) < Len(data)
    /\ i2c_error = 4 => kind = "read" /\ slave.given = <<>>

\* The STOP.  The slave may stretch its clock only after a byte it has taken,
\* the last one of a write.
StretchesStop == "byte" \in slave.habit /\ kind = "write" /\ i2c_error = 0

Ending ==
    /\ GotFar
    /\ pc = "nackSda" => Scl /\ mSda /\ slave.mode = "idle"
    /\ pc = "stopSda" => Scl /\ mSda /\ slave.mode = "idle"
    /\ pc = "stopLow" =>
          /\ Scl /\ ~mSda
          /\ \/ slave.mode = "address" /\ slave.bits = 0
             \/ slave.mode = "ackData" /\ kind = "write" /\ i2c_error = 0
    /\ pc \in {"stopHigh", "stopEnd"} =>
          /\ ~mSda /\ slave.mode \in {"address", "receive"}
          /\ slave.stretch => StretchesStop
    /\ pc = "stopHigh" => ~mScl /\ slave.bits = 0
    /\ pc = "stopEnd" => mScl

\* The whole.  Between calls nothing is known but that SCL has been let go.
LinesInv ==
    /\ pc = "idle" => mScl
    /\ pc = "start" =>
          /\ mScl /\ i2c_error = 0 /\ byte = OnWire
          /\ Addresses \/ (Writes(0) /\ Sent = 0)
    /\ pc \in {"bitLow", "bitData", "bitHigh", "bitSample"} => SendsBit
    /\ pc \in {"ackLow", "ackRelease", "ackHigh", "ackSample"} => Acknowledging
    /\ pc \in {"readLow", "readRelease", "readHigh", "readSample"} => ReceivesBit
    /\ pc \in {"answerLow", "answerSda", "answerHigh"} => Answering
    /\ pc \in {"nackSda", "stopSda", "stopLow", "stopHigh", "stopEnd"} => Ending

Inv == TypeOK /\ LinesInv

-----------------------------------------------------------------------------
(* Bits.                                                                   *)

\* The values of r_bit_index, and 256.
LEMMA Powers ==
    /\ 2^0 = 1 /\ 2^1 = 2 /\ 2^2 = 4 /\ 2^3 = 8 /\ 2^4 = 16
    /\ 2^5 = 32 /\ 2^6 = 64 /\ 2^7 = 128 /\ 2^8 = 256
OBVIOUS

\* Before the first bit nothing has passed, after the last the whole byte.
LEMMA TopBits ==
    ASSUME NEW b \in 0..255
    PROVE  Top(b, 0) = b /\ Top(b, 8) = 0 /\ Kept(b, 0) = b /\ Kept(b, 8) = 0
BY Powers DEF Top, Kept

\* One bit more, shifted in from below as the slave does it.
LEMMA ShiftIn ==
    ASSUME NEW b \in 0..255, NEW n \in 1..8
    PROVE  /\ Top(b, n) \in 0..255 /\ Top(b, n - 1) \in 0..255
           /\ (2 * Top(b, n) + BitOf(b, n - 1)) % 256 = Top(b, n - 1)
<1>1. CASE n = 1
  BY <1>1, Powers DEF Top, BitOf
<1>2. CASE n = 2
  BY <1>2, Powers DEF Top, BitOf
<1>3. CASE n = 3
  BY <1>3, Powers DEF Top, BitOf
<1>4. CASE n = 4
  BY <1>4, Powers DEF Top, BitOf
<1>5. CASE n = 5
  BY <1>5, Powers DEF Top, BitOf
<1>6. CASE n = 6
  BY <1>6, Powers DEF Top, BitOf
<1>7. CASE n = 7
  BY <1>7, Powers DEF Top, BitOf
<1>8. CASE n = 8
  BY <1>8, Powers DEF Top, BitOf
<1> QED BY <1>1, <1>2, <1>3, <1>4, <1>5, <1>6, <1>7, <1>8

\* One bit more, added in its place as brzo_i2c_read does it.
LEMMA PickUp ==
    ASSUME NEW b \in 0..255, NEW n \in 1..8
    PROVE  /\ Kept(b, n) \in 0..255 /\ Kept(b, n - 1) \in 0..255
           /\ Kept(b, n) + (IF BitOf(b, n - 1) = 1 THEN 2^(n - 1) ELSE 0)
                = Kept(b, n - 1)
<1>1. CASE n = 1
  BY <1>1, Powers DEF Top, Kept, BitOf
<1>2. CASE n = 2
  BY <1>2, Powers DEF Top, Kept, BitOf
<1>3. CASE n = 3
  BY <1>3, Powers DEF Top, Kept, BitOf
<1>4. CASE n = 4
  BY <1>4, Powers DEF Top, Kept, BitOf
<1>5. CASE n = 5
  BY <1>5, Powers DEF Top, Kept, BitOf
<1>6. CASE n = 6
  BY <1>6, Powers DEF Top, Kept, BitOf
<1>7. CASE n = 7
  BY <1>7, Powers DEF Top, Kept, BitOf
<1>8. CASE n = 8
  BY <1>8, Powers DEF Top, Kept, BitOf
<1> QED BY <1>1, <1>2, <1>3, <1>4, <1>5, <1>6, <1>7, <1>8

\* A bit is zero or one.
LEMMA BitRange ==
    ASSUME NEW b \in 0..255, NEW n \in 1..8
    PROVE  BitOf(b, n - 1) \in {0, 1}
<1>1. CASE n = 1
  BY <1>1, Powers DEF BitOf
<1>2. CASE n = 2
  BY <1>2, Powers DEF BitOf
<1>3. CASE n = 3
  BY <1>3, Powers DEF BitOf
<1>4. CASE n = 4
  BY <1>4, Powers DEF BitOf
<1>5. CASE n = 5
  BY <1>5, Powers DEF BitOf
<1>6. CASE n = 6
  BY <1>6, Powers DEF BitOf
<1>7. CASE n = 7
  BY <1>7, Powers DEF BitOf
<1>8. CASE n = 8
  BY <1>8, Powers DEF BitOf
<1> QED BY <1>1, <1>2, <1>3, <1>4, <1>5, <1>6, <1>7, <1>8

-----------------------------------------------------------------------------
(* What the master's side of the lines makes of an edge.                   *)

\* SCL goes low: the slave goes on, and may stretch the clock.
LEMMA Falls ==
    ASSUME NEW sda \in BOOLEAN, TypeOK, Scl, Lines(sda, FALSE)
    PROVE  mSda' = sda /\ mScl' = FALSE /\ slave' \in Stretching(Fallen(slave))
BY DEF Lines, Scl, TypeOK

\* With SCL low the data line may change unseen.
LEMMA StaysLow ==
    ASSUME NEW sda \in BOOLEAN, TypeOK, ~mScl, Lines(sda, FALSE)
    PROVE  mSda' = sda /\ mScl' = FALSE /\ slave' = slave
BY DEF Lines, Scl, TypeOK

\* SCL is let go: it rises unless the slave holds it.
LEMMA Rises ==
    ASSUME NEW sda \in BOOLEAN, TypeOK, ~mScl, Lines(sda, TRUE)
    PROVE  /\ mSda' = sda /\ mScl' = TRUE
           /\ slave.stretch => slave' = slave
           /\ ~slave.stretch => slave' = Risen(slave, sda /\ ~PullsSda(slave))
BY DEF Lines, Scl, TypeOK, Slave

\* With SCL high a change of SDA is a START or a STOP.
LEMMA StaysHigh ==
    ASSUME NEW sda \in BOOLEAN, TypeOK, Scl, Lines(sda, TRUE)
    PROVE  /\ mSda' = sda /\ mScl' = TRUE
           /\ Sda /\ ~sda => slave' = Restarted(slave)
           /\ ~Sda /\ sda /\ ~PullsSda(slave) => slave' = Stopped(slave)
           /\ (Sda <=> sda /\ ~PullsSda(slave)) => slave' = slave
BY DEF Lines, Scl, Sda, TypeOK

-----------------------------------------------------------------------------
(* The slave's record: each kind of update keeps its type.                 *)

Mode == {"idle", "address", "ackAddress", "receive", "ackData", "send",
                "ackWait", "acked"}

\* What only a stretched clock changes, or nothing in a call.
Same(s, t) == t.habit = s.habit /\ t.stretch = s.stretch

\* A change of the mode.
LEMMA ModeType ==
    ASSUME NEW s \in Slave, NEW m \in Mode
    PROVE  [s EXCEPT !.mode = m] \in Slave
BY DEF Slave, Mode

\* Another bit sent.
LEMMA BitsType ==
    ASSUME NEW s \in Slave, NEW n \in 0..8
    PROVE  [s EXCEPT !.bits = n] \in Slave
BY DEF Slave

\* The clock held or let go.
LEMMA StretchType ==
    ASSUME NEW s \in Slave, NEW b \in BOOLEAN
    PROVE  [s EXCEPT !.stretch = b] \in Slave
BY DEF Slave

\* A bit shifted in.
LEMMA BitType ==
    ASSUME NEW s \in Slave, NEW n \in 0..8, NEW r \in 0..255
    PROVE  [s EXCEPT !.bits = n, !.reg = r] \in Slave
BY Zenon DEF Slave

\* A new byte begun.
LEMMA ByteType ==
    ASSUME NEW s \in Slave, NEW m \in Mode, NEW n \in 0..8, NEW r \in 0..255
    PROVE  [s EXCEPT !.mode = m, !.bits = n, !.reg = r] \in Slave
BY Zenon DEF Slave, Mode

\* A byte taken.
LEMMA TakenType ==
    ASSUME NEW s \in Slave, NEW m \in Mode, NEW k \in Seq(Bytes)
    PROVE  [s EXCEPT !.mode = m, !.taken = k] \in Slave
BY Zenon DEF Slave, Mode

\* A byte to be sent.
LEMMA GivenType ==
    ASSUME NEW s \in Slave, NEW m \in Mode, NEW n \in 0..8, NEW r \in 0..255,
           NEW g \in Seq(Bytes)
    PROVE  [s EXCEPT !.mode = m, !.bits = n, !.reg = r, !.given = g] \in Slave
BY Zenon DEF Slave, Mode

\* A new call: the history is reset.
LEMMA HistoryType ==
    ASSUME NEW s \in Slave, NEW k \in Seq(Bytes), NEW g \in Seq(Bytes)
    PROVE  [s EXCEPT !.taken = k, !.given = g] \in Slave
BY Zenon DEF Slave

-----------------------------------------------------------------------------
(* The slave's reaction to the edges of SCL, mode by mode.                 *)

\* Its turn to send: it chooses a byte.
LEMMA FallenSends ==
  ASSUME NEW s \in Slave, NEW t \in Fallen(s), (s.mode = "ackAddress" /\ s.reg % 2 = 1) \/ s.mode = "acked"
  PROVE  /\ t \in Slave /\ Same(s, t)
         /\ t.mode = "send" /\ t.bits = 1 /\ t.reg \in Bytes
         /\ t.taken = s.taken /\ t.given = Append(s.given, t.reg)
<1>1. t \in Sending(s)
  BY DEF Fallen
<1>2. PICK b \in Bytes : t = [s EXCEPT !.mode = "send", !.bits = 1, !.reg = b, !.given = Append(@, b)]
  BY <1>1 DEF Sending
<1>3. b \in 0..255 /\ Append(s.given, b) \in Seq(Bytes) /\ "send" \in Mode /\ 1 \in 0..8
  BY SlaveAssumption DEF Slave, Mode
<1>4. t \in Slave
  BY <1>2, <1>3, GivenType, Zenon
<1> QED BY <1>2, <1>4 DEF Slave, Same

\* After its acknowledge of a write it lets SDA go.
LEMMA FallenReceives ==
  ASSUME NEW s \in Slave, NEW t \in Fallen(s), (s.mode = "ackAddress" /\ s.reg % 2 = 0) \/ s.mode = "ackData"
  PROVE  /\ t \in Slave /\ Same(s, t)
         /\ t.mode = "receive" /\ t.bits = 0 /\ t.reg = 0
         /\ t.taken = s.taken /\ t.given = s.given
<1>1. t = [s EXCEPT !.mode = "receive", !.bits = 0, !.reg = 0]
  BY DEF Fallen
<1>2. 0 \in 0..8 /\ 0 \in 0..255 /\ "receive" \in Mode
  BY DEF Mode
<1>3. t \in Slave
  BY <1>1, <1>2, ByteType, Zenon
<1> QED BY <1>1, <1>3 DEF Slave, Same

\* The eighth bit of an address: it refuses or acknowledges.
LEMMA FallenAddressed ==
  ASSUME NEW s \in Slave, NEW t \in Fallen(s), s.mode = "address", s.bits = 8
  PROVE  /\ t \in Slave /\ Same(s, t)
         /\ t.mode \in {"idle", "ackAddress"} /\ t.bits = 8 /\ t.reg = s.reg
         /\ t.taken = s.taken /\ t.given = s.given
<1>1. t = [s EXCEPT !.mode = "idle"] \/ t = [s EXCEPT !.mode = "ackAddress"]
  BY DEF Fallen, Stopped
<1>2. "idle" \in Mode /\ "ackAddress" \in Mode
  BY DEF Mode
<1>3. t \in Slave
  BY <1>1, <1>2, ModeType
<1> QED BY <1>1, <1>3 DEF Slave, Same

\* The eighth bit of a byte: it refuses it, or takes it.
LEMMA FallenTaken ==
  ASSUME NEW s \in Slave, NEW t \in Fallen(s), s.mode = "receive", s.bits = 8, s.reg \in Bytes
  PROVE  /\ t \in Slave /\ Same(s, t)
         /\ t.bits = 8 /\ t.reg = s.reg /\ t.given = s.given
         /\ \/ t.mode = "idle" /\ t.taken = s.taken
            \/ t.mode = "ackData" /\ t.taken = Append(s.taken, s.reg)
<1>1. \/ t = [s EXCEPT !.mode = "idle"]
      \/ t = [s EXCEPT !.mode = "ackData", !.taken = Append(@, s.reg)]
  BY DEF Fallen, Stopped
<1>2. "idle" \in Mode /\ "ackData" \in Mode /\ Append(s.taken, s.reg) \in Seq(Bytes)
  BY DEF Mode, Slave
<1>3. t \in Slave
  <2>1. CASE t = [s EXCEPT !.mode = "idle"]
    BY <2>1, <1>2, ModeType
  <2>2. CASE t = [s EXCEPT !.mode = "ackData", !.taken = Append(@, s.reg)]
    BY <2>2, <1>2, TakenType
  <2> QED BY <1>1, <2>1, <2>2
<1> QED BY <1>1, <1>3 DEF Slave, Same

\* It sends the next bit, or waits for the master's acknowledge.
LEMMA FallenBack ==
  ASSUME NEW s \in Slave, NEW t \in Fallen(s), s.mode = "send"
  PROVE  /\ t \in Slave /\ Same(s, t)
         /\ t.reg = s.reg /\ t.taken = s.taken /\ t.given = s.given
         /\ IF s.bits < 8 THEN t.mode = "send" /\ t.bits = s.bits + 1
                          ELSE t.mode = "ackWait"
<1>1. t = IF s.bits < 8 THEN [s EXCEPT !.bits = @ + 1]
                        ELSE [s EXCEPT !.mode = "ackWait"]
  BY DEF Fallen, Slave
<1>2. "ackWait" \in Mode /\ (s.bits < 8 => s.bits + 1 \in 0..8)
  BY DEF Mode, Slave
<1>3. t \in Slave
  BY <1>1, <1>2, BitsType, ModeType
<1> QED BY <1>1, <1>3 DEF Slave, Same

\* In the middle of a byte that comes in nothing happens.
LEMMA FallenSame ==
    ASSUME NEW s \in Slave, NEW t \in Fallen(s),
           s.mode \in {"address", "receive"} /\ s.bits < 8
    PROVE  t = s
  <2>1. s.bits # 8
    BY DEF Slave
  <2>2. CASE s.mode = "address"
    BY <2>1, <2>2 DEF Fallen
  <2>3. CASE s.mode = "receive"
    BY <2>1, <2>3 DEF Fallen
  <2> QED BY <2>2, <2>3

\* Records that agree on all but the stretching.
Alike(s, t) ==
    /\ t.mode = s.mode /\ t.bits = s.bits /\ t.reg = s.reg /\ t.habit = s.habit
    /\ t.taken = s.taken /\ t.given = s.given

\* It stretches only a clock that its habit names, hence none after an
\* acknowledge: whoever does not stretch "ack" does so while a byte comes or goes.
LEMMA MayStretch ==
    ASSUME NoAckStretch, NEW states, \A s \in states : s \in Slave /\ ~s.stretch,
           NEW t \in Stretching(states)
    PROVE  \E s \in states :
              /\ t \in Slave /\ Alike(s, t)
              /\ t.stretch => /\ t.mode \in {"receive", "send"}
                              /\ t.mode = "receive" /\ t.bits = 0 => "byte" \in t.habit
<1>1. CASE t \in states
  BY <1>1 DEF Alike
<1>2. CASE \E s \in states : t = [s EXCEPT !.stretch = TRUE] /\ ClockOf(s) \in s.habit
  <2>1. PICK s \in states : t = [s EXCEPT !.stretch = TRUE] /\ ClockOf(s) \in s.habit
    BY <1>2
  <2>2. t \in Slave
    BY <2>1, StretchType
  <2>3. Alike(s, t)
    BY <2>1 DEF Alike, Slave
  <2>4. t \in Slave /\ Alike(s, t)
    BY <2>2, <2>3
  <2>5. s.habit \in Habits
    BY DEF Slave
  <2>6. \A c \in s.habit : c \in {"bit", "byte"}
    <3>1. Habits \subseteq SUBSET {"bit", "byte", "ack"}
      BY SlaveAssumption
    <3>2. s.habit \subseteq {"bit", "byte", "ack"}
      BY <2>5, <3>1
    <3>3. "ack" \notin s.habit
      BY <2>5 DEF NoAckStretch
    <3> QED BY <3>2, <3>3
  <2>7. s.mode \in {"receive", "send"}
    <3>1. CASE s.mode \in {"ackAddress", "ackData", "ackWait"}
      BY <2>1, <2>6, <3>1 DEF ClockOf
    <3>2. CASE s.mode \in {"idle", "address", "acked"}
      BY <2>1, <2>6, <3>2 DEF ClockOf
    <3> QED BY <3>1, <3>2 DEF Slave
  <2>8. s.mode = "receive" /\ s.bits = 0 => "byte" \in s.habit
    BY <2>1 DEF ClockOf
  <2> QED BY <2>4, <2>7, <2>8 DEF Alike
<1> QED BY <1>1, <1>2 DEF Stretching

\* A rising clock shifts a bit in.
LEMMA RisenBit ==
    ASSUME NEW s \in Slave, NEW sda \in BOOLEAN, s.mode \in {"address", "receive"}, s.bits < 8
    PROVE  /\ Risen(s, sda) \in Slave
           /\ Same(s, Risen(s, sda))
           /\ Risen(s, sda).mode = s.mode /\ Risen(s, sda).bits = s.bits + 1
           /\ Risen(s, sda).reg = (2 * s.reg + (IF sda THEN 1 ELSE 0)) % 256
           /\ Risen(s, sda).taken = s.taken /\ Risen(s, sda).given = s.given
<1> DEFINE r == (2 * s.reg + (IF sda THEN 1 ELSE 0)) % 256
<1>1. Risen(s, sda) = [s EXCEPT !.bits = s.bits + 1, !.reg = r]
  BY DEF Risen, Slave
<1>2. s.bits + 1 \in 0..8 /\ r \in 0..255
  <2>1. s.bits + 1 \in 0..8 /\ s.reg \in 0..255
    BY DEF Slave
  <2>2. r \in 0..255
    BY <2>1, (2 * s.reg + 1) % 256 \in 0..255, (2 * s.reg + 0) % 256 \in 0..255
  <2> QED BY <2>1, <2>2
<1> HIDE DEF r
<1>3. [s EXCEPT !.bits = s.bits + 1, !.reg = r] \in Slave
  BY <1>2, BitType, Zenon
<1>4. QED BY <1>1, <1>3 DEF Slave, Same, r

\* It shows the slave the master's acknowledge.
LEMMA RisenAnswer ==
    ASSUME NEW s \in Slave, NEW sda \in BOOLEAN, s.mode = "ackWait"
    PROVE  /\ Risen(s, sda) \in Slave
           /\ Same(s, Risen(s, sda))
           /\ Risen(s, sda).mode = IF sda THEN "idle" ELSE "acked"
           /\ Risen(s, sda).taken = s.taken /\ Risen(s, sda).given = s.given
<1>1. Risen(s, sda) = [s EXCEPT !.mode = IF sda THEN "idle" ELSE "acked"]
  BY DEF Risen
<1>2. (IF sda THEN "idle" ELSE "acked") \in Mode
  BY DEF Mode
<1>3. Risen(s, sda) \in Slave
  BY <1>1, <1>2, ModeType
<1> QED BY <1>1, <1>3 DEF Slave, Same

\* In the other modes it changes nothing.
LEMMA RisenSame ==
    ASSUME NEW s \in Slave, NEW sda \in BOOLEAN,
           s.mode \in {"idle", "ackAddress", "ackData", "send", "acked"}
    PROVE  Risen(s, sda) = s
BY DEF Risen

\* In no mode does it change the history.
LEMMA RisenType ==
    ASSUME NEW s \in Slave, NEW sda \in BOOLEAN
    PROVE  /\ Risen(s, sda) \in Slave /\ Same(s, Risen(s, sda))
           /\ Risen(s, sda).taken = s.taken /\ Risen(s, sda).given = s.given
<1>1. CASE s.mode \in {"address", "receive"} /\ s.bits < 8
  BY <1>1, RisenBit
<1>2. CASE s.mode \in {"address", "receive"} /\ ~(s.bits < 8)
  BY <1>2 DEF Risen, Same
<1>3. CASE s.mode = "ackWait"
  BY <1>3, RisenAnswer
<1>4. CASE s.mode \in {"idle", "ackAddress", "ackData", "send", "acked"}
  BY <1>4, RisenSame DEF Same
<1> QED BY <1>1, <1>2, <1>3, <1>4 DEF Slave

\* The slave after a fall: as in s, and perhaps stretching.
Fell(s) ==
    /\ slave' \in Slave /\ Alike(s, slave')
    /\ slave'.stretch => /\ slave'.mode \in {"receive", "send"}
                         /\ slave'.mode = "receive" /\ slave'.bits = 0
                              => "byte" \in slave'.habit

\* The two together: SCL has been pulled low.
LEMMA Fall ==
    ASSUME TypeOK, NoAckStretch, Scl, NEW sda \in BOOLEAN, Lines(sda, FALSE),
           \A s \in Fallen(slave) : s \in Slave /\ ~s.stretch
    PROVE  mSda' = sda /\ mScl' = FALSE /\ \E s \in Fallen(slave) : Fell(s)
<1>1. mSda' = sda /\ mScl' = FALSE /\ slave' \in Stretching(Fallen(slave))
  BY Falls
<1>2. \E s \in Fallen(slave) : Fell(s)
  BY <1>1, MayStretch DEF Fell
<1> QED BY <1>1, <1>2

\* The slave has neither taken nor given a byte.
HistoryKept == slave'.taken = slave.taken /\ slave'.given = slave.given

\* How far the call is does not change as long as the registers and the history
\* do not.
LEMMA KeepsHistory ==
    ASSUME kind' = kind, data' = data, count' = count,
           slave'.taken = slave.taken, slave'.given = slave.given
    PROVE  /\ Sent' = Sent /\ Before' = Before /\ OnWire' = OnWire
           /\ BeforeAck' = BeforeAck /\ AfterAck' = AfterAck
           /\ Addresses' = Addresses
           /\ Reads(0)' = Reads(0) /\ Reads(1)' = Reads(1)
           /\ Writes(0)' = Writes(0) /\ Writes(Sent)' = Writes(Sent)
<1>1. Sent' = Sent
  BY DEF Sent
<1>2. Before' = Before /\ OnWire' = OnWire
  BY <1>1 DEF Before, OnWire
<1>3. Addresses' <=> Addresses
  BY DEF Addresses
<1>4. ASSUME NEW CONSTANT n
      PROVE Writes(n)' <=> Writes(n)
  BY DEF Writes
<1>5. Writes(Sent)' <=> Writes(Sent)
  BY <1>1 DEF Writes
<1>6. Writes(Before)' <=> Writes(Before)
  BY <1>2 DEF Writes
<1>7. (Reads(0)' <=> Reads(0)) /\ (Reads(1)' <=> Reads(1))
  BY DEF Reads
<1> QED BY <1>1, <1>2, <1>3, <1>4, <1>5, <1>6, <1>7 DEF BeforeAck, AfterAck, Addresses, Writes, Reads

-----------------------------------------------------------------------------
(* Every step keeps the invariant; one lemma per action.                   *)

\* SCL low before a bit: in the middle of a byte nothing happens, at the first
\* bit of a data byte the slave ends its acknowledge.
LEMMA BitLowStep ==
    ASSUME Inv, NoAckStretch, BitLow
    PROVE  Inv' /\ HistoryKept
<1>1. /\ TypeOK /\ SendsBit /\ Scl /\ pc = "bitLow" /\ pc' = "bitData"
      /\ Lines(mSda, FALSE)
      /\ UNCHANGED <<kind, byte, left, data, count, wait, i2c_error>>
  BY DEF Inv, LinesInv, BitLow, Drives, registers, SendsBit
<1>2. /\ slave \in Slave /\ ~slave.stretch /\ left \in 1..8 /\ byte \in 0..255
      /\ mSda \in BOOLEAN
  BY <1>1 DEF TypeOK, Scl
<1>3. \A s \in Fallen(slave) :
          /\ s \in Slave /\ ~s.stretch
          /\ s.mode = Phase("address", "receive")
          /\ s.bits = 8 - left /\ s.reg = Top(byte, left)
          /\ s.taken = slave.taken /\ s.given = slave.given
  <2> SUFFICES ASSUME NEW s \in Fallen(slave)
      PROVE /\ s \in Slave /\ ~s.stretch
            /\ s.mode = Phase("address", "receive")
            /\ s.bits = 8 - left /\ s.reg = Top(byte, left)
            /\ s.taken = slave.taken /\ s.given = slave.given
    OBVIOUS
  <2>1. CASE Arrived(left)
    <3>1. slave.mode \in {"address", "receive"} /\ slave.bits < 8
      BY <1>2, <2>1 DEF Arrived, Phase
    <3> QED BY <1>2, <2>1, <3>1, FallenSame DEF Arrived
  <2>2. CASE ~Arrived(left)
    <3>1. /\ kind = "write" /\ Sent > 0 /\ left = 8
          /\ \/ slave.mode = "ackAddress" /\ slave.reg = 2 * PN532_I2C_ADDRESS
             \/ slave.mode = "ackData"
      BY <1>1, <2>2 DEF SendsBit
    <3>2. slave.mode = "ackAddress" => slave.reg % 2 = 0
      BY <3>1 DEF PN532_I2C_ADDRESS
    <3>3. /\ s \in Slave /\ Same(slave, s) /\ s.mode = "receive" /\ s.bits = 0 /\ s.reg = 0
          /\ s.taken = slave.taken /\ s.given = slave.given
      BY <1>2, <3>1, <3>2, FallenReceives
    <3> QED BY <1>2, <3>1, <3>3, TopBits DEF Phase, Same
  <2> QED BY <2>1, <2>2
<1>4. mSda' = mSda /\ mScl' = FALSE /\ \E s \in Fallen(slave) : Fell(s)
  BY <1>1, <1>2, <1>3, Fall
<1>5. /\ slave' \in Slave
      /\ slave'.mode = Phase("address", "receive")
      /\ slave'.bits = 8 - left /\ slave'.reg = Top(byte, left)
      /\ slave'.taken = slave.taken /\ slave'.given = slave.given
  BY <1>3, <1>4 DEF Fell, Alike
<1>6. TypeOK'
  BY <1>1, <1>2, <1>4, <1>5 DEF TypeOK, Label
<1>7. SendsBit'
  <2>1. Sent' = Sent /\ OnWire' = OnWire /\ BeforeAck'
    BY <1>1, <1>5, KeepsHistory DEF SendsBit
  <2>2. Arrived(left)'
    BY <1>1, <1>5, <2>1 DEF Arrived, Phase
  <2> QED BY <1>1, <1>4, <2>1, <2>2 DEF SendsBit
<1> QED BY <1>5, <1>1, <1>6, <1>7 DEF HistoryKept, Inv, LinesInv

\* SDA set to the bit.
LEMMA BitDataStep ==
    ASSUME Inv, BitData
    PROVE  Inv' /\ HistoryKept
<1>1. /\ TypeOK /\ SendsBit /\ pc = "bitData" /\ pc' = "bitHigh" /\ ~mScl
      /\ Lines(Bit, FALSE)
      /\ UNCHANGED <<kind, byte, left, data, count, wait, i2c_error>>
  BY DEF Inv, LinesInv, BitData, Drives, registers, SendsBit, Bit
<1>2. mSda' = Bit /\ mScl' = FALSE /\ slave' = slave
  BY <1>1, StaysLow DEF Bit
<1>3. TypeOK'
  BY <1>1, <1>2 DEF TypeOK, Label, Bit
<1>4. SendsBit'
  <2>1. Sent' = Sent /\ OnWire' = OnWire /\ BeforeAck'
    BY <1>1, <1>2, KeepsHistory DEF SendsBit
  <2>2. Arrived(left)'
    BY <1>1, <1>2, <2>1 DEF Arrived, Phase, SendsBit
  <2>3. Bit' = Bit
    BY <1>1 DEF Bit
  <2> QED BY <1>1, <1>2, <2>1, <2>2, <2>3 DEF SendsBit
<1> QED BY <1>2, <1>1, <1>3, <1>4 DEF HistoryKept, Inv, LinesInv

\* A bit that the slave shifts in.
LEMMA ShiftsIn ==
    ASSUME TypeOK, NEW s \in Slave, s.mode \in {"address", "receive"},
           s.bits = 8 - left, s.reg = Top(byte, left)
    PROVE  /\ Risen(s, Bit) \in Slave /\ Same(s, Risen(s, Bit))
           /\ Risen(s, Bit).mode = s.mode
           /\ Risen(s, Bit).bits = 8 - (left - 1)
           /\ Risen(s, Bit).reg = Top(byte, left - 1)
           /\ Risen(s, Bit).taken = s.taken /\ Risen(s, Bit).given = s.given
<1>1. left \in 1..8 /\ byte \in 0..255 /\ Bit \in BOOLEAN
  BY DEF TypeOK, Bit
<1>2. (2 * s.reg + (IF Bit THEN 1 ELSE 0)) % 256 = Top(byte, left - 1)
  <2>1. (IF Bit THEN 1 ELSE 0) = BitOf(byte, left - 1)
    BY <1>1, BitRange, Zenon DEF Bit
  <2>2. (2 * Top(byte, left) + BitOf(byte, left - 1)) % 256 = Top(byte, left - 1)
    BY <1>1, ShiftIn, Zenon
  <2> QED BY <2>1, <2>2
<1>3. s.bits < 8 /\ s.bits + 1 = 8 - (left - 1)
  BY <1>1
<1> QED BY <1>1, <1>2, <1>3, RisenBit

\* SCL let go: the bit passes unless the slave stretches its clock.
LEMMA BitHighStep ==
    ASSUME Inv, BitHigh
    PROVE  Inv' /\ HistoryKept
<1>1. /\ TypeOK /\ SendsBit /\ pc = "bitHigh" /\ pc' = "bitSample" /\ ~mScl
      /\ Arrived(left) /\ mSda = Bit /\ Lines(mSda, TRUE) /\ wait' = ClockStretch + 1
      /\ UNCHANGED <<kind, byte, left, data, count, i2c_error>>
  BY DEF Inv, LinesInv, BitHigh, Raises, SendsBit, Bit
<1>2. /\ mSda' = mSda /\ mScl' = TRUE
      /\ slave.stretch => slave' = slave
      /\ ~slave.stretch => slave' = Risen(slave, Bit)
  <2>1. mSda /\ ~PullsSda(slave) <=> Bit
    BY <1>1 DEF PullsSda, Arrived, Phase
  <2>2. mSda \in BOOLEAN /\ Bit \in BOOLEAN /\ (mSda /\ ~PullsSda(slave)) = Bit
    BY <1>1, <2>1 DEF TypeOK, Bit
  <2> QED BY <1>1, <2>2, Rises
<1>3. /\ slave' \in Slave /\ slave'.mode = slave.mode /\ slave'.stretch = slave.stretch
      /\ slave'.taken = slave.taken /\ slave'.given = slave.given
      /\ slave.stretch => slave'.bits = 8 - left /\ slave'.reg = Top(byte, left)
      /\ ~slave.stretch => slave'.bits = 8 - (left - 1) /\ slave'.reg = Top(byte, left - 1)
  <2>1. /\ slave \in Slave /\ slave.mode \in {"address", "receive"}
        /\ slave.bits = 8 - left /\ slave.reg = Top(byte, left)
    BY <1>1 DEF TypeOK, Arrived, Phase
  <2> QED BY <1>1, <1>2, <2>1, ShiftsIn DEF Same
<1>4. TypeOK'
  BY <1>1, <1>2, <1>3, ClockStretchAssumption DEF TypeOK, Label
<1>5. SendsBit'
  <2>1. Sent' = Sent /\ OnWire' = OnWire /\ BeforeAck'
    BY <1>1, <1>3, KeepsHistory DEF SendsBit
  <2>2. IF slave'.stretch THEN Arrived(left)' ELSE Arrived(left - 1)'
    BY <1>1, <1>3, <2>1 DEF Arrived, Phase
  <2>3. Bit' = Bit
    BY <1>1 DEF Bit
  <2> QED BY <1>1, <1>2, <2>1, <2>2, <2>3 DEF SendsBit
<1> QED BY <1>3, <1>1, <1>4, <1>5 DEF HistoryKept, Inv, LinesInv

\* A sample of a clock that is still low.
LEMMA StretchStep ==
    ASSUME Inv, Stretch
    PROVE  Inv' /\ HistoryKept
<1>1. /\ TypeOK /\ LinesInv /\ pc \in {"bitSample", "readSample"} /\ wait > 1
      /\ wait' = wait - 1
      /\ UNCHANGED <<mSda, mScl, slave, pc, kind, byte, left, data, count, i2c_error>>
  BY DEF Inv, Stretch, busLines
<1>2. TypeOK'
  BY <1>1, ClockStretchAssumption DEF TypeOK
<1>3. /\ Sent' = Sent /\ OnWire' = OnWire /\ BeforeAck' = BeforeAck
      /\ Reads(1)' = Reads(1) /\ Bit' = Bit /\ Scl' = Scl
  BY <1>1, KeepsHistory DEF Bit, Scl
<1>4. CASE pc = "bitSample"
  <2>1. SendsBit
    BY <1>1, <1>4 DEF LinesInv
  <2>2. /\ Arrived(left)' = Arrived(left) /\ Arrived(left - 1)' = Arrived(left - 1)
    BY <1>1, <1>3 DEF Arrived, Phase
  <2>3. SendsBit'
    BY <1>1, <1>3, <1>4, <2>1, <2>2 DEF SendsBit
  <2> QED BY <1>1, <1>2, <1>4, <2>3 DEF HistoryKept, Inv, LinesInv
<1>5. CASE pc = "readSample"
  <2>1. ReceivesBit
    BY <1>1, <1>5 DEF LinesInv
  <2>2. SendsBack(9 - left)'
    BY <1>1, <1>3, <1>5, <2>1 DEF ReceivesBit, SendsBack
  <2>3. ReceivesBit'
    BY <1>1, <1>5, <2>1, <2>2 DEF ReceivesBit
  <2> QED BY <1>1, <1>2, <1>5, <2>3 DEF HistoryKept, Inv, LinesInv
<1> QED BY <1>1, <1>4, <1>5

\* The time-out.
LEMMA StretchedTooLongStep ==
    ASSUME Inv, StretchedTooLong
    PROVE  Inv' /\ HistoryKept
<1>1. /\ TypeOK /\ LinesInv /\ pc \in {"bitSample", "readSample"}
      /\ pc' = "idle" /\ i2c_error' = 8
      /\ UNCHANGED <<mSda, mScl, slave, kind, byte, left, data, count, wait>>
  BY DEF Inv, StretchedTooLong, Fails, busLines, registers
<1>2. TypeOK'
  BY <1>1 DEF TypeOK, Label
<1>3. mScl
  BY <1>1 DEF LinesInv, SendsBit, ReceivesBit
<1> QED BY <1>1, <1>2, <1>3 DEF HistoryKept, Inv, LinesInv

\* The clock is high: on to the next bit or to the acknowledge.
LEMMA BitSentStep ==
    ASSUME Inv, BitSent
    PROVE  Inv' /\ HistoryKept
<1>1. /\ TypeOK /\ SendsBit /\ pc = "bitSample" /\ Scl
      /\ UNCHANGED <<mSda, mScl, slave, kind, byte, data, count, wait, i2c_error>>
      /\ IF left > 1 THEN pc' = "bitLow" /\ left' = left - 1
                     ELSE pc' = "ackLow" /\ left' = left
  BY DEF Inv, LinesInv, BitSent, busLines
<1>2. mScl /\ ~slave.stretch /\ Arrived(left - 1) /\ mSda = Bit
  BY <1>1 DEF SendsBit, Scl
<1>3. /\ Sent' = Sent /\ OnWire' = OnWire /\ BeforeAck' = BeforeAck /\ Scl'
  BY <1>1, KeepsHistory DEF Scl
<1>4. TypeOK'
  BY <1>1 DEF TypeOK, Label
<1>5. CASE left > 1
  <2>1. Arrived(left)'
    BY <1>1, <1>2, <1>3, <1>5 DEF Arrived, Phase
  <2>2. SendsBit'
    BY <1>1, <1>3, <1>5, <2>1 DEF SendsBit
  <2> QED BY <1>1, <1>4, <1>5, <2>2 DEF HistoryKept, Inv, LinesInv
<1>6. CASE ~(left > 1)
  <2>1. left = 1
    BY <1>1, <1>6 DEF TypeOK
  <2>2. Arrived(0)'
    BY <1>1, <1>2, <1>3, <2>1 DEF Arrived, Phase
  <2>3. kind = "read" => mSda
    <3>1. kind = "read" => byte = 73
      BY <1>1 DEF SendsBit, OnWire, PN532_I2C_ADDRESS
    <3>2. BitOf(73, 0) = 1
      BY Powers DEF BitOf
    <3>3. left - 1 = 0
      BY <2>1
    <3>4. kind = "read" => Bit
      BY <3>1, <3>2, <3>3 DEF Bit
    <3> QED BY <1>2, <3>4
  <2>4. Acknowledging'
    BY <1>1, <1>2, <1>3, <1>6, <2>2, <2>3 DEF Acknowledging, SendsBit
  <2> QED BY <1>1, <1>4, <1>6, <2>4 DEF HistoryKept, Inv, LinesInv
<1> QED BY <1>5, <1>6

\* The byte on its way is the next one of data: if the slave takes it, what it
\* has taken is one longer.
LEMMA TakesByte ==
    ASSUME TypeOK, BeforeAck, kind = "write", Sent > 0, NEW k, k = Append(slave.taken, OnWire),
           kind' = kind, data' = data, count' = count,
           slave'.taken = k, slave'.given = slave.given
    PROVE  AfterAck'
<1>1. /\ slave.given = <<>> /\ data \in Seq(Bytes) /\ Len(data) \in 1..MaxBytes
      /\ count <= Len(data) /\ Len(slave.taken) = Before
      /\ \A i \in 1..Before : slave.taken[i] = data[i]
  BY DEF BeforeAck, Writes, Addresses
<1>2. /\ count \in Nat /\ Len(data) \in Nat /\ slave.taken \in Seq(Bytes)
      /\ Sent \in 1..Len(data) /\ Before = Sent - 1 /\ OnWire = data[Sent]
  BY <1>1 DEF TypeOK, Slave, Sent, Before, OnWire
<1>3. /\ Len(k) = Sent /\ k[Sent] = data[Sent]
      /\ \A i \in 1..Before : k[i] = slave.taken[i]
  BY <1>1, <1>2
<1>4. \A i \in 1..Sent : k[i] = data[i]
  <2> SUFFICES ASSUME NEW i \in 1..Sent
               PROVE  k[i] = data[i]
    OBVIOUS
  <2>1. CASE i = Sent
    BY <2>1, <1>3
  <2>2. CASE i # Sent
    <3>1. i \in 1..Before
      BY <2>2, <1>2
    <3> QED BY <3>1, <1>1, <1>3
  <2> QED BY <2>1, <2>2
<1>5. Sent' = Sent
  BY DEF Sent
<1>6. Writes(Sent)'
  BY <1>1, <1>3, <1>4, <1>5 DEF Writes
<1> QED BY <1>6 DEF AfterAck

\* The address is not a byte that is taken.
LEMMA NothingTaken ==
    ASSUME TypeOK, BeforeAck, kind = "read" \/ Sent = 0
    PROVE  AfterAck
<1>1. CASE kind = "read"
  BY <1>1 DEF BeforeAck, AfterAck, Writes
<1>2. CASE Sent = 0
  <2>1. Before = Sent
    BY <1>2 DEF Before
  <2> QED BY <2>1 DEF BeforeAck, AfterAck
<1> QED BY <1>1, <1>2

\* The ninth clock falls: the slave decides.
LEMMA AckLowStep ==
    ASSUME Inv, NoAckStretch, AckLow
    PROVE  /\ Inv' /\ slave'.given = slave.given
           /\ \/ slave'.taken = slave.taken
              \/ /\ kind = "write" /\ Sent > 0 /\ BeforeAck
                 /\ slave'.taken = Append(slave.taken, OnWire)
<1>1. /\ TypeOK /\ Acknowledging /\ pc = "ackLow" /\ Lines(mSda, FALSE)
      /\ Scl /\ Arrived(0) /\ BeforeAck /\ (kind = "read" => mSda)
      /\ pc' = IF kind = "write" THEN "ackRelease" ELSE "ackHigh"
      /\ UNCHANGED <<kind, byte, left, data, count, wait, i2c_error>>
  BY DEF Inv, LinesInv, AckLow, Drives, registers, Acknowledging
<1>2. /\ slave \in Slave /\ ~slave.stretch /\ byte \in 0..255 /\ mSda \in BOOLEAN
      /\ kind \in {"write", "read"} /\ byte = OnWire
  BY <1>1 DEF TypeOK, Scl, Acknowledging
<1>3. slave.bits = 8 /\ slave.reg = OnWire /\ slave.mode = Phase("address", "receive")
  BY <1>1, <1>2, TopBits DEF Arrived
<1>4. \A s \in Fallen(slave) :
          /\ s \in Slave /\ ~s.stretch /\ s.reg = OnWire /\ s.given = slave.given
          /\ \/ s.mode = "idle" /\ s.taken = slave.taken
             \/ /\ kind = "read" \/ Sent = 0
                /\ s.mode = "ackAddress" /\ s.taken = slave.taken
             \/ /\ kind = "write" /\ Sent > 0
                /\ s.mode = "ackData" /\ s.taken = Append(slave.taken, OnWire)
  <2>1. CASE kind = "read" \/ Sent = 0
    BY <1>2, <1>3, <2>1, FallenAddressed DEF Phase, Same
  <2>2. CASE ~(kind = "read" \/ Sent = 0)
    <3>1. data \in Seq(Bytes) /\ Sent \in 1..Len(data) /\ kind = "write"
      BY <1>1, <1>2, <2>2 DEF BeforeAck, Writes, Addresses, Sent, TypeOK
    <3>2. OnWire \in Bytes
      BY <3>1 DEF OnWire
    <3>3. slave.mode = "receive"
      BY <1>3, <2>2 DEF Phase
    <3> QED BY <1>2, <1>3, <3>1, <3>2, <3>3, FallenTaken DEF Same
  <2> QED BY <2>1, <2>2
<1>5. mSda' = mSda /\ mScl' = FALSE /\ \E s \in Fallen(slave) : Fell(s)
  BY <1>1, <1>2, <1>4, Fall
<1>6. PICK s \in Fallen(slave) : Fell(s)
  BY <1>5
<1>7. /\ slave' \in Slave /\ ~slave'.stretch /\ slave'.reg = OnWire
      /\ slave'.given = slave.given
      /\ \/ slave'.mode = "idle" /\ slave'.taken = slave.taken
         \/ /\ kind = "read" \/ Sent = 0
            /\ slave'.mode = "ackAddress" /\ slave'.taken = slave.taken
         \/ /\ kind = "write" /\ Sent > 0
            /\ slave'.mode = "ackData" /\ slave'.taken = Append(slave.taken, OnWire)
  <2>1. /\ s.reg = OnWire /\ s.given = slave.given
        /\ \/ s.mode = "idle" /\ s.taken = slave.taken
           \/ /\ kind = "read" \/ Sent = 0
              /\ s.mode = "ackAddress" /\ s.taken = slave.taken
           \/ /\ kind = "write" /\ Sent > 0
              /\ s.mode = "ackData" /\ s.taken = Append(slave.taken, OnWire)
    BY <1>4
  <2> QED BY <1>6, <2>1 DEF Fell, Alike, Slave
<1>8. TypeOK'
  BY <1>1, <1>2, <1>5, <1>7 DEF TypeOK, Label
<1>9. Sent' = Sent /\ OnWire' = OnWire
  BY <1>1 DEF Sent, OnWire
<1>10. \/ slave'.mode = "idle" /\ BeforeAck'
       \/ slave'.mode = Phase("ackAddress", "ackData")' /\ AfterAck'
  <2>1. CASE slave'.mode = "idle" /\ slave'.taken = slave.taken
    BY <1>1, <1>7, <2>1, KeepsHistory
  <2>2. CASE (kind = "read" \/ Sent = 0) /\ slave'.mode = "ackAddress" /\ slave'.taken = slave.taken
    <3>1. AfterAck'
      BY <1>1, <1>7, <2>2, KeepsHistory, NothingTaken
    <3> QED BY <1>1, <1>9, <2>2, <3>1 DEF Phase
  <2>3. CASE /\ kind = "write" /\ Sent > 0
             /\ slave'.mode = "ackData" /\ slave'.taken = Append(slave.taken, OnWire)
    <3>1. AfterAck'
      BY <1>1, <1>7, <2>3, TakesByte
    <3> QED BY <1>1, <1>9, <2>3, <3>1 DEF Phase
  <2> QED BY <1>7, <2>1, <2>2, <2>3
<1>11. Acknowledging'
  BY <1>1, <1>2, <1>5, <1>7, <1>9, <1>10 DEF Acknowledging
<1>12. Inv'
  BY <1>1, <1>2, <1>8, <1>11 DEF Inv, LinesInv
<1> QED BY <1>1, <1>7, <1>12

\* SDA let go for the acknowledge.
LEMMA AckReleaseStep ==
    ASSUME Inv, AckRelease
    PROVE  Inv' /\ HistoryKept
<1>1. /\ TypeOK /\ Acknowledging /\ pc = "ackRelease" /\ pc' = "ackHigh" /\ ~mScl
      /\ Lines(TRUE, FALSE)
      /\ UNCHANGED <<kind, byte, left, data, count, wait, i2c_error>>
  BY DEF Inv, LinesInv, AckRelease, Drives, registers, Acknowledging
<1>2. mSda' = TRUE /\ mScl' = FALSE /\ slave' = slave
  BY <1>1, StaysLow
<1>3. TypeOK'
  BY <1>1, <1>2 DEF TypeOK, Label
<1>4. Sent' = Sent /\ OnWire' = OnWire /\ BeforeAck' = BeforeAck /\ AfterAck' = AfterAck
  BY <1>1, <1>2, KeepsHistory
<1>5. Phase("ackAddress", "ackData")' = Phase("ackAddress", "ackData")
  BY <1>1, <1>4 DEF Phase
<1>6. Acknowledging'
  BY <1>1, <1>2, <1>4, <1>5 DEF Acknowledging
<1> QED BY <1>2, <1>1, <1>3, <1>6 DEF HistoryKept, Inv, LinesInv

\* The ninth clock rises.
LEMMA AckHighStep ==
    ASSUME Inv, AckHigh
    PROVE  Inv' /\ HistoryKept
<1>1. /\ TypeOK /\ Acknowledging /\ pc = "ackHigh" /\ pc' = "ackSample" /\ ~mScl
      /\ mSda /\ ~slave.stretch /\ slave \in Slave /\ Lines(mSda, TRUE)
      /\ UNCHANGED <<kind, byte, left, data, count, wait, i2c_error>>
  BY DEF Inv, LinesInv, AckHigh, Drives, registers, Acknowledging, TypeOK
<1>2. slave.mode \in {"idle", "ackAddress", "ackData"}
  BY <1>1 DEF Acknowledging, Phase
<1>3. mSda' = mSda /\ mScl' = TRUE /\ slave' = slave
  <2>1. (mSda /\ ~PullsSda(slave)) \in BOOLEAN /\ mSda \in BOOLEAN
    BY <1>1 DEF TypeOK
  <2>2. mSda' = mSda /\ mScl' = TRUE /\ slave' = Risen(slave, mSda /\ ~PullsSda(slave))
    BY <1>1, <2>1, Rises
  <2> QED BY <1>1, <1>2, <2>1, <2>2, RisenSame
<1>4. TypeOK'
  BY <1>1, <1>3 DEF TypeOK, Label
<1>5. Sent' = Sent /\ OnWire' = OnWire /\ BeforeAck' = BeforeAck /\ AfterAck' = AfterAck
  BY <1>1, <1>3, KeepsHistory
<1>6. Phase("ackAddress", "ackData")' = Phase("ackAddress", "ackData")
  BY <1>1, <1>5 DEF Phase
<1>7. Acknowledging'
  BY <1>1, <1>3, <1>5, <1>6 DEF Acknowledging, Scl
<1> QED BY <1>3, <1>1, <1>4, <1>7 DEF HistoryKept, Inv, LinesInv

\* A refusal: the error code tells which call, and the slave has not got all.
LEMMA NackStep ==
    ASSUME Inv, Nack
    PROVE  Inv' /\ HistoryKept
<1>1. /\ TypeOK /\ Acknowledging /\ pc = "ackSample" /\ Sda /\ Scl /\ mSda
      /\ i2c_error' = IF kind = "write" THEN 2 ELSE 4
      /\ pc' = IF kind = "write" THEN "nackSda" ELSE "stopSda"
      /\ UNCHANGED <<mSda, mScl, slave, kind, byte, left, data, count, wait>>
  BY DEF Inv, LinesInv, Nack, Fails, registers, busLines, Acknowledging
<1>2. slave.mode = "idle" /\ BeforeAck
  BY <1>1 DEF Acknowledging, Sda, PullsSda, Phase
<1>3. TypeOK'
  BY <1>1 DEF TypeOK, Label
<1>4. /\ kind = "write" => Len(slave.taken) < Len(data)
      /\ kind = "read" => slave.given = <<>>
  BY <1>1, <1>2 DEF BeforeAck, Addresses, Writes, Before, Sent, TypeOK
<1>5. kind \in {"read", "write"}
  BY <1>1 DEF TypeOK
<1>6. GotFar'
  BY <1>1, <1>4, <1>5 DEF GotFar
<1>7. Ending'
  BY <1>1, <1>2, <1>5, <1>6 DEF Ending, Scl
<1> QED BY <1>1, <1>3, <1>5, <1>7 DEF HistoryKept, Inv, LinesInv

\* An acknowledge of a write: the next byte, or the end of all of them.
LEMMA SlaveAckStep ==
    ASSUME Inv, SlaveAck
    PROVE  Inv' /\ HistoryKept
<1>1. /\ TypeOK /\ Acknowledging /\ pc = "ackSample" /\ ~Sda /\ Scl /\ mSda
      /\ kind = "write" /\ Lines(FALSE, TRUE)
      /\ UNCHANGED <<kind, data, wait, i2c_error>>
  BY DEF Inv, LinesInv, SlaveAck, Acknowledging
<1>2. /\ AfterAck /\ slave.mode = Phase("ackAddress", "ackData") /\ slave.reg = OnWire
      /\ slave.mode \in {"ackAddress", "ackData"} /\ ~slave.stretch /\ i2c_error = 0
  BY <1>1 DEF Acknowledging, Sda, PullsSda, Phase
<1>3. mSda' = FALSE /\ mScl' = TRUE /\ slave' = slave
  BY <1>1, <1>2, StaysHigh DEF PullsSda
<1>4. /\ data \in Seq(Bytes) /\ Len(data) \in 1..MaxBytes /\ Writes(Sent) 
      /\ count \in 0..Len(data) /\ Sent = Len(data) - count
  BY <1>1, <1>2 DEF AfterAck, Addresses, Writes, TypeOK, Sent
<1>5. CASE count = 0
  <2>1. pc' = "stopLow" /\ UNCHANGED <<byte, left, count>>
    BY <1>5 DEF SlaveAck
  <2>2. TypeOK'
    BY <1>1, <1>3, <2>1 DEF TypeOK, Label
  <2>3. Writes(Sent)'
    BY <1>1, <1>3, <1>4, <2>1, KeepsHistory
  <2>4. GotFar'
    BY <1>1, <1>2, <1>5, <2>1, <2>3 DEF GotFar
  <2>5. slave.mode = "ackData"
    BY <1>2, <1>4, <1>5, <1>1 DEF Phase
  <2>6. Ending'
    BY <1>1, <1>2, <1>3, <2>1, <2>4, <2>5 DEF Ending, Scl
  <2> QED BY <1>3, <2>1, <2>2, <2>6 DEF HistoryKept, Inv, LinesInv
<1>6. CASE count # 0
  <2>1. /\ byte' = data[Len(data) - count + 1] /\ left' = 8
        /\ count' = count - 1 /\ pc' = "bitLow"
    BY <1>6 DEF SlaveAck, Loads
  <2>2. Sent' = Sent + 1 /\ Before' = Sent /\ Sent \in 0..Len(data) - 1
    BY <1>1, <1>4, <1>6, <2>1 DEF Sent, Before
  <2>3. byte' = OnWire' /\ byte' \in 0..255
    <3>1. Sent + 1 \in 1..Len(data) /\ Len(data) - count + 1 = Sent + 1
      BY <1>4, <2>2
    <3>2. data[Sent + 1] \in Bytes
      BY <1>4, <3>1
    <3>3. byte' = data[Sent + 1] /\ byte' \in 0..255
      BY <2>1, <3>1, <3>2, SlaveAssumption
    <3>4. Sent' # 0
      BY <2>2
    <3> QED BY <1>1, <2>2, <3>3, <3>4 DEF OnWire
  <2>4. TypeOK'
    <3>1. count' \in 0..MaxBytes /\ left' \in 1..8 /\ pc' = "bitLow" /\ byte' \in 0..255
      <4>1. count \in 0..MaxBytes /\ MaxBytes \in Nat
        BY <1>1, SlaveAssumption DEF TypeOK
      <4> QED BY <4>1, <1>6, <2>1, <2>3
    <3> QED BY <1>1, <1>3, <3>1 DEF TypeOK, Label
  <2>5. BeforeAck'
    <3>1. Writes(Before)'
      BY <1>1, <1>3, <1>4, <1>6, <2>1, <2>2 DEF Writes
    <3> QED BY <3>1 DEF BeforeAck
  <2>6. /\ slave.mode = IF Sent = 0 THEN "ackAddress" ELSE "ackData"
        /\ Sent = 0 => slave.reg = 2 * PN532_I2C_ADDRESS
    BY <1>1, <1>2 DEF Phase, OnWire
  <2>7. SendsBit'
    BY <1>1, <1>2, <1>3, <2>1, <2>2, <2>3, <2>5, <2>6 DEF SendsBit, Scl
  <2> QED BY <1>3, <2>1, <2>4, <2>7 DEF HistoryKept, Inv, LinesInv
<1> QED BY <1>5, <1>6

\* An acknowledge of the address of a read.
LEMMA SlaveAckReadStep ==
    ASSUME Inv, SlaveAckRead
    PROVE  Inv' /\ HistoryKept
<1>1. /\ TypeOK /\ Acknowledging /\ pc = "ackSample" /\ ~Sda /\ Scl /\ mSda
      /\ kind = "read" /\ byte' = 0 /\ left' = 8 /\ pc' = "readLow"
      /\ UNCHANGED <<mSda, mScl, slave, kind, data, count, wait, i2c_error>>
  BY DEF Inv, LinesInv, SlaveAckRead, Loads, Acknowledging, busLines
<1>2. /\ Addresses /\ slave.mode = "ackAddress" /\ slave.reg = 2 * PN532_I2C_ADDRESS + 1
      /\ i2c_error = 0
  BY <1>1 DEF Acknowledging, Sda, PullsSda, Phase, OnWire, AfterAck, Writes
<1>3. TypeOK'
  BY <1>1 DEF TypeOK, Label
<1>4. Reads(0)'
  BY <1>1, <1>2 DEF Addresses, Reads, TypeOK
<1>5. ReceivesBit'
  BY <1>1, <1>2, <1>4 DEF ReceivesBit, Scl, Addresses
<1> QED BY <1>1, <1>3, <1>5 DEF HistoryKept, Inv, LinesInv

\* SCL low before a bit of the slave: it sends the next, or begins a byte.
LEMMA ReadLowStep ==
    ASSUME Inv, NoAckStretch, ReadLow
    PROVE  /\ Inv' /\ kind = "read" /\ slave'.taken = slave.taken
           /\ \/ slave'.given = slave.given
              \/ /\ Len(slave.given) = Len(data) /\ count > 0
                 /\ \E b \in Bytes : slave'.given = Append(slave.given, b)
<1>1. /\ TypeOK /\ ReceivesBit /\ pc = "readLow" /\ pc' = "readRelease" /\ Scl
      /\ Lines(mSda, FALSE) /\ i2c_error = 0 /\ count > 0
      /\ UNCHANGED <<kind, byte, left, data, count, wait, i2c_error>>
  BY DEF Inv, LinesInv, ReadLow, Drives, registers, ReceivesBit
<1>2. /\ slave \in Slave /\ ~slave.stretch /\ left \in 1..8 /\ mSda \in BOOLEAN
      /\ data \in Seq(0..255) /\ slave.given \in Seq(Bytes)
  BY <1>1 DEF TypeOK, Scl, Slave
<1>3. \A s \in Fallen(slave) :
          /\ s \in Slave /\ ~s.stretch /\ s.mode = "send" /\ s.bits = 9 - left
          /\ kind = "read" /\ s.taken = <<>> /\ slave.taken = <<>>
          /\ Len(data) + count <= MaxBytes
          /\ Len(s.given) = Len(data) + 1
          /\ \A i \in 1..Len(data) : s.given[i] = data[i]
          /\ s.reg = s.given[Len(data) + 1]
          /\ byte = Kept(s.reg, left)
          /\ \/ s.given = slave.given
             \/ /\ Len(slave.given) = Len(data)
                /\ \E b \in Bytes : s.given = Append(slave.given, b)
  <2>1. CASE left < 8 /\ SendsBack(8 - left)
    <3>1. slave.mode = "send" /\ slave.bits = 8 - left /\ slave.bits < 8
      BY <1>2, <2>1 DEF SendsBack
    <3>2. \A s \in Fallen(slave) :
            /\ s \in Slave /\ ~s.stretch /\ s.mode = "send" /\ s.bits = 8 - left + 1
            /\ s.reg = slave.reg /\ s.taken = slave.taken /\ s.given = slave.given
      BY <1>2, <3>1, FallenBack DEF Same
    <3>3. 8 - left + 1 = 9 - left
      BY <1>2
    <3> QED BY <2>1, <3>2, <3>3 DEF SendsBack, Reads
  <2>2. CASE left = 8 /\ byte = 0 /\ Reads(0)
    <3>1. \/ slave.mode = "acked"
          \/ slave.mode = "ackAddress" /\ slave.reg % 2 = 1
      BY <1>1, <2>2 DEF ReceivesBit, SendsBack, PN532_I2C_ADDRESS
    <3>2. ASSUME NEW s \in Fallen(slave)
          PROVE  /\ s \in Slave /\ ~s.stretch /\ s.mode = "send" /\ s.bits = 1
                 /\ s.reg \in Bytes /\ s.reg \in 0..255
                 /\ s.taken = slave.taken /\ s.given = Append(slave.given, s.reg)
      <4>1. /\ s \in Slave /\ Same(slave, s) /\ s.mode = "send" /\ s.bits = 1
            /\ s.reg \in Bytes
            /\ s.taken = slave.taken /\ s.given = Append(slave.given, s.reg)
        BY <1>2, <3>1, FallenSends
      <4>2. s.reg \in 0..255 /\ ~s.stretch
        BY <1>2, <4>1 DEF Slave, Same
      <4> QED BY <4>1, <4>2
    <3>3. Len(slave.given) = Len(data)
      BY <1>2, <2>2 DEF Reads
    <3>4. ASSUME NEW s \in Fallen(slave)
          PROVE  /\ Len(s.given) = Len(data) + 1
                 /\ \A i \in 1..Len(data) : s.given[i] = data[i]
                 /\ s.reg = s.given[Len(data) + 1]
      <4>1. s.reg \in Bytes /\ s.given = Append(slave.given, s.reg)
        BY <3>2
      <4>2. \A i \in 1..Len(data) : slave.given[i] = data[i]
        BY <2>2 DEF Reads
      <4> QED BY <1>2, <3>3, <4>1, <4>2
    <3>5. ASSUME NEW s \in Fallen(slave)
          PROVE  byte = Kept(s.reg, left)
      BY <2>2, <3>2, TopBits
    <3> QED BY <2>2, <3>2, <3>3, <3>4, <3>5 DEF Reads
  <2> QED BY <1>1, <2>1, <2>2 DEF ReceivesBit
<1>4. mSda' = mSda /\ mScl' = FALSE /\ \E s \in Fallen(slave) : Fell(s)
  BY <1>1, <1>2, <1>3, Fall
<1>5. PICK s \in Fallen(slave) : Fell(s)
  BY <1>4
<1>6. /\ slave' \in Slave /\ slave'.mode = "send" /\ slave'.bits = 9 - left
      /\ slave'.taken = <<>>
      /\ Len(slave'.given) = Len(data) + 1
      /\ \A i \in 1..Len(data) : slave'.given[i] = data[i]
      /\ slave'.reg = slave'.given[Len(data) + 1]
      /\ byte = Kept(slave'.reg, left)
  BY <1>3, <1>5 DEF Fell, Alike
<1>7. TypeOK'
  BY <1>1, <1>2, <1>4, <1>6 DEF TypeOK, Label
<1>8. Reads(1)'
  BY <1>1, <1>3, <1>5, <1>6 DEF Reads
<1>9. SendsBack(9 - left)'
  BY <1>1, <1>6, <1>8 DEF SendsBack
<1>10. ReceivesBit'
  BY <1>1, <1>4, <1>9 DEF ReceivesBit
<1>11. Inv'
  BY <1>1, <1>7, <1>10 DEF Inv, LinesInv
<1>12. slave'.given = s.given /\ slave'.taken = s.taken
  BY <1>5 DEF Fell, Alike
<1> QED BY <1>1, <1>3, <1>11, <1>12

\* SDA let go for the slave.
LEMMA ReadReleaseStep ==
    ASSUME Inv, ReadRelease
    PROVE  Inv' /\ HistoryKept
<1>1. /\ TypeOK /\ ReceivesBit /\ pc = "readRelease" /\ pc' = "readHigh" /\ ~mScl
      /\ Lines(TRUE, FALSE)
      /\ UNCHANGED <<kind, byte, left, data, count, wait, i2c_error>>
  BY DEF Inv, LinesInv, ReadRelease, Drives, registers, ReceivesBit
<1>2. mSda' = TRUE /\ mScl' = FALSE /\ slave' = slave
  BY <1>1, StaysLow
<1>3. TypeOK'
  BY <1>1, <1>2 DEF TypeOK, Label
<1>4. SendsBack(9 - left)'
  BY <1>1, <1>2, KeepsHistory DEF ReceivesBit, SendsBack
<1>5. ReceivesBit'
  BY <1>1, <1>2, <1>4 DEF ReceivesBit
<1> QED BY <1>2, <1>1, <1>3, <1>5 DEF HistoryKept, Inv, LinesInv

\* SCL let go.
LEMMA ReadHighStep ==
    ASSUME Inv, ReadHigh
    PROVE  Inv' /\ HistoryKept
<1>1. /\ TypeOK /\ ReceivesBit /\ pc = "readHigh" /\ pc' = "readSample" /\ ~mScl
      /\ mSda /\ Lines(mSda, TRUE) /\ wait' = ClockStretch + 1
      /\ UNCHANGED <<kind, byte, left, data, count, i2c_error>>
  BY DEF Inv, LinesInv, ReadHigh, Raises, ReceivesBit
<1>2. slave.mode = "send" /\ slave \in Slave /\ mSda \in BOOLEAN
  BY <1>1 DEF ReceivesBit, SendsBack, TypeOK
<1>3. mSda' = mSda /\ mScl' = TRUE /\ slave' = slave
  <2>1. (mSda /\ ~PullsSda(slave)) \in BOOLEAN
    OBVIOUS
  <2>2. /\ mSda' = mSda /\ mScl' = TRUE
        /\ slave.stretch => slave' = slave
        /\ ~slave.stretch => slave' = Risen(slave, mSda /\ ~PullsSda(slave))
    BY <1>1, <1>2, <2>1, Rises
  <2> QED BY <1>2, <2>1, <2>2, RisenSame
<1>4. TypeOK'
  BY <1>1, <1>3, ClockStretchAssumption DEF TypeOK, Label
<1>5. SendsBack(9 - left)'
  BY <1>1, <1>3, KeepsHistory DEF ReceivesBit, SendsBack
<1>6. ReceivesBit'
  BY <1>1, <1>3, <1>5 DEF ReceivesBit
<1> QED BY <1>3, <1>1, <1>4, <1>6 DEF HistoryKept, Inv, LinesInv

\* The sample of SDA completes byte to the bits sent so far.
LEMMA BitReads ==
    ASSUME TypeOK, ReceivesBit, pc = "readSample", Scl,
           byte' = byte + (IF Sda THEN 2^(left - 1) ELSE 0)
    PROVE  byte' = Kept(slave.reg, left - 1) /\ byte' \in 0..255
<1>1. /\ left \in 1..8 /\ slave.reg \in 0..255 /\ slave.mode = "send"
      /\ slave.bits = 9 - left /\ byte = Kept(slave.reg, left) /\ mSda
  BY DEF TypeOK, Slave, ReceivesBit, SendsBack
<1>2. Sda <=> BitOf(slave.reg, left - 1) = 1
  <2>1. 8 - slave.bits = left - 1
    BY <1>1
  <2>2. Sda <=> BitOf(slave.reg, left - 1) # 0
    BY <1>1, <2>1 DEF Sda, PullsSda
  <2>3. BitOf(slave.reg, left - 1) \in {0, 1}
    BY <1>1, BitRange, Zenon
  <2> QED BY <2>2, <2>3
<1>3. /\ Kept(slave.reg, left) + (IF BitOf(slave.reg, left - 1) = 1 THEN 2^(left - 1) ELSE 0)
            = Kept(slave.reg, left - 1)
      /\ Kept(slave.reg, left - 1) \in 0..255
  BY <1>1, PickUp, Zenon
<1> QED BY <1>1, <1>2, <1>3

\* A bit is read; the eighth is the end of a byte, which is stored.
LEMMA BitReadStep ==
    ASSUME Inv, BitRead
    PROVE  Inv' /\ HistoryKept
<1>1. /\ TypeOK /\ ReceivesBit /\ SendsBack(9 - left) /\ pc = "readSample" /\ Scl /\ mSda
      /\ i2c_error = 0 /\ count > 0
      /\ UNCHANGED <<mSda, mScl, slave, kind, wait, i2c_error>>
      /\ byte' = byte + (IF Sda THEN 2^(left - 1) ELSE 0)
      /\ IF left > 1
            THEN pc' = "readLow" /\ left' = left - 1 /\ UNCHANGED <<data, count>>
            ELSE /\ data' = Append(data, byte') /\ count' = count - 1
                 /\ pc' = "answerLow" /\ left' = left
  BY DEF Inv, LinesInv, BitRead, ReceivesBit, busLines
<1>2. /\ slave \in Slave /\ left \in 1..8 /\ slave.reg \in 0..255 /\ slave.mode = "send"
      /\ slave.bits = 9 - left /\ slave.reg = slave.given[Len(data) + 1] /\ Reads(1)
      /\ data \in Seq(0..255) /\ byte = Kept(slave.reg, left)
  BY <1>1 DEF TypeOK, Slave, SendsBack
<1>3. byte' = Kept(slave.reg, left - 1) /\ byte' \in 0..255
  BY <1>1, BitReads
<1>4. Scl'
  BY <1>1 DEF Scl
<1>5. CASE left > 1
  <2>1. pc' = "readLow" /\ left' = left - 1 /\ UNCHANGED <<data, count>>
    BY <1>1, <1>5
  <2>2. TypeOK'
    BY <1>1, <1>2, <1>3, <1>5, <2>1 DEF TypeOK, Label
  <2>3. Reads(1)'
    BY <1>1, <1>2, <2>1, KeepsHistory
  <2>4. left' < 8 /\ slave'.bits = 8 - left'
    BY <1>1, <1>2, <2>1
  <2>5. SendsBack(8 - left)'
    BY <1>1, <1>2, <1>3, <2>1, <2>3, <2>4 DEF SendsBack
  <2>6. ReceivesBit'
    BY <1>1, <1>4, <2>1, <2>4, <2>5 DEF ReceivesBit
  <2> QED BY <1>1, <2>1, <2>2, <2>6 DEF HistoryKept, Inv, LinesInv
<1>6. CASE ~(left > 1)
  <2>1. left = 1 /\ left - 1 = 0 /\ slave.bits = 8
    BY <1>2, <1>6
  <2>2. data' = Append(data, byte') /\ count' = count - 1 /\ pc' = "answerLow" /\ left' = left
    BY <1>1, <1>6
  <2>3. byte' = slave.reg
    BY <1>2, <1>3, <2>1, TopBits
  <2>4. /\ kind = "read" /\ slave.taken = <<>> /\ Len(data) + count <= MaxBytes
        /\ Len(slave.given) = Len(data) + 1
        /\ \A i \in 1..Len(data) : slave.given[i] = data[i]
    BY <1>2 DEF Reads
  <2>5. /\ data' \in Seq(0..255) /\ Len(data') = Len(data) + 1
        /\ data'[Len(data) + 1] = slave.given[Len(data) + 1]
        /\ \A i \in 1..Len(data) : data'[i] = data[i]
    BY <1>2, <1>3, <2>2, <2>3
  <2>6. count' \in 0..MaxBytes /\ Len(data') + count' <= MaxBytes /\ Len(data') <= MaxBytes
    <3>1. count \in 0..MaxBytes /\ MaxBytes \in Nat /\ Len(data) \in Nat
      BY <1>1, <1>2, SlaveAssumption DEF TypeOK
    <3>2. \A m \in Nat, c \in 0..MaxBytes :
              c > 0 /\ m + c <= MaxBytes =>
                  c - 1 \in 0..MaxBytes /\ m + 1 + (c - 1) <= MaxBytes /\ m + 1 <= MaxBytes
      BY <3>1
    <3> QED BY <1>1, <2>2, <2>4, <2>5, <3>1, <3>2
  <2>7. TypeOK'
    BY <1>1, <1>3, <2>2, <2>5, <2>6 DEF TypeOK, Label
  <2>8. \A i \in 1..Len(data') : slave.given[i] = data'[i]
    <3> SUFFICES ASSUME NEW i \in 1..Len(data')
                 PROVE  slave.given[i] = data'[i]
      OBVIOUS
    <3>1. CASE i = Len(data) + 1
      BY <3>1, <2>5
    <3>2. CASE i # Len(data) + 1
      <4>1. i \in 1..Len(data)
        BY <1>2, <2>5, <3>2
      <4> QED BY <4>1, <2>4, <2>5
    <3> QED BY <3>1, <3>2
  <2>9. Reads(0)'
    BY <1>1, <1>2, <2>4, <2>5, <2>6, <2>8 DEF Reads
  <2>10. Answering'
    BY <1>1, <1>2, <1>4, <2>1, <2>2, <2>9 DEF Answering, Scl
  <2> QED BY <1>1, <2>2, <2>7, <2>10 DEF HistoryKept, Inv, LinesInv
<1> QED BY <1>5, <1>6

\* The master's acknowledge: SCL low.
LEMMA AnswerLowStep ==
    ASSUME Inv, NoAckStretch, AnswerLow
    PROVE  Inv' /\ HistoryKept
<1>1. /\ TypeOK /\ Answering /\ pc = "answerLow" /\ pc' = "answerSda" /\ Scl
      /\ slave.mode = "send" /\ slave.bits = 8 /\ ~slave.stretch /\ Lines(mSda, FALSE)
      /\ UNCHANGED <<kind, byte, left, data, count, wait, i2c_error>>
  BY DEF Inv, LinesInv, AnswerLow, Drives, registers, Answering
<1>2. slave \in Slave /\ mSda \in BOOLEAN
  BY <1>1 DEF TypeOK
<1>3. \A s \in Fallen(slave) :
          /\ s \in Slave /\ ~s.stretch /\ s.mode = "ackWait"
          /\ s.taken = slave.taken /\ s.given = slave.given
  BY <1>1, <1>2, FallenBack DEF Same
<1>4. mSda' = mSda /\ mScl' = FALSE /\ \E s \in Fallen(slave) : Fell(s)
  BY <1>1, <1>2, <1>3, Fall
<1>5. /\ slave' \in Slave /\ ~slave'.stretch /\ slave'.mode = "ackWait"
      /\ slave'.taken = slave.taken /\ slave'.given = slave.given
  <2>1. PICK s \in Fallen(slave) : Fell(s)
    BY <1>4
  <2> QED BY <1>3, <2>1 DEF Fell, Alike, Slave
<1>6. TypeOK'
  BY <1>1, <1>2, <1>4, <1>5 DEF TypeOK, Label
<1>7. Answering'
  BY <1>1, <1>4, <1>5, KeepsHistory DEF Answering
<1> QED BY <1>5, <1>1, <1>6, <1>7 DEF HistoryKept, Inv, LinesInv

\* SDA low if more is wanted.
LEMMA AnswerSdaStep ==
    ASSUME Inv, AnswerSda
    PROVE  Inv' /\ HistoryKept
<1>1. /\ TypeOK /\ Answering /\ pc = "answerSda" /\ pc' = "answerHigh" /\ ~mScl
      /\ Lines(count = 0, FALSE)
      /\ UNCHANGED <<kind, byte, left, data, count, wait, i2c_error>>
  BY DEF Inv, LinesInv, AnswerSda, Drives, registers, Answering
<1>2. mSda' = (count = 0) /\ mScl' = FALSE /\ slave' = slave
  BY <1>1, StaysLow
<1>3. TypeOK'
  BY <1>1, <1>2 DEF TypeOK, Label
<1>4. Answering'
  BY <1>1, <1>2, KeepsHistory DEF Answering
<1> QED BY <1>2, <1>1, <1>3, <1>4 DEF HistoryKept, Inv, LinesInv

\* SCL let go: the slave learns whether to go on.
LEMMA AnswerHighStep ==
    ASSUME Inv, AnswerHigh
    PROVE  Inv' /\ HistoryKept
<1>1. /\ TypeOK /\ Answering /\ pc = "answerHigh" /\ ~mScl /\ Lines(mSda, TRUE)
      /\ slave.mode = "ackWait" /\ ~slave.stretch /\ slave \in Slave /\ mSda \in BOOLEAN
      /\ mSda = (count = 0) /\ Reads(0) /\ i2c_error = 0
      /\ UNCHANGED <<kind, data, count, wait, i2c_error>>
      /\ IF count = 0 THEN pc' = "stopSda" /\ UNCHANGED <<byte, left>>
                      ELSE pc' = "readLow" /\ byte' = 0 /\ left' = 8
  BY DEF Inv, LinesInv, AnswerHigh, Loads, Answering, TypeOK
<1>2. mSda' = mSda /\ mScl' = TRUE /\ slave' = Risen(slave, mSda)
  <2>1. (mSda /\ ~PullsSda(slave)) = mSda
    BY <1>1 DEF PullsSda
  <2> QED BY <1>1, <2>1, Rises
<1>3. /\ slave' \in Slave /\ ~slave'.stretch
      /\ slave'.mode = IF mSda THEN "idle" ELSE "acked"
      /\ slave'.taken = slave.taken /\ slave'.given = slave.given
  BY <1>1, <1>2, RisenAnswer DEF Same
<1>4. TypeOK'
  <2>1. pc' \in Label /\ byte' \in 0..255 /\ left' \in 1..8
    <3>1. CASE count = 0
      BY <1>1, <3>1 DEF TypeOK, Label
    <3>2. CASE count # 0
      <4>1. pc' = "readLow" /\ byte' = 0 /\ left' = 8
        BY <1>1, <3>2
      <4> QED BY <4>1 DEF Label
    <3> QED BY <3>1, <3>2
  <2> QED BY <1>1, <1>2, <1>3, <2>1 DEF TypeOK
<1>5. Reads(0)'
  BY <1>1, <1>3, KeepsHistory
<1>6. CASE count = 0
  <2>1. pc' = "stopSda" /\ mSda' /\ slave'.mode = "idle"
    BY <1>1, <1>2, <1>3, <1>6
  <2>2. GotFar'
    BY <1>1, <1>5, <1>6 DEF GotFar
  <2>3. Ending'
    BY <1>2, <1>3, <2>1, <2>2 DEF Ending, Scl
  <2> QED BY <1>3, <1>4, <2>1, <2>3 DEF HistoryKept, Inv, LinesInv
<1>7. CASE count # 0
  <2>1. pc' = "readLow" /\ byte' = 0 /\ left' = 8 /\ slave'.mode = "acked"
    BY <1>1, <1>3, <1>7
  <2>2. count' > 0
    BY <1>1, <1>7 DEF TypeOK
  <2>3. ReceivesBit'
    BY <1>1, <1>2, <1>3, <1>5, <2>1, <2>2 DEF ReceivesBit, Scl
  <2> QED BY <1>3, <1>4, <2>1, <2>3 DEF HistoryKept, Inv, LinesInv
<1> QED BY <1>6, <1>7

\* The slave sees a START, or a STOP.
LEMMA RestartedType ==
    ASSUME NEW s \in Slave
    PROVE  /\ Restarted(s) \in Slave /\ Same(s, Restarted(s))
           /\ Restarted(s).mode = "address" /\ Restarted(s).bits = 0
           /\ Restarted(s).reg = 0
           /\ Restarted(s).taken = s.taken /\ Restarted(s).given = s.given
<1>1. "address" \in Mode /\ 0 \in 0..8 /\ 0 \in 0..255
  BY DEF Mode
<1>2. Restarted(s) = [s EXCEPT !.mode = "address", !.bits = 0, !.reg = 0]
  BY DEF Restarted
<1>3. Restarted(s) \in Slave
  <2>1. [s EXCEPT !.mode = "address", !.bits = 0, !.reg = 0] \in Slave
    BY <1>1, ByteType, Zenon
  <2> QED BY <1>2, <2>1
<1>4. Same(s, Restarted(s)) /\ Restarted(s).mode = "address"
  BY <1>2 DEF Slave, Same
<1>5. Restarted(s).bits = 0 /\ Restarted(s).reg = 0
  BY <1>2 DEF Slave
<1>6. Restarted(s).taken = s.taken /\ Restarted(s).given = s.given
  BY <1>2 DEF Slave
<1> QED BY <1>3, <1>4, <1>5, <1>6

\* A STOP, which it sees.
LEMMA StoppedType ==
    ASSUME NEW s \in Slave
    PROVE  /\ Stopped(s) \in Slave /\ Same(s, Stopped(s)) /\ Stopped(s).mode = "idle"
           /\ Stopped(s).taken = s.taken /\ Stopped(s).given = s.given
<1>1. "idle" \in Mode /\ Stopped(s) = [s EXCEPT !.mode = "idle"]
  BY DEF Mode, Stopped
<1>2. Stopped(s) \in Slave
  BY <1>1, ModeType
<1> QED BY <1>1, <1>2 DEF Slave, Same

\* What the error code says stays true to the end of the STOP.
LEMMA KeepsGotFar ==
    ASSUME GotFar, kind' = kind, data' = data, count' = count, i2c_error' = i2c_error,
           slave'.taken = slave.taken, slave'.given = slave.given
    PROVE  GotFar'
BY KeepsHistory DEF GotFar

\* Before the STOP of a read: the slave sees a START.
LEMMA StopSdaStep ==
    ASSUME Inv, StopSda
    PROVE  Inv' /\ HistoryKept
<1>1. /\ TypeOK /\ Ending /\ GotFar /\ pc = "stopSda" /\ pc' = "stopLow" /\ Scl /\ mSda
      /\ slave.mode = "idle" /\ slave \in Slave /\ Lines(FALSE, TRUE)
      /\ UNCHANGED <<kind, byte, left, data, count, wait, i2c_error>>
  BY DEF Inv, LinesInv, StopSda, Drives, registers, Ending, TypeOK
<1>2. mSda' = FALSE /\ mScl' = TRUE /\ slave' = Restarted(slave)
  BY <1>1, StaysHigh DEF Sda, PullsSda
<1>3. /\ slave' \in Slave /\ Same(slave, slave') /\ slave'.mode = "address" /\ slave'.bits = 0
      /\ slave'.taken = slave.taken /\ slave'.given = slave.given
  BY <1>1, <1>2, RestartedType
<1>4. TypeOK'
  BY <1>1, <1>2, <1>3 DEF TypeOK, Label
<1>5. Ending'
  BY <1>1, <1>2, <1>3, KeepsGotFar DEF Ending, Scl, Same
<1> QED BY <1>3, <1>1, <1>4, <1>5 DEF HistoryKept, Inv, LinesInv

\* SCL low: after a byte the slave may stretch this clock.
LEMMA StopLowStep ==
    ASSUME Inv, NoAckStretch, StopLow
    PROVE  Inv' /\ HistoryKept
<1>1. /\ TypeOK /\ Ending /\ GotFar /\ pc = "stopLow" /\ pc' = "stopHigh" /\ Scl /\ ~mSda
      /\ \/ slave.mode = "address" /\ slave.bits = 0
         \/ slave.mode = "ackData" /\ kind = "write" /\ i2c_error = 0
      /\ Lines(mSda, FALSE)
      /\ UNCHANGED <<kind, byte, left, data, count, wait, i2c_error>>
  BY DEF Inv, LinesInv, StopLow, Drives, registers, Ending
<1>2. slave \in Slave /\ mSda \in BOOLEAN /\ ~slave.stretch
  BY <1>1 DEF TypeOK, Scl
<1>3. \A s \in Fallen(slave) :
          /\ s \in Slave /\ ~s.stretch /\ s.mode \in {"address", "receive"} /\ s.bits = 0
          /\ s.mode = "receive" => kind = "write" /\ i2c_error = 0
          /\ s.taken = slave.taken /\ s.given = slave.given
  <2>1. CASE slave.mode = "address" /\ slave.bits = 0
    BY <1>2, <2>1, FallenSame
  <2>2. CASE slave.mode = "ackData"
    <3>1. kind = "write" /\ i2c_error = 0
      BY <1>1, <2>2
    <3> QED BY <1>2, <2>2, <3>1, FallenReceives DEF Same
  <2> QED BY <1>1, <2>1, <2>2
<1>4. mSda' = mSda /\ mScl' = FALSE /\ \E s \in Fallen(slave) : Fell(s)
  BY <1>1, <1>2, <1>3, Fall
<1>5. /\ slave' \in Slave /\ slave'.mode \in {"address", "receive"} /\ slave'.bits = 0
      /\ slave'.stretch => StretchesStop'
      /\ slave'.taken = slave.taken /\ slave'.given = slave.given
  <2>1. PICK s \in Fallen(slave) : Fell(s)
    BY <1>4
  <2>2. /\ s.mode \in {"address", "receive"} /\ s.bits = 0
        /\ s.mode = "receive" => kind = "write" /\ i2c_error = 0
        /\ s.taken = slave.taken /\ s.given = slave.given
    BY <1>3
  <2>3. kind' = kind /\ i2c_error' = i2c_error
    BY <1>1
  <2> QED BY <2>1, <2>2, <2>3 DEF Fell, Alike, StretchesStop
<1>6. TypeOK'
  BY <1>1, <1>2, <1>4, <1>5 DEF TypeOK, Label
<1>7. Ending'
  BY <1>1, <1>4, <1>5, KeepsGotFar DEF Ending
<1> QED BY <1>5, <1>1, <1>6, <1>7 DEF HistoryKept, Inv, LinesInv

\* SCL let go, and not sampled.
LEMMA StopHighStep ==
    ASSUME Inv, StopHigh
    PROVE  Inv' /\ HistoryKept
<1>1. /\ TypeOK /\ Ending /\ GotFar /\ pc = "stopHigh" /\ pc' = "stopEnd" /\ ~mScl
      /\ slave.mode \in {"address", "receive"} /\ slave.bits = 0
      /\ slave.stretch => StretchesStop
      /\ slave \in Slave /\ Lines(FALSE, TRUE)
      /\ UNCHANGED <<kind, byte, left, data, count, wait, i2c_error>>
  BY DEF Inv, LinesInv, StopHigh, Drives, registers, Ending, TypeOK
<1>2. /\ mSda' = FALSE /\ mScl' = TRUE
      /\ slave.stretch => slave' = slave
      /\ ~slave.stretch => slave' = Risen(slave, FALSE)
  <2>1. (FALSE /\ ~PullsSda(slave)) = FALSE
    OBVIOUS
  <2> QED BY <1>1, <2>1, Rises
<1>3. /\ slave' \in Slave /\ slave'.mode = slave.mode
      /\ slave'.stretch = slave.stretch /\ slave'.habit = slave.habit
      /\ slave'.taken = slave.taken /\ slave'.given = slave.given
  <2>1. slave.bits < 8 /\ FALSE \in BOOLEAN
    BY <1>1
  <2>2. CASE slave.stretch
    BY <1>1, <1>2, <2>2
  <2>3. CASE ~slave.stretch
    <3>1. /\ Risen(slave, FALSE) \in Slave /\ Same(slave, Risen(slave, FALSE))
          /\ Risen(slave, FALSE).mode = slave.mode
          /\ Risen(slave, FALSE).taken = slave.taken
          /\ Risen(slave, FALSE).given = slave.given
      BY <1>1, <2>1, RisenBit
    <3> QED BY <1>2, <2>3, <3>1 DEF Same
  <2> QED BY <2>2, <2>3
<1>4. TypeOK'
  BY <1>1, <1>2, <1>3 DEF TypeOK, Label
<1>5. Ending'
  BY <1>1, <1>2, <1>3, KeepsGotFar DEF Ending, StretchesStop
<1> QED BY <1>3, <1>1, <1>4, <1>5 DEF HistoryKept, Inv, LinesInv

\* The STOP after a refusal of a write.
LEMMA NackSdaStep ==
    ASSUME Inv, NackSda
    PROVE  Inv' /\ HistoryKept
<1>1. /\ TypeOK /\ Ending /\ GotFar /\ pc = "nackSda" /\ pc' = "stopEnd" /\ Scl /\ mSda
      /\ slave.mode = "idle" /\ slave \in Slave /\ Lines(FALSE, TRUE)
      /\ UNCHANGED <<kind, byte, left, data, count, wait, i2c_error>>
  BY DEF Inv, LinesInv, NackSda, Drives, registers, Ending, TypeOK
<1>2. mSda' = FALSE /\ mScl' = TRUE /\ slave' = Restarted(slave)
  BY <1>1, StaysHigh DEF Sda, PullsSda
<1>3. /\ slave' \in Slave /\ ~slave'.stretch /\ slave'.mode = "address"
      /\ slave'.taken = slave.taken /\ slave'.given = slave.given
  BY <1>1, <1>2, RestartedType DEF Same, Scl
<1>4. TypeOK'
  BY <1>1, <1>2, <1>3 DEF TypeOK, Label
<1>5. Ending'
  BY <1>1, <1>2, <1>3, KeepsGotFar DEF Ending
<1> QED BY <1>3, <1>1, <1>4, <1>5 DEF HistoryKept, Inv, LinesInv

\* The end of a STOP: the slave sees it if its clock is high.
LEMMA StopEndStep ==
    ASSUME Inv, StopEnd
    PROVE  /\ Inv' /\ GotFar /\ UNCHANGED <<registers, i2c_error>>
           /\ slave'.habit = slave.habit
           /\ slave'.taken = slave.taken /\ slave'.given = slave.given
           /\ IF slave'.stretch THEN StretchesStop'
                 ELSE Sda' /\ Scl' /\ slave'.mode = "idle"
<1>1. /\ TypeOK /\ Ending /\ GotFar /\ pc = "stopEnd" /\ pc' = "idle" /\ mScl /\ ~mSda
      /\ slave.mode \in {"address", "receive"}
      /\ slave.stretch => StretchesStop
      /\ slave \in Slave /\ Lines(TRUE, TRUE)
      /\ UNCHANGED <<kind, byte, left, data, count, wait, i2c_error>>
  BY DEF Inv, LinesInv, StopEnd, Drives, registers, Ending, TypeOK
<1>2. mSda' = TRUE /\ mScl' = TRUE /\ slave' = IF slave.stretch THEN slave ELSE Stopped(slave)
  BY <1>1 DEF Lines, Scl, Sda, PullsSda
<1>3. /\ slave' \in Slave
      /\ slave'.habit = slave.habit
      /\ slave'.taken = slave.taken /\ slave'.given = slave.given
      /\ slave'.stretch = slave.stretch
      /\ ~slave.stretch => slave'.mode = "idle"
  BY <1>1, <1>2, StoppedType DEF Same
<1>4. TypeOK'
  BY <1>1, <1>2, <1>3 DEF TypeOK, Label
<1>5. Inv'
  BY <1>1, <1>2, <1>4 DEF Inv, LinesInv
<1>6. IF slave'.stretch THEN StretchesStop' ELSE Sda' /\ Scl' /\ slave'.mode = "idle"
  <2>1. CASE slave.stretch
    BY <1>1, <1>3, <2>1 DEF StretchesStop
  <2>2. CASE ~slave.stretch
    BY <1>2, <1>3, <2>2 DEF Sda, Scl, PullsSda
  <2> QED BY <1>3, <2>1, <2>2
<1> QED BY <1>1, <1>3, <1>5, <1>6 DEF registers

\* A call begins: nothing taken, nothing given.
LEMMA CallStep ==
    ASSUME Inv, CallWrite \/ CallRead
    PROVE  /\ Inv' /\ slave'.taken = <<>> /\ slave'.given = <<>>
           /\ slave'.habit = slave.habit
<1>1. /\ TypeOK /\ mScl /\ pc = "idle" /\ pc' = "start" /\ i2c_error = 0
      /\ slave' = [slave EXCEPT !.taken = <<>>, !.given = <<>>]
      /\ UNCHANGED <<mSda, mScl, left, wait, i2c_error>>
  BY DEF Inv, LinesInv, CallWrite, CallRead, Called
<1>2. /\ slave' \in Slave /\ slave'.taken = <<>> /\ slave'.given = <<>>
      /\ slave'.habit = slave.habit
  <2>1. slave \in Slave /\ <<>> \in Seq(Bytes)
    BY <1>1 DEF TypeOK
  <2>2. slave' \in Slave
    BY <1>1, <2>1, HistoryType
  <2> QED BY <1>1, <2>1, <2>2 DEF Slave
<1>3. CASE CallWrite
  <2>1. kind' = "write" /\ byte' = 72 /\ data' \in Payload /\ count' = Len(data')
    BY <1>3 DEF CallWrite, Called, PN532_I2C_ADDRESS
  <2>2. PICK n \in 1..MaxBytes : data' \in [1..n -> Bytes]
    BY <2>1 DEF Payload
  <2>3. data' \in Seq(Bytes) /\ data' \in Seq(0..255) /\ Len(data') = n
    <3>1. n \in Nat /\ Bytes \subseteq 0..255
      BY SlaveAssumption
    <3>2. data' \in Seq(Bytes) /\ Len(data') = n
      BY <2>2, <3>1
    <3>3. data' \in [1..n -> 0..255]
      BY <2>2, <3>1
    <3>4. data' \in Seq(0..255)
      BY <3>1, <3>3
    <3> QED BY <3>2, <3>4
  <2>4. TypeOK'
    BY <1>1, <1>2, <2>1, <2>2, <2>3, SlaveAssumption DEF TypeOK, Label
  <2>5. Sent' = 0
    BY <2>1, <2>2, <2>3 DEF Sent
  <2>6. Writes(0)' /\ byte' = OnWire'
    BY <1>2, <2>1, <2>2, <2>3, <2>5 DEF Writes, OnWire, PN532_I2C_ADDRESS
  <2>7. Inv'
    BY <1>1, <2>4, <2>5, <2>6 DEF Inv, LinesInv
  <2> QED BY <1>2, <2>7
<1>4. CASE CallRead
  <2>1. kind' = "read" /\ byte' = 73 /\ data' = <<>> /\ count' \in 1..MaxBytes
    BY <1>4 DEF CallRead, Called, PN532_I2C_ADDRESS
  <2>2. data' \in Seq(0..255) /\ Len(data') = 0
    BY <2>1
  <2>3. TypeOK'
    BY <1>1, <1>2, <2>1, <2>2, SlaveAssumption DEF TypeOK, Label
  <2>4. Addresses' /\ byte' = OnWire'
    BY <1>2, <2>1 DEF Addresses, OnWire, PN532_I2C_ADDRESS
  <2>5. Inv'
    BY <1>1, <2>3, <2>4 DEF Inv, LinesInv
  <2> QED BY <1>2, <2>5
<1> QED BY <1>3, <1>4

\* The error code is reset.
LEMMA EndTransactionStep ==
    ASSUME Inv, EndTransaction
    PROVE  Inv'
BY DEF Inv, LinesInv, TypeOK, Label, EndTransaction, busLines, registers

\* Both lines let go between calls: the slave may see a STOP.
LEMMA SetupStep ==
    ASSUME Inv, Setup
    PROVE  /\ Inv' /\ slave'.taken = slave.taken /\ slave'.given = slave.given
<1>1. /\ TypeOK /\ mScl /\ pc = "idle" /\ slave \in Slave /\ Lines(TRUE, TRUE)
      /\ UNCHANGED <<kind, byte, left, data, count, wait, pc, i2c_error>>
  BY DEF Inv, LinesInv, Setup, registers, TypeOK
<1>2. mSda' = TRUE /\ mScl' = TRUE
  BY <1>1 DEF Lines
<1>3. slave' = slave \/ slave' = Restarted(slave) \/ slave' = Stopped(slave)
  BY <1>1 DEF Lines, Scl
<1>4. /\ slave' \in Slave
      /\ slave'.taken = slave.taken /\ slave'.given = slave.given
  BY <1>1, <1>3, RestartedType, StoppedType
<1>5. TypeOK'
  BY <1>1, <1>2, <1>4 DEF TypeOK
<1> QED BY <1>1, <1>2, <1>4, <1>5 DEF Inv, LinesInv

\* The bus is not free.
LEMMA BusTakenStep ==
    ASSUME Inv, BusTaken
    PROVE  Inv'
<1>1. /\ TypeOK /\ mScl /\ pc' = "idle" /\ i2c_error' = 1
      /\ UNCHANGED <<mSda, mScl, slave, kind, byte, left, data, count, wait>>
  BY DEF Inv, LinesInv, BusTaken, Fails, busLines, registers
<1> QED BY <1>1 DEF Inv, LinesInv, TypeOK, Label

\* START: the slave expects an address.
LEMMA StartStep ==
    ASSUME Inv, Start
    PROVE  Inv' /\ slave'.taken = slave.taken /\ slave'.given = slave.given
<1>1. /\ TypeOK /\ pc = "start" /\ pc' = "bitLow" /\ left' = 8 /\ Sda /\ Scl
      /\ i2c_error = 0 /\ byte = OnWire
      /\ Addresses \/ (Writes(0) /\ Sent = 0)
      /\ slave \in Slave /\ Lines(FALSE, TRUE)
      /\ UNCHANGED <<kind, byte, data, count, wait, i2c_error>>
  BY DEF Inv, LinesInv, Start, TypeOK
<1>2. mSda' = FALSE /\ mScl' = TRUE /\ slave' = Restarted(slave)
  BY <1>1, StaysHigh
<1>3. /\ slave' \in Slave /\ ~slave'.stretch
      /\ slave'.mode = "address" /\ slave'.bits = 0 /\ slave'.reg = 0
      /\ slave'.taken = slave.taken /\ slave'.given = slave.given
  BY <1>1, <1>2, RestartedType DEF Same, Scl
<1>4. TypeOK'
  <2>1. pc' \in Label /\ left' \in 1..8
    BY <1>1 DEF Label
  <2> QED BY <1>1, <1>2, <1>3, <2>1 DEF TypeOK
<1>5. BeforeAck
  BY <1>1 DEF BeforeAck, Before
<1>6. BeforeAck' /\ Sent' = Sent /\ OnWire' = OnWire
  BY <1>1, <1>3, <1>5, KeepsHistory
<1>7. Arrived(left)'
  <2>1. Top(byte, 8) = 0
    BY <1>1, TopBits DEF TypeOK
  <2>2. kind = "read" \/ Sent = 0
    BY <1>1 DEF Addresses
  <2> QED BY <1>1, <1>3, <1>6, <2>1, <2>2 DEF Arrived, Phase
<1>8. SendsBit'
  BY <1>1, <1>2, <1>3, <1>6, <1>7 DEF SendsBit, Scl
<1> QED BY <1>1, <1>3, <1>4, <1>8 DEF Inv, LinesInv

\* The slave lets SCL go, and if the master has too the bit passes.
LEMMA LetsGoStep ==
    ASSUME Inv, LetsGo
    PROVE  /\ Inv' /\ slave'.taken = slave.taken /\ slave'.given = slave.given
           /\ slave'.habit = slave.habit
<1> DEFINE s == [slave EXCEPT !.stretch = FALSE]
<1>1. /\ TypeOK /\ LinesInv /\ slave \in Slave /\ slave.stretch
      /\ mSda \in BOOLEAN /\ mScl \in BOOLEAN
      /\ slave' = IF mScl THEN Risen(s, Sda) ELSE s
      /\ UNCHANGED <<mSda, mScl, kind, byte, left, data, count, wait, pc, i2c_error>>
  BY DEF Inv, LetsGo, SlaveReleases, registers, TypeOK
<1>2. /\ s \in Slave /\ ~s.stretch /\ s.mode = slave.mode /\ s.bits = slave.bits
      /\ s.reg = slave.reg /\ s.habit = slave.habit
      /\ s.taken = slave.taken /\ s.given = slave.given
  <2>1. s \in Slave
    BY <1>1, StretchType
  <2> QED BY <1>1, <2>1 DEF Slave
<1> HIDE DEF s
<1>3. /\ slave' \in Slave /\ ~slave'.stretch /\ slave'.habit = slave.habit
      /\ slave'.taken = slave.taken /\ slave'.given = slave.given
  <2>1. Sda \in BOOLEAN
    BY <1>1 DEF Sda
  <2> QED BY <1>1, <1>2, <2>1, RisenType DEF Same
<1>4. TypeOK'
  BY <1>1, <1>3 DEF TypeOK
<1>5. ~Scl /\ (Scl' <=> mScl)
  BY <1>1, <1>3 DEF Scl
<1>6. /\ Sent' = Sent /\ OnWire' = OnWire /\ BeforeAck' = BeforeAck
      /\ Addresses' = Addresses /\ Writes(0)' = Writes(0) /\ Reads(1)' = Reads(1)
  BY <1>1, <1>3, KeepsHistory
<1>7. LinesInv'
  <2>1. CASE pc \in {"idle", "start"}
    BY <1>1, <1>6, <2>1 DEF LinesInv
  <2>2. CASE pc \in {"bitLow", "bitData", "bitHigh"}
    <3>1. SendsBit /\ pc # "bitLow" /\ ~mScl /\ Arrived(left)
      BY <1>1, <1>5, <2>2 DEF LinesInv, SendsBit
    <3>2. Arrived(left)' /\ Bit' = Bit
      BY <1>1, <1>2, <1>6, <3>1 DEF Arrived, Phase, Bit
    <3>3. SendsBit'
      BY <1>1, <1>6, <2>2, <3>1, <3>2 DEF SendsBit
    <3> QED BY <1>1, <2>2, <3>3 DEF LinesInv
  <2>3. CASE pc = "bitSample"
    <3>1. SendsBit /\ mScl /\ Arrived(left) /\ mSda = Bit
      BY <1>1, <2>3 DEF LinesInv, SendsBit
    <3>2. s.mode \in {"address", "receive"} /\ s.bits = 8 - left /\ s.reg = Top(byte, left)
      BY <1>2, <3>1 DEF Arrived, Phase
    <3>3. Sda = Bit
      <4>1. ~PullsSda(slave)
        BY <1>2, <3>2 DEF PullsSda
      <4>2. Sda <=> mSda
        BY <4>1 DEF Sda
      <4>3. Bit \in BOOLEAN /\ Sda \in BOOLEAN
        BY DEF Bit, Sda
      <4> QED BY <1>1, <3>1, <4>2, <4>3
    <3>4. slave' = Risen(s, Bit)
      BY <1>1, <3>1, <3>3
    <3>5. /\ slave'.mode = s.mode /\ slave'.bits = 8 - (left - 1)
          /\ slave'.reg = Top(byte, left - 1)
      BY <1>1, <1>2, <3>2, <3>4, ShiftsIn
    <3>6. Arrived(left - 1)' /\ Bit' = Bit
      BY <1>1, <1>2, <1>6, <3>1, <3>5 DEF Arrived, Phase, Bit
    <3>7. SendsBit'
      BY <1>1, <1>3, <1>6, <2>3, <3>1, <3>6 DEF SendsBit
    <3> QED BY <1>1, <2>3, <3>7 DEF LinesInv
  <2>4. CASE pc \in {"ackLow", "ackRelease", "ackHigh", "ackSample"}
    BY <1>1, <2>4 DEF LinesInv, Acknowledging
  <2>5. CASE pc \in {"readLow", "readRelease", "readHigh", "readSample"}
    <3>1. ReceivesBit /\ pc # "readLow" /\ SendsBack(9 - left) /\ slave.mode = "send"
      BY <1>1, <1>5, <2>5 DEF LinesInv, ReceivesBit, SendsBack
    <3>2. slave' = s
      <4>1. Sda \in BOOLEAN
        BY DEF Sda
      <4> QED BY <1>1, <1>2, <3>1, <4>1, RisenSame
    <3>3. SendsBack(9 - left)'
      BY <1>1, <1>2, <1>6, <3>1, <3>2 DEF SendsBack
    <3>4. ReceivesBit'
      BY <1>1, <2>5, <3>1, <3>3 DEF ReceivesBit
    <3> QED BY <1>1, <2>5, <3>4 DEF LinesInv
  <2>6. CASE pc \in {"answerLow", "answerSda", "answerHigh"}
    BY <1>1, <2>6 DEF LinesInv, Answering
  <2>7. CASE pc \in {"nackSda", "stopSda", "stopLow", "stopHigh", "stopEnd"}
    <3>1. Ending /\ GotFar /\ pc \in {"stopHigh", "stopEnd"}
      BY <1>1, <1>5, <2>7 DEF LinesInv, Ending
    <3>2. GotFar'
      BY <1>1, <1>3, <3>1, KeepsGotFar
    <3>3. slave'.mode = slave.mode
      <4>1. CASE ~mScl
        BY <1>1, <1>2, <4>1
      <4>2. CASE mScl
        <5>1. slave' = Risen(s, Sda) /\ Sda \in BOOLEAN
          BY <1>1, <4>2 DEF Sda
        <5>2. s.mode \in {"address", "receive"} /\ s.bits \in 0..8
          BY <1>2, <3>1 DEF Ending, Slave
        <5>3. CASE s.bits < 8
          BY <1>2, <5>1, <5>2, <5>3, RisenBit
        <5>4. CASE ~(s.bits < 8)
          BY <1>2, <5>1, <5>2, <5>4 DEF Risen
        <5> QED BY <5>3, <5>4
      <4> QED BY <4>1, <4>2
    <3>4. ~mScl => slave'.bits = slave.bits
      BY <1>1, <1>2
    <3>5. Ending'
      BY <1>1, <1>3, <3>1, <3>2, <3>3, <3>4 DEF Ending
    <3> QED BY <1>1, <2>7, <3>5 DEF LinesInv
  <2> QED BY <1>1, <2>1, <2>2, <2>3, <2>4, <2>5, <2>6, <2>7 DEF TypeOK, Label
<1> QED BY <1>3, <1>4, <1>7 DEF Inv

\* The state after brzo_i2c_setup.
LEMMA LinesInit ==
    Init => Inv
<1> SUFFICES ASSUME Init PROVE Inv
  OBVIOUS
<1>1. PICK habit \in Habits :
          slave = [mode |-> "idle", bits |-> 0, reg |-> 0, habit |-> habit,
                   stretch |-> FALSE, taken |-> <<>>, given |-> <<>>]
  BY DEF Init, SlaveInit
<1>2. <<>> \in Seq(Bytes) /\ <<>> \in Seq(0..255) /\ Len(<<>>) = 0
  OBVIOUS
<1>3. slave \in Slave
  BY <1>1, <1>2 DEF Slave
<1> QED BY <1>2, <1>3, SlaveAssumption, ClockStretchAssumption
        DEF Init, Inv, TypeOK, LinesInv, Label

\* The invariant is inductive.
LEMMA LinesNext ==
    ASSUME Inv, NoAckStretch, [Next]_vars
    PROVE  Inv'
<1>1. CASE CallWrite \/ CallRead
  BY <1>1, CallStep
<1>2. CASE EndTransaction
  BY <1>2, EndTransactionStep
<1>3. CASE Setup
  BY <1>3, SetupStep
<1>4. CASE BusTaken \/ Start
  BY <1>4, BusTakenStep, StartStep
<1>5. CASE BitLow \/ BitData \/ BitHigh \/ BitSent
  BY <1>5, BitLowStep, BitDataStep, BitHighStep, BitSentStep
<1>6. CASE Stretch \/ StretchedTooLong
  BY <1>6, StretchStep, StretchedTooLongStep
<1>7. CASE AckLow \/ AckRelease \/ AckHigh
  BY <1>7, AckLowStep, AckReleaseStep, AckHighStep
<1>8. CASE Nack \/ SlaveAck \/ SlaveAckRead
  BY <1>8, NackStep, SlaveAckStep, SlaveAckReadStep
<1>9. CASE ReadLow \/ ReadRelease \/ ReadHigh \/ BitRead
  BY <1>9, ReadLowStep, ReadReleaseStep, ReadHighStep, BitReadStep
<1>10. CASE AnswerLow \/ AnswerSda \/ AnswerHigh
  BY <1>10, AnswerLowStep, AnswerSdaStep, AnswerHighStep
<1>11. CASE StopSda \/ StopLow \/ StopHigh \/ NackSda \/ StopEnd
  BY <1>11, StopSdaStep, StopLowStep, StopHighStep, NackSdaStep, StopEndStep
<1>12. CASE LetsGo
  BY <1>12, LetsGoStep
<1>13. CASE UNCHANGED vars
  BY <1>13 DEF vars, busLines, registers, Inv, TypeOK, LinesInv, SendsBit, Acknowledging,
       ReceivesBit, Answering, Ending, GotFar, BeforeAck, AfterAck, Addresses, Writes, Reads,
       SendsBack, Arrived, Phase, Sent, Before, OnWire, Bit, Scl, StretchesStop
<1> QED BY <1>1, <1>2, <1>3, <1>4, <1>5, <1>6, <1>7, <1>8, <1>9, <1>10, <1>11, <1>12, <1>13
        DEF Next, Calls, Code

\* Every register keeps to its width and range in every behaviour, for every
\* buffer, every clock stretch limit and every slave that does not stretch its
\* acknowledge: the index stays in the buffer, and a byte read is made of eight
\* bits.
THEOREM TypeCorrect ==
    ASSUME NoAckStretch
    PROVE  Spec => []TypeOK
<1>1. Spec => []Inv
  <2>1. Inv /\ [Next]_vars => Inv'
    BY LinesNext
  <2> QED BY LinesInit, <2>1, PTL DEF Spec
<1>2. Inv => TypeOK
  BY DEF Inv
<1> QED BY <1>1, <1>2, PTL

\* Only the end of the STOP returns without a time-out from a bus that was free.
LEMMA ReturnIsLast ==
    ASSUME [Next]_vars, Returns, i2c_error' \in {0, 2, 4}
    PROVE  StopEnd
<1>1. CASE BusTaken \/ StretchedTooLong
  BY <1>1 DEF BusTaken, StretchedTooLong, Fails
<1>2. CASE Calls \/ LetsGo \/ UNCHANGED vars
  BY <1>2 DEF Calls, CallWrite, CallRead, Called, EndTransaction, Setup, LetsGo, vars, Returns
<1>3. CASE Start \/ BitLow \/ BitData \/ BitHigh \/ BitSent \/ Stretch
  BY <1>3 DEF Start, BitLow, BitData, BitHigh, Raises, Drives, BitSent, Stretch, Returns
<1>4. CASE AckLow \/ AckRelease \/ AckHigh \/ Nack \/ SlaveAck \/ SlaveAckRead
  BY <1>4 DEF AckLow, AckRelease, AckHigh, Drives, Nack, SlaveAck, SlaveAckRead, Returns
<1>5. CASE ReadLow \/ ReadRelease \/ ReadHigh \/ BitRead
  BY <1>5 DEF ReadLow, ReadRelease, ReadHigh, Raises, Drives, BitRead, Returns
<1>6. CASE AnswerLow \/ AnswerSda \/ AnswerHigh
  BY <1>6 DEF AnswerLow, AnswerSda, AnswerHigh, Drives, Returns
<1>7. CASE StopSda \/ StopLow \/ StopHigh \/ NackSda
  BY <1>7 DEF StopSda, StopLow, StopHigh, NackSda, Drives, Returns
<1> QED BY <1>1, <1>2, <1>3, <1>4, <1>5, <1>6, <1>7 DEF Next, Code

\* A return after a STOP that the slave has seen, or does not see yet.
LEMMA ReturnLeavesFree ==
    ASSUME Inv, [Next]_vars, Returns, i2c_error' \in {0, 2, 4}
    PROVE  IF slave'.stretch
              THEN kind = "write" /\ i2c_error' = 0 /\ "byte" \in slave'.habit
              ELSE Sda' /\ Scl' /\ slave'.mode = "idle"
<1>1. StopEnd
  BY ReturnIsLast
<1>2. /\ kind' = kind
      /\ IF slave'.stretch THEN StretchesStop'
            ELSE Sda' /\ Scl' /\ slave'.mode = "idle"
  BY <1>1, StopEndStep DEF registers
<1> QED BY <1>2 DEF StretchesStop

\* A call that ends in a success or after a NACK leaves both lines high and the
\* slave waiting for a START, whatever clocks of bits and after bytes it
\* stretches, but for one case: the slave still holds the clock of the STOP
\* after a write.  brzo_i2c_write and brzo_i2c_read, l_exit.
THEOREM LeavesBusFree ==
    ASSUME NoAckStretch
    PROVE  Spec => BusLeftFree
<1> DEFINE Step == Returns /\ i2c_error' \in {0, 2, 4} =>
                    IF slave'.stretch
                       THEN kind = "write" /\ i2c_error' = 0 /\ "byte" \in slave'.habit
                       ELSE Sda' /\ Scl' /\ slave'.mode = "idle"
<1>1. Inv /\ [Next]_vars => Inv'
  BY LinesNext
<1>2. Inv /\ [Next]_vars => [Step]_vars
  BY ReturnLeavesFree
<1> QED BY LinesInit, <1>1, <1>2, PTL DEF Spec, BusLeftFree

-----------------------------------------------------------------------------
(* The lines implement the calls of I2cCalls, step by step.                *)

\* Steps that the caller does not see.
LEMMA Unseen ==
    ASSUME HistoryKept, kind' = kind, data' = data, kind = "read" => count' = count,
           \/ pc # "idle" /\ pc' # "idle"
           \/ pc' = pc /\ i2c_error' = i2c_error
    PROVE  UNCHANGED I2c!callVars
BY DEF I2c!callVars, HistoryKept

\* A call begins.
LEMMA BeginsCall ==
    ASSUME Inv, CallWrite \/ CallRead
    PROVE  I2c!CallsNext
<1>1. slave'.taken = <<>> /\ slave'.given = <<>>
  BY CallStep
<1>2. pc = "idle" /\ pc' = "start" /\ i2c_error = 0 /\ i2c_error' = 0
  BY DEF CallWrite, CallRead, Called
<1>3. CASE CallWrite
  <2>1. kind' = "write" /\ data' \in Payload
    BY <1>3 DEF CallWrite, Called
  <2>2. I2c!Write
    BY <1>1, <1>2, <2>1 DEF I2c!Write, I2c!Begins, I2c!Payload, Payload
  <2> QED BY <2>2 DEF I2c!CallsNext
<1>4. CASE CallRead
  <2>1. kind' = "read" /\ data' = <<>> /\ count' \in 1..MaxBytes
    BY <1>4 DEF CallRead, Called
  <2>2. Len(data') + count' = count'
    <3>1. count' \in Nat /\ Len(<<>>) = 0
      BY <2>1, SlaveAssumption
    <3>2. Len(data') = 0
      BY <2>1, <3>1
    <3>3. \A c \in Nat : 0 + c = c
      OBVIOUS
    <3> QED BY <3>1, <3>2, <3>3
  <2>3. I2c!Read
    BY <1>1, <1>2, <2>1, <2>2 DEF I2c!Read, I2c!Begins
  <2> QED BY <2>3 DEF I2c!CallsNext
<1> QED BY <1>3, <1>4

\* At the fall of the ninth clock the slave takes a byte, or refuses it unseen.
LEMMA TakesOne ==
    ASSUME Inv, NoAckStretch, AckLow
    PROVE  [I2c!CallsNext]_I2c!callVars
<1>1. /\ TypeOK /\ pc = "ackLow" /\ pc' # "idle"
      /\ UNCHANGED <<kind, data, count, i2c_error>>
  BY DEF Inv, AckLow, Drives, registers
<1>2. slave'.given = slave.given
  BY AckLowStep
<1>3. CASE slave'.taken = slave.taken
  BY <1>1, <1>2, <1>3, Unseen DEF HistoryKept
<1>4. CASE /\ kind = "write" /\ Sent > 0 /\ BeforeAck
           /\ slave'.taken = Append(slave.taken, OnWire)
  <2>1. Writes(Before) /\ Sent \in 1..Len(data) /\ data \in Seq(Bytes)
    BY <1>1, <1>4 DEF BeforeAck, Addresses, Writes, Sent, TypeOK
  <2>2. Len(slave.taken) = Sent - 1
    BY <1>4, <2>1 DEF Writes, Before
  <2>3. Len(slave.taken) < Len(data) /\ OnWire = data[Len(slave.taken) + 1]
    BY <1>4, <2>1, <2>2 DEF OnWire
  <2>4. I2c!Take
    BY <1>1, <1>2, <1>4, <2>3 DEF I2c!Take
  <2> QED BY <2>4 DEF I2c!CallsNext
<1> QED BY <1>3, <1>4, AckLowStep

\* The slave begins a byte, which is the next of those wanted.
LEMMA GivesOne ==
    ASSUME Inv, NoAckStretch, ReadLow
    PROVE  [I2c!CallsNext]_I2c!callVars
<1>1. /\ TypeOK /\ pc = "readLow" /\ pc' # "idle"
      /\ UNCHANGED <<kind, data, count, i2c_error>>
  BY DEF Inv, ReadLow, Drives, registers
<1>2. kind = "read" /\ slave'.taken = slave.taken
  BY ReadLowStep
<1>3. CASE slave'.given = slave.given
  BY <1>1, <1>2, <1>3, Unseen DEF HistoryKept
<1>4. CASE /\ Len(slave.given) = Len(data) /\ count > 0
           /\ \E b \in Bytes : slave'.given = Append(slave.given, b)
  <2>1. Len(slave.given) < Len(data) + count
    BY <1>1, <1>4 DEF TypeOK
  <2>2. I2c!Give
    BY <1>1, <1>2, <1>4, <2>1 DEF I2c!Give
  <2> QED BY <2>2 DEF I2c!CallsNext
<1> QED BY <1>3, <1>4, ReadLowStep

\* The eighth bit of a byte stores it.
LEMMA FillsOne ==
    ASSUME Inv, BitRead
    PROVE  [I2c!CallsNext]_I2c!callVars
<1>1. /\ TypeOK /\ pc = "readSample" /\ pc' # "idle" /\ SendsBack(9 - left) /\ count > 0
      /\ UNCHANGED <<slave, kind, i2c_error>>
  BY DEF Inv, LinesInv, BitRead, ReceivesBit, busLines
<1>2. CASE left > 1
  <2>1. UNCHANGED <<data, count>>
    BY <1>2 DEF BitRead
  <2> QED BY <1>1, <2>1, Unseen DEF HistoryKept
<1>3. CASE ~(left > 1)
  <2>1. data' = Append(data, byte') /\ count' = count - 1
    BY <1>3 DEF BitRead
  <2>2. /\ kind = "read" /\ Len(slave.given) = Len(data) + 1 /\ data \in Seq(0..255)
        /\ slave.reg = slave.given[Len(data) + 1]
    BY <1>1 DEF SendsBack, Reads, TypeOK
  <2>3. byte' = slave.reg /\ byte' \in 0..255
    <3>1. ReceivesBit /\ Scl /\ byte' = byte + (IF Sda THEN 2^(left - 1) ELSE 0)
      BY <1>1 DEF Inv, LinesInv, BitRead
    <3>2. left - 1 = 0 /\ slave.reg \in 0..255
      BY <1>1, <1>3 DEF TypeOK, Slave
    <3> QED BY <1>1, <3>1, <3>2, BitReads, TopBits
  <2>4. Len(data') + count' = Len(data) + count
    BY <1>1, <2>1, <2>2, <2>3 DEF TypeOK
  <2>5. I2c!Fill
    BY <1>1, <2>1, <2>2, <2>3, <2>4 DEF I2c!Fill
  <2> QED BY <2>5 DEF I2c!CallsNext
<1> QED BY <1>2, <1>3

\* The slave's bytes and the buffer's are the same kind of sequence.
LEMMA BytesAreBytes ==
    ASSUME NEW g \in Seq(Bytes)
    PROVE  g \in Seq(0..255)
<1>1. Bytes \subseteq 0..255
  BY SlaveAssumption
<1>2. Seq(Bytes) \subseteq Seq(0..255)
  BY <1>1, SeqMonotonic, Zenon
<1> QED BY <1>2

\* At a successful end all bytes have been transferred.
LEMMA AllTransferred ==
    ASSUME TypeOK, GotFar, i2c_error = 0
    PROVE  /\ count = 0
           /\ kind = "write" => slave.given = <<>> /\ slave.taken = data
           /\ kind = "read" => slave.taken = <<>> /\ slave.given = data
<1>1. count = 0 /\ (Writes(Sent) \/ Reads(0))
  BY DEF GotFar
<1>2. CASE Writes(Sent)
  <2>1. /\ slave.taken \in Seq(Bytes) /\ data \in Seq(Bytes) /\ Sent = Len(data)
        /\ Len(slave.taken) = Len(data)
        /\ \A i \in 1..Len(data) : slave.taken[i] = data[i]
    BY <1>1, <1>2 DEF Writes, Sent, TypeOK, Slave
  <2>2. slave.taken = data
    BY <2>1, SeqEqual
  <2> QED BY <1>1, <1>2, <2>2 DEF Writes
<1>3. CASE Reads(0)
  <2>1. /\ slave.given \in Seq(Bytes) /\ data \in Seq(0..255)
        /\ Len(slave.given) = Len(data)
        /\ \A i \in 1..Len(data) : slave.given[i] = data[i]
    BY <1>3 DEF Reads, TypeOK, Slave
  <2>2. slave.given \in Seq(0..255)
    BY <2>1, BytesAreBytes
  <2>3. slave.given = data
    BY <2>1, <2>2, SeqEqual
  <2> QED BY <1>1, <1>3, <2>3 DEF Reads
<1> QED BY <1>1, <1>2, <1>3

\* A call returns with a code that tells how far it got.
LEMMA CallReturns ==
    ASSUME Inv, pc # "idle", pc' = "idle", HistoryKept, UNCHANGED <<kind, data, count>>,
           i2c_error' \in {0, 1, 2, 4, 8}, I2c!Explains(i2c_error')
    PROVE  I2c!CallsNext
<1>1. TypeOK
  BY DEF Inv
<1>2. I2c!Return
  BY <1>1 DEF I2c!Return, HistoryKept, TypeOK
<1> QED BY <1>2 DEF I2c!CallsNext

\* Every step is one of the calls' or unseen.
LEMMA Implements ==
    ASSUME Inv, NoAckStretch, [Next]_vars
    PROVE  [I2c!CallsNext]_I2c!callVars
<1>1. CASE CallWrite \/ CallRead
  BY <1>1, BeginsCall
<1>2. CASE EndTransaction
  <2>1. I2c!EndTransaction
    BY <1>2 DEF EndTransaction, I2c!EndTransaction, busLines, registers
  <2> QED BY <2>1 DEF I2c!CallsNext
<1>3. CASE Setup
  BY <1>3, SetupStep, Unseen DEF Setup, registers, HistoryKept
<1>4. CASE BusTaken
  <2>1. /\ pc = "start" /\ pc' = "idle" /\ i2c_error' = 1
        /\ UNCHANGED <<slave, kind, data, count>>
    BY <1>4 DEF BusTaken, Fails, busLines, registers
  <2>2. slave.taken = <<>> /\ slave.given = <<>>
    BY <2>1 DEF Inv, LinesInv, TypeOK, Slave, Addresses, Writes
  <2>3. I2c!Explains(1)
    BY <2>2 DEF I2c!Explains
  <2> QED BY <2>1, <2>3, CallReturns DEF HistoryKept
<1>5. CASE Start
  BY <1>5, StartStep, Unseen DEF Start, HistoryKept
<1>6. CASE BitLow \/ BitData \/ BitHigh \/ BitSent
  BY <1>6, BitLowStep, BitDataStep, BitHighStep, BitSentStep, Unseen
     DEF BitLow, BitData, BitHigh, BitSent, Drives, Raises, registers
<1>7. CASE Stretch
  BY <1>7, StretchStep, Unseen DEF Stretch
<1>8. CASE StretchedTooLong
  <2>1. /\ pc \in {"bitSample", "readSample"} /\ pc' = "idle" /\ i2c_error' = 8
        /\ UNCHANGED <<slave, kind, data, count>>
    BY <1>8 DEF StretchedTooLong, Fails, busLines, registers
  <2>2. \/ kind = "write" /\ Len(slave.taken) < Len(data)
        \/ kind = "read" /\ Len(data) < Len(data) + count
    <3>1. CASE pc = "bitSample"
      BY <3>1 DEF Inv, LinesInv, SendsBit, BeforeAck, Addresses, Writes, Before, Sent, TypeOK
    <3>2. CASE pc = "readSample"
      BY <3>2 DEF Inv, LinesInv, ReceivesBit, SendsBack, Reads, TypeOK
    <3> QED BY <2>1, <3>1, <3>2
  <2>3. I2c!Explains(8)
    BY <2>2 DEF I2c!Explains
  <2> QED BY <2>1, <2>3, CallReturns DEF HistoryKept
<1>9. CASE AckLow
  BY <1>9, TakesOne
<1>10. CASE AckRelease \/ AckHigh \/ Nack \/ SlaveAck \/ SlaveAckRead
  BY <1>10, AckReleaseStep, AckHighStep, NackStep, SlaveAckStep, SlaveAckReadStep, Unseen
     DEF AckRelease, AckHigh, Nack, SlaveAck, SlaveAckRead, Drives, Fails, registers
<1>11. CASE ReadLow
  BY <1>11, GivesOne
<1>12. CASE ReadRelease \/ ReadHigh
  BY <1>12, ReadReleaseStep, ReadHighStep, Unseen
     DEF ReadRelease, ReadHigh, Drives, Raises, registers
<1>13. CASE BitRead
  BY <1>13, FillsOne
<1>14. CASE AnswerLow \/ AnswerSda \/ AnswerHigh
  BY <1>14, AnswerLowStep, AnswerSdaStep, AnswerHighStep, Unseen
     DEF AnswerLow, AnswerSda, AnswerHigh, Drives, registers
<1>15. CASE StopSda \/ StopLow \/ StopHigh \/ NackSda
  BY <1>15, StopSdaStep, StopLowStep, StopHighStep, NackSdaStep, Unseen
     DEF StopSda, StopLow, StopHigh, NackSda, Drives, registers
<1>16. CASE StopEnd
  <2>1. /\ pc = "stopEnd" /\ pc' = "idle" /\ GotFar /\ HistoryKept
        /\ UNCHANGED <<kind, data, count, i2c_error>>
    BY <1>16, StopEndStep DEF StopEnd, Drives, registers, HistoryKept
  <2>2. TypeOK
    BY DEF Inv
  <2>3. CASE i2c_error = 0
    <3>1. I2c!Explains(0)
      BY <2>1, <2>2, <2>3, AllTransferred DEF TypeOK, I2c!Explains
    <3> QED BY <2>1, <2>3, <3>1, CallReturns
  <2>4. CASE i2c_error \in {2, 4}
    <3>1. CASE i2c_error = 2
      <4>1. I2c!Explains(2)
        BY <2>1, <3>1 DEF GotFar, I2c!Explains
      <4> QED BY <2>1, <3>1, <4>1, CallReturns
    <3>2. CASE i2c_error = 4
      <4>1. I2c!Explains(4)
        BY <2>1, <3>2 DEF GotFar, I2c!Explains
      <4> QED BY <2>1, <3>2, <4>1, CallReturns
    <3> QED BY <2>4, <3>1, <3>2
  <2> QED BY <2>1, <2>3, <2>4 DEF GotFar
<1>17. CASE LetsGo
  BY <1>17, LetsGoStep, Unseen DEF LetsGo, registers, HistoryKept
<1>18. CASE UNCHANGED vars
  BY <1>18, Unseen DEF vars, busLines, registers, HistoryKept
<1> QED BY <1>1, <1>2, <1>3, <1>4, <1>5, <1>6, <1>7, <1>8, <1>9, <1>10, <1>11, <1>12,
           <1>13, <1>14, <1>15, <1>16, <1>17, <1>18 DEF Next, Calls, Code

\* The bytes arrive unchanged and in order, and the error code says how far the
\* call got: every behaviour of the lines is, seen by the caller, one that the
\* calls promise.  brzo_i2c_write, brzo_i2c_read and their comments.
THEOREM CallsAsPromised ==
    ASSUME NoAckStretch
    PROVE  Spec => I2c!SafeSpec
<1>1. Init => I2c!CallsInit
  BY DEF Init, SlaveInit, I2c!CallsInit
<1>2. Inv /\ [Next]_vars => Inv'
  BY LinesNext
<1>3. Inv /\ [Next]_vars => [I2c!CallsNext]_I2c!callVars
  BY Implements
<1> QED BY LinesInit, <1>1, <1>2, <1>3, PTL DEF Spec, I2c!SafeSpec

\* Zero is returned only when all bytes have been transferred as they were sent,
\* by a slave that does not stretch its acknowledge: that clock is all that the
\* violation of ZeroMeansDone by other slaves rests on.
THEOREM ZeroIsDone ==
    ASSUME NoAckStretch
    PROVE  Spec => ZeroMeansDone
<1> DEFINE Step == Returns /\ i2c_error' = 0 =>
                    IF kind = "write" THEN slave'.taken = data
                                      ELSE data = SubSeq(slave'.given, 1, Len(data))
<1>1. Inv /\ [Next]_vars => Inv'
  BY LinesNext
<1>2. Inv /\ [Next]_vars => [Step]_vars
  <2> SUFFICES ASSUME Inv, [Next]_vars, Returns, i2c_error' = 0
               PROVE  IF kind = "write" THEN slave'.taken = data
                                        ELSE data = SubSeq(slave'.given, 1, Len(data))
    OBVIOUS
  <2>1. StopEnd
    BY ReturnIsLast
  <2>2. /\ TypeOK /\ GotFar /\ i2c_error = 0
        /\ slave'.taken = slave.taken /\ slave'.given = slave.given
    BY <2>1, StopEndStep DEF Inv
  <2>3. /\ kind = "write" => slave'.taken = data
        /\ kind = "read" => slave'.given = data
    BY <2>2, AllTransferred
  <2>4. SubSeq(data, 1, Len(data)) = data
    BY <2>2 DEF TypeOK
  <2> QED BY <2>2, <2>3, <2>4 DEF TypeOK
<1> QED BY LinesInit, <1>1, <1>2, PTL DEF Spec, ZeroMeansDone

-----------------------------------------------------------------------------
(* Every call comes to its end, for every slave: that of an acknowledge may *)
(* be stretched as well, and any clock for ever.                           *)

\* What the counts of a running call are.
CountInv ==
    /\ pc \in Label /\ kind \in {"write", "read"}
    /\ left \in 1..8 /\ count \in Nat
    /\ pc \in {"bitSample", "readSample"} => wait \in 1..ClockStretch + 1
    /\ pc \in {"readLow", "readRelease", "readHigh", "readSample"} => count > 0
    /\ kind = "read" /\ pc \in {"start", "bitLow", "bitData", "bitHigh", "bitSample",
                                "ackLow", "ackRelease", "ackHigh", "ackSample"} =>
            count > 0

\* A product with one factor more.
LEMMA Multiples ==
    ASSUME NEW B \in Nat, NEW n \in Nat
    PROVE  n * B \in Nat /\ (n + 1) * B = n * B + B
OBVIOUS

LEMMA StepsOfBits ==
    /\ BitSteps \in Nat /\ BitSteps = ClockStretch + 4 /\ ClockStretch \in Nat \ {0}
    /\ ByteSteps \in Nat /\ ByteSteps = 8 * BitSteps + 4
BY ClockStretchAssumption DEF BitSteps, ByteSteps

\* The steps for the bits and bytes still to come, when there is one more.
LEMMA StepsToCome ==
    ASSUME CountInv
    PROVE  /\ BytesTake(count) \in Nat
           /\ BytesTake(count + 1) = BytesTake(count) + ByteSteps
           /\ count > 0 => /\ BytesTake(count - 1) \in Nat
                           /\ BytesTake(count) = BytesTake(count - 1) + ByteSteps
           /\ BitsTake(left - 1) \in Nat
           /\ left > 1 => /\ BitsTake(left - 1 - 1) \in Nat
                          /\ BitsTake(left - 1) = BitsTake(left - 1 - 1) + BitSteps
           /\ BitsTake(8 - 1) = 7 * BitSteps
<1>1. count \in Nat /\ left - 1 \in Nat
    BY DEF CountInv
<1>2. BytesTake(count) \in Nat /\ BytesTake(count + 1) = BytesTake(count) + ByteSteps
    BY <1>1, StepsOfBits, Multiples DEF BytesTake
<1>3. ASSUME count > 0
      PROVE  /\ BytesTake(count - 1) \in Nat
             /\ BytesTake(count) = BytesTake(count - 1) + ByteSteps
    <2>1. count - 1 \in Nat /\ (count - 1) + 1 = count
        BY <1>1, <1>3
    <2>2. /\ (count - 1) * ByteSteps \in Nat
          /\ ((count - 1) + 1) * ByteSteps = (count - 1) * ByteSteps + ByteSteps
        BY <2>1, StepsOfBits, Multiples
    <2> QED BY <2>1, <2>2 DEF BytesTake
<1>4. BitsTake(left - 1) \in Nat
    BY <1>1, StepsOfBits, Multiples DEF BitsTake
<1>5. ASSUME left > 1
      PROVE  /\ BitsTake(left - 1 - 1) \in Nat
             /\ BitsTake(left - 1) = BitsTake(left - 1 - 1) + BitSteps
    <2>1. left - 1 - 1 \in Nat /\ (left - 1 - 1) + 1 = left - 1
        BY <1>5 DEF CountInv
    <2>2. /\ (left - 1 - 1) * BitSteps \in Nat
          /\ ((left - 1 - 1) + 1) * BitSteps = (left - 1 - 1) * BitSteps + BitSteps
        BY <2>1, StepsOfBits, Multiples
    <2> QED BY <2>1, <2>2 DEF BitsTake
<1>6. BitsTake(8 - 1) = 7 * BitSteps
    BY StepsOfBits DEF BitsTake
<1> QED BY <1>2, <1>3, <1>4, <1>5, <1>6

\* A step of a routine leaves fewer to be taken.
LEMMA CodeShortens ==
    ASSUME CountInv, Code
    PROVE  CountInv' /\ StepsLeft' \in 0..(StepsLeft - 1)
<1> USE StepsOfBits, StepsToCome DEF CountInv, Label, StepsLeft, PieceLeft
<1>1. CASE BusTaken
    BY <1>1 DEF BusTaken, Fails, registers
<1>2. CASE Start
    BY <1>2 DEF Start
<1>3. CASE BitLow
    <2>1. pc = "bitLow" /\ pc' = "bitData" /\ UNCHANGED registers
        BY <1>3 DEF BitLow, Drives
    <2> QED BY <2>1 DEF registers
<1>4. CASE BitData
    <2>1. pc = "bitData" /\ pc' = "bitHigh" /\ UNCHANGED registers
        BY <1>4 DEF BitData, Drives
    <2> QED BY <2>1 DEF registers
<1>5. CASE BitHigh
    <2>1. /\ pc = "bitHigh" /\ pc' = "bitSample" /\ wait' = ClockStretch + 1
          /\ UNCHANGED <<kind, left, count>>
        BY <1>5 DEF BitHigh, Raises
    <2> QED BY <2>1
<1>6. CASE ReadHigh
    <2>1. /\ pc = "readHigh" /\ pc' = "readSample" /\ wait' = ClockStretch + 1
          /\ UNCHANGED <<kind, left, count>>
        BY <1>6 DEF ReadHigh, Raises
    <2> QED BY <2>1
<1>7. CASE Stretch
    BY <1>7 DEF Stretch
<1>8. CASE StretchedTooLong
    BY <1>8 DEF StretchedTooLong, Fails, registers
<1>9. CASE BitSent
    BY <1>9 DEF BitSent
<1>10. CASE AckLow
    <2>1. pc = "ackLow" /\ pc' \in {"ackRelease", "ackHigh"} /\ UNCHANGED registers
        BY <1>10 DEF AckLow, Drives
    <2> QED BY <2>1 DEF registers
<1>11. CASE AckRelease
    <2>1. pc = "ackRelease" /\ pc' = "ackHigh" /\ UNCHANGED registers
        BY <1>11 DEF AckRelease, Drives
    <2> QED BY <2>1 DEF registers
<1>12. CASE AckHigh
    <2>1. pc = "ackHigh" /\ pc' = "ackSample" /\ UNCHANGED registers
        BY <1>12 DEF AckHigh, Drives
    <2> QED BY <2>1 DEF registers
<1>13. CASE Nack
    BY <1>13 DEF Nack, Fails, registers
<1>14. CASE SlaveAck
    <2>1. CASE count = 0
        <3>1. pc = "ackSample" /\ pc' = "stopLow" /\ UNCHANGED <<kind, left, count>>
            BY <1>14, <2>1 DEF SlaveAck
        <3> QED BY <3>1
    <2>2. CASE count # 0
        <3>1. /\ pc = "ackSample" /\ pc' = "bitLow" /\ kind = "write"
              /\ kind' = kind /\ left' = 8 /\ count' = count - 1
            BY <1>14, <2>2 DEF SlaveAck, Loads
        <3>2. BitsTake(left' - 1) = 7 * BitSteps
            BY <3>1
        <3>3. count > 0 /\ BytesTake(count') = BytesTake(count - 1)
            BY <2>2, <3>1
        <3> QED BY <3>1, <3>2, <3>3
    <2> QED BY <2>1, <2>2
<1>15. CASE SlaveAckRead
    BY <1>15 DEF SlaveAckRead, Loads
<1>16. CASE ReadLow
    <2>1. pc = "readLow" /\ pc' = "readRelease" /\ UNCHANGED registers
        BY <1>16 DEF ReadLow, Drives
    <2> QED BY <2>1 DEF registers
<1>17. CASE ReadRelease
    <2>1. pc = "readRelease" /\ pc' = "readHigh" /\ UNCHANGED registers
        BY <1>17 DEF ReadRelease, Drives
    <2> QED BY <2>1 DEF registers
<1>18. CASE BitRead
    <2>1. CASE left > 1
        <3>1. /\ pc = "readSample" /\ pc' = "readLow" /\ left' = left - 1
              /\ UNCHANGED <<kind, count>>
            BY <1>18, <2>1 DEF BitRead
        <3> QED BY <2>1, <3>1
    <2>2. CASE ~(left > 1)
        <3>1. /\ pc = "readSample" /\ pc' = "answerLow" /\ count' = count - 1
              /\ UNCHANGED <<kind, left>>
            BY <1>18, <2>2 DEF BitRead
        <3>2. count > 0 /\ BytesTake(count') = BytesTake(count - 1)
            BY <3>1
        <3> QED BY <3>1, <3>2
    <2> QED BY <2>1, <2>2
<1>19. CASE AnswerLow
    <2>1. pc = "answerLow" /\ pc' = "answerSda" /\ UNCHANGED registers
        BY <1>19 DEF AnswerLow, Drives
    <2> QED BY <2>1 DEF registers
<1>20. CASE AnswerSda
    <2>1. pc = "answerSda" /\ pc' = "answerHigh" /\ UNCHANGED registers
        BY <1>20 DEF AnswerSda, Drives
    <2> QED BY <2>1 DEF registers
<1>21. CASE AnswerHigh
    BY <1>21 DEF AnswerHigh, Loads
<1>22. CASE StopSda
    <2>1. pc = "stopSda" /\ pc' = "stopLow" /\ UNCHANGED registers
        BY <1>22 DEF StopSda, Drives
    <2> QED BY <2>1 DEF registers
<1>23. CASE StopLow
    <2>1. pc = "stopLow" /\ pc' = "stopHigh" /\ UNCHANGED registers
        BY <1>23 DEF StopLow, Drives
    <2> QED BY <2>1 DEF registers
<1>24. CASE StopHigh
    <2>1. pc = "stopHigh" /\ pc' = "stopEnd" /\ UNCHANGED registers
        BY <1>24 DEF StopHigh, Drives
    <2> QED BY <2>1 DEF registers
<1>25. CASE NackSda
    <2>1. pc = "nackSda" /\ pc' = "stopEnd" /\ UNCHANGED registers
        BY <1>25 DEF NackSda, Drives
    <2> QED BY <2>1 DEF registers
<1>26. CASE StopEnd
    <2>1. pc = "stopEnd" /\ pc' = "idle" /\ UNCHANGED registers
        BY <1>26 DEF StopEnd, Drives
    <2> QED BY <2>1 DEF registers
<1> QED BY <1>1, <1>2, <1>3, <1>4, <1>5, <1>6, <1>7, <1>8, <1>9, <1>10, <1>11,
        <1>12, <1>13, <1>14, <1>15, <1>16, <1>17, <1>18, <1>19, <1>20, <1>21,
        <1>22, <1>23, <1>24, <1>25, <1>26 DEF Code

\* The caller starts a call with all its bytes to come.
LEMMA CallsCount ==
    ASSUME CountInv, Calls
    PROVE  CountInv' /\ pc = "idle"
<1>1. CASE CallWrite
    BY <1>1 DEF CallWrite, Called, Payload, CountInv, Label
<1>2. CASE CallRead
    BY <1>2, SlaveAssumption DEF CallRead, Called, CountInv, Label
<1>3. CASE EndTransaction \/ Setup
    BY <1>3 DEF EndTransaction, Setup, registers, CountInv
<1> QED BY <1>1, <1>2, <1>3 DEF Calls

\* Every call is over after a bounded number of steps, for every buffer, every
\* clock stretch limit and every slave: the part of the promise that every call
\* returns which needs no fairness but the processor's.
THEOREM CallsReturn == Spec => CallsEnd
<1> DEFINE Step == IF Code THEN StepsLeft' \in 0..(StepsLeft - 1)
                           ELSE pc # "idle" => StepsLeft' = StepsLeft
<1>1. Init => CountInv
    BY DEF Init, CountInv, Label
<1>2. CountInv /\ [Next]_vars => CountInv' /\ [Step]_vars
    <2> SUFFICES ASSUME CountInv, [Next]_vars PROVE CountInv' /\ [Step]_vars
        OBVIOUS
    <2>1. CASE Code
        BY <2>1, CodeShortens
    <2>2. CASE ~Code /\ Calls
        BY <2>2, CallsCount
    <2>3. CASE ~Code /\ (LetsGo \/ UNCHANGED vars)
        <3>1. UNCHANGED <<registers, pc>>
            BY <2>3 DEF LetsGo, vars
        <3>2. CountInv'
            BY <3>1 DEF CountInv, registers
        <3>3. StepsLeft' = StepsLeft
            BY <3>1 DEF StepsLeft, PieceLeft, registers
        <3> QED BY <2>3, <3>2, <3>3
    <2> QED BY <2>1, <2>2, <2>3 DEF Next
<1> QED BY <1>1, <1>2, PTL DEF Spec, CallsEnd

=============================================================================
