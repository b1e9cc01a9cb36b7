------------------------------ MODULE I2cSlave ------------------------------
(***************************************************************************)
(* The two open-drain lines SDA and SCL between the ESP8266 and the PN532, *)
(* and the PN532 as an ordinary I2C slave.  A line is high when neither    *)
(* side pulls it low.  The master's delays of a half cycle give the slave  *)
(* time to react, so it reacts to an edge in the same step; what they do   *)
(* not bound is how long a slave keeps SCL low, which ends with an action  *)
(* of its own.  The slave is not part of the repository.                   *)
(***************************************************************************)
EXTENDS Naturals, Sequences

CONSTANTS
    Bytes,          \* the data bytes that occur
    MaxBytes,       \* the longest buffer passed to a call
    Habits          \* the kinds of slaves, each the set of the clocks that it
                    \* may stretch: those of a data "bit", the one after a
                    \* "byte" it has taken, that of an "ack"

ASSUME SlaveAssumption ==
    /\ Bytes \subseteq 0..255
    /\ MaxBytes \in Nat \ {0}
    /\ Habits \subseteq SUBSET {"bit", "byte", "ack"}

VARIABLES
    mSda, mScl,     \* does the master let the line go?
    slave           \* the chip's side, a record of Slave

busLines == <<mSda, mScl, slave>>

PN532_I2C_ADDRESS == 36

\* The bit of b with i more to follow.
BitOf(b, i) == (b \div 2^i) % 2

-----------------------------------------------------------------------------
(* The slave: an ordinary I2C slave, as the chip's manual has it.          *)

Slave ==
    [mode    : {"idle", "address", "ackAddress", "receive", "ackData", "send",
                "ackWait", "acked"},
     bits    : 0..8,            \* bits of the byte that have passed
     reg     : 0..255,          \* its shift register
     habit   : Habits,          \* what it stretches
     stretch : BOOLEAN,         \* does it hold SCL low?
     taken   : Seq(Bytes),      \* history: the bytes acknowledged, and
     given   : Seq(Bytes)]      \* the bytes sent, in this call

SlaveInit ==
    \E habit \in Habits :
        slave = [mode |-> "idle", bits |-> 0, reg |-> 0, habit |-> habit,
                 stretch |-> FALSE, taken |-> <<>>, given |-> <<>>]

\* It pulls SDA low to acknowledge and to send a zero.
PullsSda(s) ==
    \/ s.mode \in {"ackAddress", "ackData"}
    \/ s.mode = "send" /\ BitOf(s.reg, 8 - s.bits) = 0

\* The clock it may be about to stretch after SCL has fallen.
ClockOf(s) ==
    CASE s.mode \in {"ackAddress", "ackData", "ackWait"} -> "ack"
      [] s.mode = "receive" -> IF s.bits = 0 THEN "byte" ELSE "bit"
      [] s.mode = "send" -> "bit"
      [] OTHER -> "none"

Restarted(s) == [s EXCEPT !.mode = "address", !.bits = 0, !.reg = 0]

Stopped(s) == [s EXCEPT !.mode = "idle"]

\* SCL has risen: a bit is shifted in, or the master's acknowledge is seen.
Risen(s, sda) ==
    CASE s.mode \in {"address", "receive"} /\ s.bits < 8 ->
            [s EXCEPT !.bits = @ + 1,
                      !.reg = (2 * @ + (IF sda THEN 1 ELSE 0)) % 256]
      [] s.mode = "ackWait" -> [s EXCEPT !.mode = IF sda THEN "idle" ELSE "acked"]
      [] OTHER -> s

Sending(s) ==
    {[s EXCEPT !.mode = "send", !.bits = 1, !.reg = b,
               !.given = Append(@, b)] : b \in Bytes}

\* SCL has fallen: the slave goes on to the next bit, or refuses the byte.
Fallen(s) ==
    CASE s.mode = "address" /\ s.bits = 8 ->
            {Stopped(s)} \cup
            (IF s.reg \div 2 = PN532_I2C_ADDRESS
                THEN {[s EXCEPT !.mode = "ackAddress"]} ELSE {})
      [] s.mode = "ackAddress" /\ s.reg % 2 = 1 -> Sending(s)
      [] s.mode = "acked" -> Sending(s)
      [] s.mode = "ackData" \/ (s.mode = "ackAddress" /\ s.reg % 2 = 0) ->
            {[s EXCEPT !.mode = "receive", !.bits = 0, !.reg = 0]}
      [] s.mode = "receive" /\ s.bits = 8 ->
            {Stopped(s), [s EXCEPT !.mode = "ackData",
                                   !.taken = Append(@, s.reg)]}
      [] s.mode = "send" ->
            {IF s.bits < 8 THEN [s EXCEPT !.bits = @ + 1]
                           ELSE [s EXCEPT !.mode = "ackWait"]}
      [] OTHER -> {s}

\* After a fall it may also keep the clock low.
Stretching(states) ==
    states \cup {[s EXCEPT !.stretch = TRUE] :
                    s \in {t \in states : ClockOf(t) \in t.habit}}

-----------------------------------------------------------------------------
(* The lines.                                                              *)

Sda == mSda /\ ~PullsSda(slave)
Scl == mScl /\ ~slave.stretch

\* The master sets its side of the lines, and the slave reacts to the edge.
\* The code changes one line at a time.
Lines(sda, scl) ==
    LET newSda == sda /\ ~PullsSda(slave)
        newScl == scl /\ ~slave.stretch
    IN  /\ mSda' = sda /\ mScl' = scl
        /\ slave' \in
            CASE Scl /\ ~newScl -> Stretching(Fallen(slave))
              [] ~Scl /\ newScl -> {Risen(slave, newSda)}
              [] Scl /\ newScl /\ Sda /\ ~newSda -> {Restarted(slave)}
              [] Scl /\ newScl /\ ~Sda /\ newSda -> {Stopped(slave)}
              [] OTHER -> {slave}

\* The slave lets SCL go.
SlaveReleases ==
    /\ slave.stretch
    /\ slave' = LET s == [slave EXCEPT !.stretch = FALSE]
                IN  IF mScl THEN Risen(s, Sda) ELSE s
    /\ UNCHANGED <<mSda, mScl>>
=============================================================================
