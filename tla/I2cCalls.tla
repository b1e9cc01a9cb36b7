------------------------------ MODULE I2cCalls ------------------------------
(***************************************************************************)
(* What brzo_i2c promises its caller (driver/brzo_i2c.c, the comments at   *)
(* 130-137, 437-443 and 867-875): a call moves bytes between the caller's  *)
(* buffer and the slave, in order, and comes back with an error code that  *)
(* says how far it got.  The code stays set until the transaction ends.    *)
(* Module BrzoLines shows that the lines implement this.                   *)
(***************************************************************************)
EXTENDS Naturals, Sequences

CONSTANTS
    Bytes,      \* the bytes that occur
    MaxBytes    \* the longest buffer passed to a call

VARIABLES
    call,       \* the call that is running, or "none"
    todo,       \* a write: the bytes to send
    taken,      \* the bytes the slave has acknowledged
    wanted,     \* a read: the number of bytes asked for
    given,      \* the bytes the slave has begun to send
    buffer,     \* the bytes stored in the caller's buffer
    i2c_error   \* the global error code

callVars == <<call, todo, taken, wanted, given, buffer, i2c_error>>

Payload == UNION {[1..n -> Bytes] : n \in 1..MaxBytes}

CallsInit ==
    /\ call = "none"
    /\ todo = <<>> /\ taken = <<>>
    /\ wanted = 0 /\ given = <<>> /\ buffer = <<>>
    /\ i2c_error = 0

Begins(kind) ==
    /\ call = "none" /\ i2c_error = 0
    /\ call' = kind
    /\ taken' = <<>> /\ given' = <<>> /\ buffer' = <<>>
    /\ UNCHANGED i2c_error

Write == Begins("write") /\ todo' \in Payload /\ wanted' = 0

Read == Begins("read") /\ wanted' \in 1..MaxBytes /\ todo' = <<>>

\* The slave takes the next byte.
Take ==
    /\ call = "write" /\ Len(taken) < Len(todo)
    /\ taken' = Append(taken, todo[Len(taken) + 1])
    /\ UNCHANGED <<call, todo, wanted, given, buffer, i2c_error>>

\* The slave goes on with a further byte.
Give ==
    /\ call = "read" /\ Len(given) < wanted
    /\ \E byte \in Bytes : given' = Append(given, byte)
    /\ UNCHANGED <<call, todo, taken, wanted, buffer, i2c_error>>

\* The byte the slave has sent is stored.
Fill ==
    /\ call = "read" /\ Len(buffer) < Len(given)
    /\ buffer' = Append(buffer, given[Len(buffer) + 1])
    /\ UNCHANGED <<call, todo, taken, wanted, given, i2c_error>>

\* How far a call that returns with the given code has got.
Explains(error) ==
    CASE error = 0 -> taken = todo /\ buffer = given /\ Len(buffer) = wanted
      [] error = 1 -> taken = <<>> /\ given = <<>>
      [] error = 2 -> call = "write" /\ Len(taken) < Len(todo)
      [] error = 4 -> call = "read" /\ given = <<>>
      [] error = 8 -> Len(taken) < Len(todo) \/ Len(buffer) < wanted

Return ==
    /\ call # "none"
    /\ \E error \in {0, 1, 2, 4, 8} : Explains(error) /\ i2c_error' = error
    /\ call' = "none"
    /\ UNCHANGED <<todo, taken, wanted, given, buffer>>

EndTransaction ==
    /\ call = "none"
    /\ i2c_error' = 0
    /\ UNCHANGED <<call, todo, taken, wanted, given, buffer>>

CallsNext ==
    \/ Write \/ Read
    \/ Take \/ Give \/ Fill
    \/ Return \/ EndTransaction

\* What a call may do, and that it always comes back.
SafeSpec == CallsInit /\ [][CallsNext]_callVars
CallsSpec == SafeSpec /\ WF_callVars(Return)
=============================================================================
