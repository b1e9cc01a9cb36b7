----------------------------- MODULE Pn532Chip -----------------------------
(***************************************************************************)
(* The PN532 reader chip and the cards held in front of it, as the driver  *)
(* in driver/pn532.c relies on them.  The chip is not part of the          *)
(* repository: everything here is read off the way pn532.c talks to it.    *)
(*                                                                         *)
(* The chip takes one command at a time.  A command written by the host is *)
(* first acknowledged with an ACK frame and then, once executed, answered  *)
(* with a response frame.  The chip pulls its IRQ line low whenever a      *)
(* frame waits to be read.  A new command drops whatever was pending.      *)
(***************************************************************************)

EXTENDS Pn532Frame

VARIABLES
    chip,       \* what the chip is doing, a record of Chip
    field       \* the card in the chip's radio field, or NoCard

-----------------------------------------------------------------------------

ReadCommands == {"readSsidBlock", "readPswdBlock"}

\* The commands to an authenticated card.
BlockCommands == ReadCommands \cup {"writeBlock"}

\* The commands that the chip answers with a bare "done".
Settings == {"rfConfiguration", "samConfiguration", "writeGpio"}

Command ==
    {"none", "getFirmwareVersion", "listPassiveTarget", "authenticate"}
        \cup Settings \cup BlockCommands

Chip ==
    [phase    : {"idle", "command", "ack", "busy", "response"},
     cmd      : Command,
     response : Frame,
     selected : Card \cup {NoCard},
     authed   : BOOLEAN]

ChipInit ==
    /\ chip = [phase |-> "idle", cmd |-> "none", response |-> Plain("zero"),
               selected |-> NoCard, authed |-> FALSE]
    /\ field = NoCard

\* The IRQ line is low exactly while a frame waits to be read.
IrqLow(c) == c.phase \in {"ack", "response"}

\* Chip c after the host has written cmd: the frame that waited, if any, is
\* dropped; a listing forgets the selected card, a new authentication the old.
Receives(c, cmd) ==
    [c EXCEPT !.phase = "command",
              !.cmd = cmd,
              !.response = Plain("zero"),
              !.selected = IF cmd = "listPassiveTarget" THEN NoCard ELSE @,
              !.authed = IF cmd \in BlockCommands THEN @ ELSE FALSE]

\* What a read by the host returns, and how it leaves the chip.
FrameOf(c) ==
    CASE c.phase = "ack"      -> Plain("ack")
      [] c.phase = "response" -> c.response
      [] OTHER                -> Plain("junk")

AfterRead(c) ==
    CASE c.phase = "ack"      -> [c EXCEPT !.phase = "busy"]
      [] c.phase = "response" -> [c EXCEPT !.phase = "idle",
                                           !.response = Plain("zero")]
      [] OTHER                -> c

Acknowledged(c) == [c EXCEPT !.phase = "ack"]

Answered(c, frame) == [c EXCEPT !.phase = "response", !.response = frame]

\* The answers to a block command that succeeds.  The data of a block lie where
\* a listing has the UID, and may pass for one.
Outcomes(cmd) ==
    [kind : {"success"},
     uid  : {NoCard} \cup (IF cmd \in ReadCommands THEN {CutUid} ELSE {})]

\* The states in which the chip can be once it has executed its command with
\* the given card in the field.  A listing is answered only when there is a
\* card: the driver configures an unlimited number of activation retries.
Answers(c, card) ==
    CASE c.cmd = "getFirmwareVersion" -> {Answered(c, Plain("firmware"))}
      [] c.cmd \in Settings -> {Answered(c, Plain("done"))}
      [] c.cmd = "listPassiveTarget" ->
            IF card = NoCard THEN {}
            ELSE {[Answered(c, [kind |-> "target", uid |-> card])
                        EXCEPT !.selected = card]}
      [] c.cmd = "authenticate" ->
            {Answered(c, Plain("failure"))} \cup
            (IF card # NoCard /\ card = c.selected
                THEN {[Answered(c, Plain("success")) EXCEPT !.authed = TRUE]}
                ELSE {})
      [] c.cmd \in BlockCommands ->
            {Answered(c, Plain("failure"))} \cup
            (IF card # NoCard /\ card = c.selected /\ c.authed
                THEN {Answered(c, frame) : frame \in Outcomes(c.cmd)}
                ELSE {})
      [] OTHER -> {}
=============================================================================
