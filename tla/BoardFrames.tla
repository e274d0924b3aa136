---------------------------- MODULE BoardFrames ----------------------------
(***************************************************************************)
(* The AT32 boards as the rest of the firmware sees them through           *)
(* robot/driver_board.c: what the next transaction with a board will read  *)
(* and whether the board leaves its servos limp.  DriverBoard uses its     *)
(* replies, and ServoPower its frames.                                     *)
(*                                                                         *)
(* A board clocks out, in each transaction, the reply it built after the   *)
(* one before.  Its config reply shares the buffer of its feedback: it     *)
(* stays there until the next servo frame, and that frame's own reply      *)
(* still carries the parameter in its first channel (the "echo").          *)
(***************************************************************************)
EXTENDS Naturals

CONSTANT Boards

VARIABLES plugged,   \* boards that are there and powered
          tx,        \* what the next transaction clocks out
          limp       \* boards whose servos are not all held

bvars == <<plugged, tx, limp>>

Replies == {"junk", "servo", "echo", "config"}
Feedback == {"servo", "echo"}      \* start FEED, status not C0DE

FramesInit == /\ plugged \in SUBSET Boards
              /\ tx = [b \in Boards |-> "junk"]
              /\ limp = Boards

\* An absent board reads all ones, one just powered has built nothing.
Reads == [b \in Boards |-> IF b \in plugged THEN tx[b] ELSE "junk"]

AfterFrame(r) == IF r = "config" THEN "echo" ELSE "servo"
AfterOne == [b \in Boards |-> AfterFrame(tx[b])]
AfterTwo == [b \in Boards |-> AfterFrame(AfterFrame(tx[b]))]

\* Servo frames to the boards of S, a second one to those of again; L are the
\* boards they leave limp.
SendFrames(S, again, L) ==
    /\ tx' = [b \in Boards |-> IF b \notin S \cap plugged THEN tx[b]
                               ELSE IF b \in again THEN AfterTwo[b] ELSE AfterOne[b]]
    /\ limp' = (limp \ (S \cap plugged)) \cup (L \cap S \cap plugged)
    /\ UNCHANGED plugged

\* A config request the board has answered: its reply waits.
TakeConfig(b) == /\ b \in plugged
                 /\ tx' = [tx EXCEPT ![b] = "config"]
                 /\ UNCHANGED <<plugged, limp>>
=============================================================================
