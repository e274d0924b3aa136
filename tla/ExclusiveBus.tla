---------------------------- MODULE ExclusiveBus ----------------------------
(***************************************************************************)
(* What the bus arbitration of main/robot promises (robot.h, "Servo bus    *)
(* ownership" and "Raw host"): the bus is granted to one party at a time,  *)
(* pose frames are written under the gait's grant only, and the grant      *)
(* moves on only when no frame is on its way.                              *)
(***************************************************************************)
CONSTANT Writers   \* the tasks that write pose frames

VARIABLES grant,   \* "gait", "local" (Studio or a skill) or "host"
          writing  \* the tasks with a frame on its way

Init == grant = "gait" /\ writing = {}

StartFrame(t) == /\ grant = "gait" /\ t \notin writing
                 /\ writing' = writing \cup {t}
                 /\ UNCHANGED grant

EndFrame(t) == /\ t \in writing
               /\ writing' = writing \ {t}
               /\ UNCHANGED grant

Regrant(party) == /\ writing = {}
                  /\ grant' = party
                  /\ UNCHANGED writing

Next == \/ \E t \in Writers : StartFrame(t) \/ EndFrame(t)
        \/ \E party \in {"gait", "local", "host"} : Regrant(party)

Spec == Init /\ [][Next]_<<grant, writing>>
=============================================================================
