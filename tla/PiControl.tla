----------------------------- MODULE PiControl -----------------------------
(***************************************************************************)
(* What main/pi promises main/robot about the Raspberry Pi ("Bus Master"   *)
(* and "Raw host" in robot.h, the head of rl_link.cc): the ROS bridge and  *)
(* a policy take the robot in turns.  Each waits until the other has given *)
(* it back, one that has it meets nobody's stores but its own, and the two *)
(* flags the rest of the robot tests say who it is.                        *)
(***************************************************************************)
VARIABLES master,  \* s_master
          host,    \* s_host
          control  \* who has the robot: "nobody", the "bridge" or the
                   \* "policy", which is "coming" between host::begin()'s two
                   \* stores and "going" between host::end()'s

vars == <<master, host, control>>

\* What the flags say of it: a bridge, or a policy on its way in or out, has
\* the fence up alone.
Shown(c) == /\ master' = (c # "nobody")
            /\ host' = (c = "policy")

Pass(from, to) == /\ control = from /\ control' = to
                  /\ Shown(to)

Init == control = "nobody" /\ master = FALSE /\ host = FALSE

BridgeTakes   == Pass("nobody", "bridge")
BridgeLeaves  == Pass("bridge", "nobody")
PolicyFences  == Pass("nobody", "coming")
PolicyTakes   == Pass("coming", "policy")
PolicyGives   == Pass("policy", "going")
PolicyLeaves  == Pass("going", "nobody")

Next == \/ BridgeTakes \/ BridgeLeaves
        \/ PolicyFences \/ PolicyTakes \/ PolicyGives \/ PolicyLeaves

Spec == Init /\ [][Next]_vars
=============================================================================
