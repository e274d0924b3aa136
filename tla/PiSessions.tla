----------------------------- MODULE PiSessions -----------------------------
(***************************************************************************)
(* The Raspberry Pi's two ways to take the robot (main/pi/pi_link.cc and   *)
(* main/pi/rl_link.cc): the ROS bridge's slave mode and a policy's session.*)
(*                                                                         *)
(* Two tasks share one UART's worth of state.  The link task parses bytes, *)
(* answers requests and runs the bridge's state machine; the tick task     *)
(* begins, drives and ends the policy's sessions.  s_mux makes some of     *)
(* their sections atomic; s_session, s_ready, s_master and s_host are read *)
(* outside it.  A section under s_mux, or a read or store outside it, is a *)
(* step.  What begin() and end() do to the gait is MotionCore's subject:   *)
(* here they are their stores to s_master and s_host.                      *)
(***************************************************************************)
EXTENDS Naturals

CONSTANT PinLowSamples   \* PIN_LOW_SAMPLES: loops of a low HOST_PRESENT line

ASSUME PinAssumption == PinLowSamples \in Nat \ {0}

VARIABLES
  state,     \* pi_link's state
  hb,        \* the last heartbeat: "stale", or what it asked for
  low,       \* s_pin_low_count, up to PinLowSamples
  lp, req,   \* where the link task is, and the RL frame it is handling
  master,    \* robot.cc's s_master
  host,      \* robot.cc's s_host
  want,      \* s_want: an RL frame came since the last session ended
  session,   \* s_session
  robot,     \* s_robot: host::begin() succeeded
  ready,     \* s_ready: ours, and the boards have answered
  syncs,     \* s_syncs, up to 2
  armed, hold, fault,  \* s_ctl.armed, .hold, and a latched fault
  quiet,     \* no RL frame for RELEASE_US
  silent,    \* no SET_ALL for WDOG_US
  tp, driven \* where the tick task is, and whether its frame drives a servo

linkVars == <<state, hb, low, lp, req>>
ctlVars  == <<armed, hold, fault>>
tickVars == <<session, robot, ready, syncs, tp, driven>>
vars == <<state, hb, low, lp, req, master, host, want, session, robot, ready,
          syncs, armed, hold, fault, quiet, silent, tp, driven>>

Requests == {"ping", "idle", "config"}
Arms     == {"arm", "clear_arm"}          \* SA_ARM without SA_DISARM
Disarms  == {"disarm", "clear_disarm"}
Clears   == {"clear", "clear_arm", "clear_disarm"}
SetAlls  == Arms \cup Disarms \cup Clears \cup {"plain"}

BeginPlaces == {"bg_test", "bg_fence", "bg_raise", "bg_ok", "bg_refused"}
LivePlaces  == {"wait", "sync", "guard"}
EndPlaces   == {"en_host", "en_fence", "en_done"}

\* Every variable is in its type.
TypeOK ==
  /\ state \in {"standalone", "monitor", "slave"}
  /\ hb \in {"stale", "idle", "want"}
  /\ low \in 0..PinLowSamples
  /\ lp \in {"ros", "rl", "exec", "arm_wait", "apply", "wait", "update",
             "us_want", "us_session", "us_begin", "us_end"}
  /\ req \in Requests \cup SetAlls
  /\ master \in BOOLEAN /\ host \in BOOLEAN /\ want \in BOOLEAN
  /\ session \in BOOLEAN /\ robot \in BOOLEAN /\ ready \in BOOLEAN
  /\ syncs \in 0..2
  /\ armed \in BOOLEAN /\ hold \in BOOLEAN /\ fault \in BOOLEAN
  /\ quiet \in BOOLEAN /\ silent \in BOOLEAN
  /\ tp \in BeginPlaces \cup LivePlaces \cup EndPlaces
  /\ driven \in BOOLEAN

Init ==
  /\ state = "standalone" /\ hb = "stale" /\ low = PinLowSamples
  /\ lp = "ros" /\ req = "ping"
  /\ master = FALSE /\ host = FALSE /\ want = FALSE
  /\ session = FALSE /\ robot = FALSE /\ ready = FALSE /\ syncs = 0
  /\ armed = FALSE /\ hold = TRUE /\ fault = FALSE
  /\ quiet = TRUE /\ silent = TRUE
  /\ tp = "wait" /\ driven = FALSE

-----------------------------------------------------------------------------
(* The link task's loop: the ROS bytes of a read, then the same bytes for  *)
(* rl_link, frame by frame, then update_state().                           *)

LinkAt(from, to) == lp = from /\ lp' = to

\* pi_link's parser: a heartbeat, or nothing that decides who is in control.
RosBytes ==
  /\ LinkAt("ros", "rl")
  /\ hb' \in {hb, "idle", "want"}
  /\ UNCHANGED <<state, low, req, master, host, want, ctlVars, quiet, silent,
                 tickVars>>

RosHolds == master /\ ~host

\* No more RL frames, but for what the bridge's session makes us ignore or
\* rx_process() takes for the bridge's audio or video.
NoRlFrame ==
  /\ LinkAt("rl", "update")
  /\ UNCHANGED <<state, hb, low, req, master, host, want, ctlVars, quiet,
                 silent, tickVars>>

\* note_frame()
RlFrame ==
  /\ LinkAt("rl", "exec") /\ ~RosHolds
  /\ req' \in Requests \cup SetAlls
  /\ want' = TRUE /\ quiet' = FALSE
  /\ UNCHANGED <<state, hb, low, master, host, ctlVars, silent, tickVars>>

\* exec_req(): IDLE disarms before anything else; whatever else a request does
\* is between it and the boards.
ExecRequest ==
  /\ LinkAt("exec", "wait") /\ req \in Requests
  /\ IF req = "idle" THEN armed' = FALSE /\ hold' = FALSE
                     ELSE UNCHANGED <<armed, hold>>
  /\ UNCHANGED <<state, hb, low, req, master, host, want, fault, quiet, silent,
                 tickVars>>

\* wait_robot(): until s_ready, or for SESSION_WAIT_US.
WaitRobot ==
  /\ \/ LinkAt("wait", "rl")
     \/ LinkAt("arm_wait", "apply")
  /\ UNCHANGED <<state, hb, low, req, master, host, want, ctlVars, quiet,
                 silent, tickVars>>

HandleSetAll ==
  /\ lp = "exec" /\ req \in SetAlls
  /\ lp' = (IF req \in Arms THEN "arm_wait" ELSE "apply")
  /\ UNCHANGED <<state, hb, low, req, master, host, want, ctlVars, quiet,
                 silent, tickVars>>

\* handle_set_all(), under s_mux: what wait_robot() said is asked again.
Apply ==
  /\ LinkAt("apply", "rl")
  /\ silent' = FALSE
  /\ LET latched == fault /\ req \notin Clears
         granted == req \in Arms /\ ~latched /\ ready
     IN  /\ fault' = latched
         /\ armed' = ((armed \/ granted) /\ req \notin Disarms)
         /\ hold'  = (hold /\ ~granted /\ req \notin Disarms)
  /\ UNCHANGED <<state, hb, low, req, master, host, want, quiet, tickVars>>

\* update_state()'s reading of the heartbeat and of HOST_PRESENT, at counter n.
\* Entering needs the line high; staying, that it was not low for too long.
PinOk(n) == IF state = "slave" THEN n < PinLowSamples ELSE n = 0
WantsSlave(n) == hb = "want" /\ PinOk(n)

\* update_state(), up to its call of session_active() or of exit_slave(), after
\* its counter became n.
UpdateTo(n) ==
  /\ lp = "update"
  /\ low' = n
  /\ IF WantsSlave(n)
     THEN /\ lp' = (IF state = "slave" THEN "ros" ELSE "us_want")
          /\ UNCHANGED state
     ELSE /\ lp' = (IF state = "slave" THEN "us_end" ELSE "ros")
          /\ state' = (IF hb = "stale" THEN "standalone" ELSE "monitor")
  /\ UNCHANGED <<hb, req, master, host, want, ctlVars, quiet, silent, tickVars>>

\* The line is high, or low once more.
Update ==
  \E n \in {0, IF low < PinLowSamples THEN low + 1 ELSE low} : UpdateTo(n)

\* Mutant: session_active() asks for the session only.
ReadWant_SessionOnly ==
  /\ LinkAt("us_want", "us_session")
  /\ UNCHANGED <<state, hb, low, req, master, host, want, ctlVars, quiet,
                 silent, tickVars>>

\* session_active() reads s_want, and then ...
ReadWant ==
  /\ lp = "us_want"
  /\ lp' = (IF want THEN "ros" ELSE "us_session")
  /\ state' = (IF want THEN "monitor" ELSE state)
  /\ UNCHANGED <<hb, low, req, master, host, want, ctlVars, quiet, silent,
                 tickVars>>

\* ... s_session.
ReadSession ==
  /\ lp = "us_session"
  /\ lp' = (IF session THEN "ros" ELSE "us_begin")
  /\ state' = (IF session THEN "monitor" ELSE "slave")
  /\ UNCHANGED <<hb, low, req, master, host, want, ctlVars, quiet, silent,
                 tickVars>>

\* enter_slave(): master::begin() raises the fence.
EnterSlave ==
  /\ LinkAt("us_begin", "ros")
  /\ master' = TRUE
  /\ UNCHANGED <<state, hb, low, req, host, want, ctlVars, quiet, silent,
                 tickVars>>

\* Mutant: the robot is not handed back.
ExitSlave_Keeps ==
  /\ LinkAt("us_end", "ros")
  /\ UNCHANGED <<state, hb, low, req, master, host, want, ctlVars, quiet,
                 silent, tickVars>>

\* exit_slave(): master::end() lowers it.
ExitSlave ==
  /\ LinkAt("us_end", "ros")
  /\ master' = FALSE
  /\ UNCHANGED <<state, hb, low, req, host, want, ctlVars, quiet, silent,
                 tickVars>>

LinkStep ==
  \/ RosBytes \/ NoRlFrame \/ RlFrame \/ ExecRequest \/ WaitRobot
  \/ HandleSetAll \/ Apply \/ Update \/ ReadWant \/ ReadSession
  \/ EnterSlave \/ ExitSlave

-----------------------------------------------------------------------------
(* The tick task.  Between sessions a tick reads s_want; in one it ends the *)
(* session, or drives the boards.                                           *)

TickAt(from, to) == tp = from /\ tp' = to

TickWants ==
  /\ TickAt("wait", "bg_test") /\ ~session /\ want
  /\ UNCHANGED <<linkVars, master, host, want, ctlVars, quiet, silent, session,
                 robot, ready, syncs, driven>>

\* host::begin()'s two tests, ...
BeginTest ==
  /\ tp = "bg_test"
  /\ tp' = (IF host THEN "bg_ok" ELSE IF master THEN "bg_refused"
            ELSE "bg_fence")
  /\ UNCHANGED <<linkVars, master, host, want, ctlVars, quiet, silent, session,
                 robot, ready, syncs, driven>>

\* ... and its two stores.
BeginFence ==
  /\ TickAt("bg_fence", "bg_raise")
  /\ master' = TRUE
  /\ UNCHANGED <<linkVars, host, want, ctlVars, quiet, silent, session, robot,
                 ready, syncs, driven>>

BeginRaise ==
  /\ TickAt("bg_raise", "bg_ok")
  /\ host' = TRUE
  /\ UNCHANGED <<linkVars, master, want, ctlVars, quiet, silent, session, robot,
                 ready, syncs, driven>>

\* Mutant: the session's state is reset as it begins, not as the last one ended.
BeginDone_Resets ==
  /\ tp \in {"bg_ok", "bg_refused"} /\ tp' = "wait"
  /\ syncs' = 0 /\ ready' = FALSE /\ robot' = (tp = "bg_ok") /\ session' = TRUE
  /\ armed' = FALSE /\ hold' = TRUE /\ fault' = FALSE
  /\ UNCHANGED <<linkVars, master, host, want, quiet, silent, driven>>

\* The rest of begin_session().
BeginDone ==
  /\ tp \in {"bg_ok", "bg_refused"} /\ tp' = "wait"
  /\ syncs' = 0 /\ ready' = FALSE /\ robot' = (tp = "bg_ok") /\ session' = TRUE
  /\ UNCHANGED <<linkVars, master, host, want, ctlVars, quiet, silent, driven>>

\* end_session()'s section under s_mux.
EndWith(w, r) ==
  /\ tp = "wait" /\ session /\ quiet
  /\ want' = w /\ ready' = r
  /\ armed' = FALSE /\ hold' = TRUE /\ fault' = FALSE
  /\ tp' = (IF robot THEN "en_host" ELSE "en_done")
  /\ UNCHANGED <<linkVars, master, host, quiet, silent, session, robot, syncs,
                 driven>>

\* Mutants: s_want survives the session; s_ready survives the section.
EndDecide_KeepsWant  == EndWith(want, FALSE)
EndDecide_KeepsReady == EndWith(FALSE, ready)

EndDecide == EndWith(FALSE, FALSE)

\* Mutant: the fence goes down first, and leaves s_host up.
EndHost_FenceFirst ==
  /\ TickAt("en_host", "en_fence")
  /\ master' = FALSE
  /\ UNCHANGED <<linkVars, host, want, ctlVars, quiet, silent, session, robot,
                 ready, syncs, driven>>

\* host::end()'s stores: s_host, and then the fence.
EndHost ==
  /\ TickAt("en_host", "en_fence")
  /\ host' = FALSE
  /\ UNCHANGED <<linkVars, master, want, ctlVars, quiet, silent, session, robot,
                 ready, syncs, driven>>

EndFence ==
  /\ TickAt("en_fence", "en_done")
  /\ master' = FALSE
  /\ UNCHANGED <<linkVars, host, want, ctlVars, quiet, silent, session, robot,
                 ready, syncs, driven>>

\* Mutant: s_want is cleared here and not under s_mux.
EndDone_ForgetsWant ==
  /\ TickAt("en_done", "wait")
  /\ robot' = FALSE /\ session' = FALSE /\ want' = FALSE
  /\ UNCHANGED <<linkVars, master, host, ctlVars, quiet, silent, ready, syncs,
                 driven>>

EndDone ==
  /\ TickAt("en_done", "wait")
  /\ robot' = FALSE /\ session' = FALSE
  /\ UNCHANGED <<linkVars, master, host, want, ctlVars, quiet, silent, ready,
                 syncs, driven>>

\* The watchdog, and the command that this tick will send: an armed one drives
\* the servos it enables, if any.
SnapshotIf(expired) ==
  /\ TickAt("wait", "sync") /\ session /\ ~quiet
  /\ armed' = (armed /\ ~expired)
  /\ hold' = (hold /\ ~expired)
  /\ driven' \in {FALSE, armed'}
  /\ UNCHANGED <<linkVars, master, host, want, fault, quiet, silent, session,
                 robot, ready, syncs>>

\* Mutant: no watchdog.
TickSnapshot_NoWatchdog == SnapshotIf(FALSE)

TickSnapshot == SnapshotIf(armed /\ silent)

\* The exchange with the boards; the second answers the first.
Sync ==
  /\ TickAt("sync", "guard")
  /\ IF robot /\ ~ready
     THEN syncs' = syncs + 1 /\ ready' = ~(syncs' < 2)
     ELSE UNCHANGED <<syncs, ready>>
  /\ UNCHANGED <<linkVars, master, host, want, ctlVars, quiet, silent, session,
                 robot, driven>>

\* The guard trips on a servo of this tick's frame, and disarms if a frame has
\* not done so since.
Guard ==
  /\ TickAt("guard", "wait")
  /\ \/ UNCHANGED ctlVars
     \/ driven /\ armed /\ armed' = FALSE /\ hold' = FALSE /\ fault' = TRUE
  /\ UNCHANGED <<linkVars, master, host, want, quiet, silent, session, robot,
                 ready, syncs, driven>>

TickStep ==
  \/ TickWants \/ BeginTest \/ BeginFence \/ BeginRaise \/ BeginDone
  \/ EndDecide \/ EndHost \/ EndFence \/ EndDone
  \/ TickSnapshot \/ Sync \/ Guard

-----------------------------------------------------------------------------
(* Time: the heartbeat's timeout, APP_RL_RELEASE_MS and APP_RL_WATCHDOG_MS, *)
(* set apart from each other.                                               *)

HbExpires ==
  /\ hb' = "stale"
  /\ UNCHANGED <<state, low, lp, req, master, host, want, ctlVars, quiet,
                 silent, tickVars>>

FramesStop ==
  /\ quiet' = TRUE
  /\ UNCHANGED <<linkVars, master, host, want, ctlVars, silent, tickVars>>

SetAllsStop ==
  /\ silent' = TRUE
  /\ UNCHANGED <<linkVars, master, host, want, ctlVars, quiet, tickVars>>

Next == LinkStep \/ TickStep \/ HbExpires \/ FramesStop \/ SetAllsStop

Spec == Init /\ [][Next]_vars

\* Both tasks run: the link task's reads time out, the tick's timer never stops.
FairSpec == Spec /\ WF_vars(LinkStep) /\ WF_vars(TickStep)

-----------------------------------------------------------------------------
(* Properties.                                                             *)

\* The policy has the robot, from the fence host::begin() raised to the one
\* host::end() lowers.
PolicyHolds ==
  \/ tp \in {"bg_raise", "bg_ok"}
  \/ session /\ robot /\ tp # "en_done"

\* The bridge has the robot, or is about to raise or lower its fence.
BridgeHolds == state = "slave" \/ lp = "us_end"

\* rl_link.cc:17-24: the bridge and a policy never both own the robot, though
\* each only tests the other's flags before it sets its own; and the fence is
\* up exactly while one of them owns it.
OneHolder ==
  /\ BridgeHolds => ~want /\ ~session /\ tp = "wait"
  /\ master <=> (BridgeHolds /\ lp # "us_begin") \/ PolicyHolds

\* Who has the robot, as the two flags and the two tasks' places say it.
ControlOf ==
  IF ~master THEN "nobody"
  ELSE IF BridgeHolds THEN "bridge"
  ELSE IF host THEN "policy"
  ELSE IF tp = "bg_raise" THEN "coming" ELSE "going"

Control == INSTANCE PiControl WITH control <- ControlOf

\* The two tasks, with their tests of each other's flags and nothing that makes
\* the pair of a test and a store atomic, still take the robot in turns: what
\* MotionCore takes for granted of robot::master's and robot::host's callers
\* (robot.h, "Bus Master", "Raw host"; rl_link.cc:17-24).
OneControlPoint == Control!Spec

\* host::begin() is never refused: the branch of begin_session() for a bridge
\* that "took it between frame and tick" is one no interleaving reaches, and a
\* session is never without the robot.
SessionHasRobot == session => robot

\* "a session that is ending accepts no ARM" (rl_link.cc:33), and one that has
\* not heard from the boards: armed is only ever true in the middle of a
\* session that holds the robot, and never together with the initial hold.
ArmedIsOurs ==
  armed => /\ ready /\ ~hold
           /\ session /\ robot /\ host /\ tp \in LivePlaces

\* Once anything ended the hold, disarmed means limp until the session ends:
\* only end_session() holds the servos again (rl_link.cc:36-40).
HoldReturnsOnlyAtEnd ==
  [][~hold /\ hold' => tp = "wait" /\ tp' \in EndPlaces]_vars

\* RL_LINK.md:70: "Faults latch until a SET_ALL with CLEAR".  The code forgets
\* them too when a session ends: a policy that pauses for APP_RL_RELEASE_MS may
\* arm again without a CLEAR.
FaultsLatch ==
  [][fault /\ ~fault' => lp = "apply" /\ req \in Clears]_vars

\* A policy whose SET_ALL frames stop is disarmed, whatever else it sends.
PolicySilenceDisarms == <>[]silent => <>[]~armed

\* When the policy is silent and the bridge does not ask, the robot is back
\* with the gait and its local owners.
RobotComesBack == <>[]quiet /\ <>[](hb # "want") => <>[]~master

\* A frame is never lost to a session that is closing: as long as frames
\* come, it gets a session that answers for the boards.
FrameGetsSession == want ~> (ready \/ quiet)

\* A bridge that keeps asking, with its wire high, gets the robot once the
\* policy is silent.
BridgeArrives ==
  <>[](hb = "want" /\ quiet /\ low = 0) => <>[](state = "slave" /\ master)

=============================================================================
