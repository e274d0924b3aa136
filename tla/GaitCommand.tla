----------------------------- MODULE GaitCommand -----------------------------
(***************************************************************************)
(* s_gait_cmd: one volatile word that callers overwrite and the gait task  *)
(* plays (main/robot/robot.cc, moves_mpe.inc).                             *)
(*                                                                         *)
(* A move ends in one of three ways: it runs until the word changes, it    *)
(* clears the word, or it clears the word if it is still its own.  The     *)
(* test and the clearing are two steps; so are a local caller's look at    *)
(* the Pi's fence and its store.                                           *)
(***************************************************************************)
CONSTANTS
  Holds,      \* Step, Advance, the looks, BodyAttitude, FootTargets...: until
              \* the word changes
  OneShots,   \* Init, Roll, Stretch, JumpFwd, BowBack...: clear the word
  Finishers,  \* Jump, LongJump, CharShow, HipTest, the presets: finish(cmd)
  Walk,       \* StanfordWalk: until the word changes; velocity from the pads,
              \* the Pi, or straight ahead
  Look,       \* LookPad: glides to the pad's angle and back, then finish(cmd)
  None,
  Callers     \* the tasks that make local requests

Moves    == Holds \cup OneShots \cup Finishers \cup {Walk, Look}
Commands == Moves \cup {None}

ASSUME MovesAssumption ==
  /\ Walk # Look /\ None \notin Moves
  /\ {Walk, Look} \cap (Holds \cup OneShots \cup Finishers) = {}
  /\ Holds \cap OneShots = {} /\ Holds \cap Finishers = {}
  /\ OneShots \cap Finishers = {}

VARIABLES
  cmd,        \* s_gait_cmd
  master,     \* s_master
  pi,         \* "away", "clear" (begin() has raised the fence), "ros",
              \* "unfence" (end() has cleared the word)
  gait,       \* where the gait task is
  cur,        \* the move it plays
  pc, arg,    \* where each local caller is, and what it asks for
  pads,       \* s_js_f, s_js_s, s_js_t: "off-centre", "centred" or "stale"
  active,     \* s_js_active: the joystick started the walk
  piVel,      \* the Pi's velocity: fresh, or older than PI_VEL_TIMEOUT_MS
  look,       \* s_look_cmd_*: off centre
  angle,      \* s_look_yaw, s_look_pitch: off centre
  vel,        \* the velocity of the last walk tick, and where it came from
  last,       \* history: what the last request to be stored asked for
  unseen,     \* history: a request has landed since the gait task last looked
  lost,       \* history: the last request was cleared without being played
  startedBy   \* history: who turned the word into Walk, "pad" or "button"

vars == <<cmd, master, pi, gait, cur, pc, arg, pads, active, piVel, look,
          angle, vel, last, unseen, lost, startedBy>>

TypeOK ==
  /\ cmd \in Commands /\ cur \in Commands /\ last \in Commands
  /\ master \in BOOLEAN
  /\ pi \in {"away", "clear", "ros", "unfence"}
  /\ gait \in {"top", "play", "clear", "fin_test", "fin_clear", "leave"}
  /\ pc \in [Callers -> {"idle", "send", "joy_test", "joy_store",
                         "joy_values", "look_store"}]
  /\ arg \in [Callers -> Commands \cup {"off-centre", "centred"}]
  /\ pads \in {"off-centre", "centred", "stale"}
  /\ {active, piVel, look, angle, unseen, lost} \subseteq BOOLEAN
  /\ vel \in {"none", "pi", "pads", "in-place", "forward"}
  /\ startedBy \in {"pad", "button"}

Init ==
  /\ cmd = None /\ master = FALSE /\ pi = "away"
  /\ gait = "top" /\ cur = None
  /\ pc = [c \in Callers |-> "idle"] /\ arg = [c \in Callers |-> None]
  /\ pads = "stale" /\ active = FALSE /\ piVel = FALSE
  /\ look = FALSE /\ angle = FALSE /\ vel = "none"
  /\ last = None /\ unseen = FALSE /\ lost = FALSE /\ startedBy = "button"

-----------------------------------------------------------------------------
(* The gait task.  Its look at the word is in each guard that mentions     *)
(* cmd.                                                                    *)

GaitVars   == <<gait, cur, angle, vel>>
CallVars   == <<pc, arg, pads, look, startedBy>>
PiVars     == <<master, pi, piVel>>

Looked == unseen' = FALSE
Kept   == UNCHANGED <<cmd, last, lost>>

\* The gait task stores None.
ClearWord ==
  /\ cmd' = None
  /\ lost' = (lost \/ (cmd \notin {cur, None}))
  /\ UNCHANGED last

\* The top of the loop: stand, or start a move.
Dispatch ==
  /\ gait = "top"
  /\ cur' = cmd
  /\ gait' = (IF cmd = None THEN "top" ELSE "play")
  /\ Looked /\ Kept
  /\ UNCHANGED <<angle, vel, active, CallVars, PiVars>>

\* Mutant: a held move ends at a stop only.
HoldEnds_AtStop ==
  /\ gait = "play" /\ cur \in Holds /\ cmd = None
  /\ gait' = "top"
  /\ Looked /\ Kept
  /\ UNCHANGED <<cur, angle, vel, active, CallVars, PiVars>>

\* Step, Advance, BodyAttitude and the like; also a turn of their loop that
\* finds the word unchanged is a stutter.
HoldEnds ==
  /\ gait = "play" /\ cur \in Holds /\ cmd # cur
  /\ gait' = "top"
  /\ Looked /\ Kept
  /\ UNCHANGED <<cur, angle, vel, active, CallVars, PiVars>>

\* Mutant: the Pi's velocity does not expire.
WalkTick_NoExpiry ==
  /\ gait = "play" /\ cur = Walk /\ cmd = cur
  /\ vel' = (IF master THEN "pi"
             ELSE IF pads # "stale" THEN "pads"
             ELSE IF active THEN "in-place" ELSE "forward")
  /\ Looked /\ Kept
  /\ UNCHANGED <<gait, cur, angle, active, CallVars, PiVars>>

\* One tick of the walk: whose velocity, and how old.
WalkTick ==
  /\ gait = "play" /\ cur = Walk /\ cmd = cur
  /\ vel' = (IF master THEN IF piVel THEN "pi" ELSE "in-place"
             ELSE IF pads # "stale" THEN "pads"
             ELSE IF active THEN "in-place" ELSE "forward")
  /\ Looked /\ Kept
  /\ UNCHANGED <<gait, cur, angle, active, CallVars, PiVars>>

WalkLeaves ==
  /\ gait = "play" /\ cur = Walk /\ cmd # cur
  /\ gait' = "leave"
  /\ Looked /\ Kept
  /\ UNCHANGED <<cur, angle, vel, active, CallVars, PiVars>>

\* s_js_active and the executed velocity are reset; then the park.
WalkParks ==
  /\ gait = "leave"
  /\ active' = FALSE /\ vel' = "none"
  /\ gait' = "top"
  /\ Kept
  /\ UNCHANGED <<cur, angle, unseen, CallVars, PiVars>>

\* A one-shot has played to its end (Init and TestSpeed never look).
OneShotEnds ==
  /\ gait = "play" /\ cur \in OneShots
  /\ gait' = "clear"
  /\ Kept
  /\ UNCHANGED <<cur, angle, vel, active, unseen, CallVars, PiVars>>

\* A one-shot breaks off for another command, on its way to the same reset.
OneShotBreaks ==
  /\ gait = "play" /\ cur \in OneShots /\ cmd # cur
  /\ gait' = "clear"
  /\ Looked /\ Kept
  /\ UNCHANGED <<cur, angle, vel, active, CallVars, PiVars>>

\* JumpFwd and BowBack between two phases.
OneShotYields ==
  /\ gait = "play" /\ cur \in OneShots /\ cmd # cur
  /\ gait' = "top"
  /\ Looked /\ Kept
  /\ UNCHANGED <<cur, angle, vel, active, CallVars, PiVars>>

OneShotClears ==
  /\ gait = "clear"
  /\ ClearWord
  /\ gait' = "top"
  /\ UNCHANGED <<cur, angle, vel, active, unseen, CallVars, PiVars>>

FinisherEnds ==
  /\ gait = "play" /\ cur \in Finishers
  /\ gait' = "fin_test"
  /\ Kept
  /\ UNCHANGED <<cur, angle, vel, active, unseen, CallVars, PiVars>>

\* Mutant: the glide follows the pad though another move was commanded.
LookTick_Deaf ==
  /\ gait = "play" /\ cur = Look
  /\ angle' \in {angle, look}
  /\ gait' = (IF ~angle' /\ ~look THEN "fin_test" ELSE "play")
  /\ Looked /\ Kept
  /\ UNCHANGED <<cur, vel, active, CallVars, PiVars>>

\* Mutant: another command ends the move before the glide home has.
LookTick_Abrupt ==
  LET target == cmd = cur /\ look IN
  /\ gait = "play" /\ cur = Look
  /\ angle' \in {angle, target}
  /\ gait' = (IF ~target /\ (cmd # cur \/ ~angle') THEN "fin_test" ELSE "play")
  /\ Looked /\ Kept
  /\ UNCHANGED <<cur, vel, active, CallVars, PiVars>>

\* lookpad_run(): one tick of the glide toward the pad, or home.
LookTick ==
  LET target == cmd = cur /\ look IN
  /\ gait = "play" /\ cur = Look
  /\ angle' \in {angle, target}
  /\ gait' = (IF ~angle' /\ ~target THEN "fin_test" ELSE "play")
  /\ Looked /\ Kept
  /\ UNCHANGED <<cur, vel, active, CallVars, PiVars>>

\* Mutant: finish() does not ask whose command it clears.
FinishTest_Blind ==
  /\ gait = "fin_test"
  /\ gait' = "fin_clear"
  /\ Looked /\ Kept
  /\ UNCHANGED <<cur, angle, vel, active, CallVars, PiVars>>

\* finish(cmd)
FinishTest ==
  /\ gait = "fin_test"
  /\ gait' = (IF cmd = cur THEN "fin_clear" ELSE "top")
  /\ Looked /\ Kept
  /\ UNCHANGED <<cur, angle, vel, active, CallVars, PiVars>>

FinishClears ==
  /\ gait = "fin_clear"
  /\ ClearWord
  /\ gait' = "top"
  /\ UNCHANGED <<cur, angle, vel, active, unseen, CallVars, PiVars>>

-----------------------------------------------------------------------------
(* Requests.                                                               *)

\* A store to s_gait_cmd by anyone but the gait task.
Request(c) ==
  /\ cmd' = c /\ last' = c
  /\ unseen' = TRUE /\ lost' = FALSE

\* A local entry point looks at the fence.
Call(c, place, a) ==
  /\ pc[c] = "idle"
  /\ pc'  = [pc EXCEPT ![c] = IF master THEN "idle" ELSE place]
  /\ arg' = [arg EXCEPT ![c] = a]

LocalCall(c) ==
  /\ \/ \E m \in Commands \ {Look} : Call(c, "send", m)
     \/ \E p \in {"off-centre", "centred"} : Call(c, "joy_test", p)
     \/ Call(c, "look_store", Look)
  /\ UNCHANGED <<cmd, last, unseen, lost, active, pads, look, startedBy,
                 GaitVars, PiVars>>

\* send_gait_cmd(); set_body_attitude() and hiptest_start() do the same.
SendStore(c) ==
  /\ pc[c] = "send"
  /\ Request(arg[c])
  /\ startedBy' = (IF arg[c] = Walk /\ cmd # Walk THEN "button" ELSE startedBy)
  /\ pc' = [pc EXCEPT ![c] = "idle"]
  /\ UNCHANGED <<arg, active, pads, look, GaitVars, PiVars>>

\* joy_input(): a deflected pad starts the walk.
JoyTest(c) ==
  /\ pc[c] = "joy_test"
  /\ IF arg[c] = "off-centre" /\ cmd # Walk
       THEN active' = TRUE /\ pc' = [pc EXCEPT ![c] = "joy_store"]
       ELSE active' = active /\ pc' = [pc EXCEPT ![c] = "joy_values"]
  /\ UNCHANGED <<cmd, last, unseen, lost, arg, pads, look, startedBy, GaitVars,
                 PiVars>>

JoyStore(c) ==
  /\ pc[c] = "joy_store"
  /\ Request(Walk)
  /\ startedBy' = "pad"
  /\ pc' = [pc EXCEPT ![c] = "joy_values"]
  /\ UNCHANGED <<arg, active, pads, look, GaitVars, PiVars>>

\* s_js_active once more, the stick and its time.
JoyValues(c) ==
  /\ pc[c] = "joy_values"
  /\ pads' = arg[c]
  /\ IF arg[c] = "off-centre"
       THEN active' = TRUE /\ startedBy' = "pad"
       ELSE UNCHANGED <<active, startedBy>>
  /\ pc' = [pc EXCEPT ![c] = "idle"]
  /\ UNCHANGED <<cmd, last, unseen, lost, arg, look, GaitVars, PiVars>>

\* look_input() off centre: the angle, then the word if it is another.
LookStore(c) ==
  /\ pc[c] = "look_store"
  /\ look' = TRUE
  /\ IF cmd # Look THEN Request(Look) ELSE UNCHANGED <<cmd, last, unseen, lost>>
  /\ pc' = [pc EXCEPT ![c] = "idle"]
  /\ UNCHANGED <<arg, active, pads, startedBy, GaitVars, PiVars>>

\* look_input() centred is not fenced.
LookCentre ==
  /\ look /\ look' = FALSE
  /\ UNCHANGED <<cmd, last, unseen, lost, pc, arg, active, pads, startedBy,
                 GaitVars, PiVars>>

\* JOY_TIMEOUT_MS without a pad.
PadsExpire ==
  /\ pads # "stale" /\ pads' = "stale"
  /\ UNCHANGED <<cmd, last, unseen, lost, pc, arg, active, look, startedBy,
                 GaitVars, PiVars>>

-----------------------------------------------------------------------------
(* The Pi's session.                                                       *)

MasterFence ==
  /\ pi = "away"
  /\ master' = TRUE /\ pi' = "clear"
  /\ UNCHANGED <<cmd, last, unseen, lost, active, piVel, CallVars, GaitVars>>

MasterClear ==
  /\ pi = "clear"
  /\ Request(None)
  /\ active' = FALSE /\ pads' = "stale" /\ piVel' = FALSE
  /\ pi' = "ros"
  /\ UNCHANGED <<master, pc, arg, look, startedBy, GaitVars>>

MasterSend ==
  /\ pi = "ros"
  /\ \E c \in Commands \ {Look} : Request(c)
  /\ UNCHANGED <<active, CallVars, GaitVars, PiVars>>

\* set_velocity(): a real one starts the walk, a zero is only stored.
MasterVelocity ==
  /\ pi = "ros"
  /\ piVel' = TRUE
  /\ \/ cmd # Walk /\ Request(Walk)
     \/ UNCHANGED <<cmd, last, unseen, lost>>
  /\ UNCHANGED <<master, pi, active, CallVars, GaitVars>>

PiVelExpires ==
  /\ piVel /\ piVel' = FALSE
  /\ UNCHANGED <<cmd, last, unseen, lost, master, pi, active, CallVars, GaitVars>>

MasterEnd ==
  /\ pi = "ros"
  /\ Request(None)
  /\ piVel' = FALSE /\ pi' = "unfence"
  /\ UNCHANGED <<master, active, CallVars, GaitVars>>

MasterUnfence ==
  /\ pi = "unfence"
  /\ master' = FALSE /\ pi' = "away"
  /\ UNCHANGED <<cmd, last, unseen, lost, active, piVel, CallVars, GaitVars>>

-----------------------------------------------------------------------------
GaitStep ==
  \/ Dispatch \/ HoldEnds \/ WalkTick \/ WalkLeaves \/ WalkParks
  \/ OneShotEnds \/ OneShotBreaks \/ OneShotYields \/ OneShotClears
  \/ FinisherEnds \/ LookTick \/ FinishTest \/ FinishClears

CallerStep(c) ==
  \/ SendStore(c) \/ JoyTest(c) \/ JoyStore(c) \/ JoyValues(c) \/ LookStore(c)

MasterStep ==
  \/ MasterFence \/ MasterClear \/ MasterSend \/ MasterVelocity
  \/ MasterEnd \/ MasterUnfence

Next == \/ GaitStep
        \/ \E c \in Callers : LocalCall(c) \/ CallerStep(c)
        \/ MasterStep
        \/ LookCentre \/ PadsExpire \/ PiVelExpires

Spec == Init /\ [][Next]_vars

\* The gait task runs on its own core, and every move has an end: a one-shot by
\* its clock, the look's glide by reaching its target.  A request that has begun
\* is stored.
FairSpec ==
  /\ Spec
  /\ WF_vars(GaitStep)
  /\ WF_vars(LookTick /\ <<angle, gait>>' # <<angle, gait>>)
  /\ \A c \in Callers : WF_vars(CallerStep(c))

-----------------------------------------------------------------------------
Playing(c) == gait = "play" /\ cur = c

\* "Glide back to the stand first - then the next move runs" (moves_mpe.inc): no
\* move starts with the head of a look or reports the velocity of a walk,
\* whatever command ended them.
NothingInherited ==
  /\ angle => Playing(Look)
  /\ vel # "none" => cur = Walk /\ gait \in {"play", "leave"}

\* finish(cmd) throws a command away only if it landed after finish() looked.
FinishersKeep ==
  [][gait = "fin_clear" /\ gait' # gait /\ cmd # cur => unseen]_vars

\* The last request for a move that holds is what the robot ends up doing,
\* whatever it was in the middle of, unless a move that ended cleared it.
LastIsServed ==
  \A c \in Holds \cup {Walk} : <>[](last = c /\ ~lost) => <>[]Playing(c)

\* After a stop that nothing follows (and the end of a Pi session is one) the
\* robot stands, however the pads were left.
StopStops == <>[](last = None) => <>[](gait = "top" /\ cur = None)

\* A Pi that falls silent leaves the robot walking in place at most
\* (robot.cc, PI_VEL_TIMEOUT_MS).
SilentPiSteps ==
  <>[](pi = "ros" /\ ~piVel) => <>[](vel \in {"in-place", "none"})

\* robot.h, send_gait_cmd(): the command overwrites the one before it and the
\* gait task picks it up on its next iteration.  Refuted: a one-shot breaks off
\* for the command, and clears it.
InterruptIsPlayed ==
  [][gait = "clear" /\ gait' # gait /\ cmd \notin {cur, None} => unseen]_vars

\* robot.cc, s_js_active: a walk steps in place on stale pads only when the
\* joystick started it.  Refuted: a pad's walk that is overwritten before the
\* gait task sees it leaves s_js_active for the next one.
InPlaceMeansPads ==
  [][vel' = "in-place" /\ vel # vel' /\ ~master => startedBy = "pad"]_vars
=============================================================================
