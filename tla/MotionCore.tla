----------------------------- MODULE MotionCore -----------------------------
(***************************************************************************)
(* Who may move the legs (main/robot/robot.cc).                            *)
(*                                                                         *)
(* The servo bus has four users: the gait task, Servo Studio (the HTTP     *)
(* task), a WASM skill, and the raw host on the Raspberry Pi.  Two plain   *)
(* volatile words arbitrate between them, s_bus_owner and s_master, and    *)
(* nothing locks either: every entry point tests one, and writes the other *)
(* some instructions later.  Each test and each write is a step here.      *)
(*                                                                         *)
(* A task's place in an entry point is pc[t]; ret[t] is the place its      *)
(* caller continues from.  The Pi has one place, pi: rl_link.cc and        *)
(* pi_link.cc take the robot in turns (PiControl).                         *)
(***************************************************************************)
CONSTANTS Gait,      \* the gait task (robot.cc, core 1)
          Consoles,  \* tasks running HTTP handlers: Servo Studio, the sweep
          Skills     \* tasks running a WASM skill

Locals == Consoles \cup Skills
Tasks  == {Gait} \cup Locals

\* A task is one of the three.
ASSUME TasksAssumption == /\ Gait \notin Locals
                          /\ Consoles \cap Skills = {}

VARIABLES
  owner,     \* s_bus_owner
  master,    \* s_master: the fence every local entry point tests
  host,      \* s_host
  cmd,       \* s_gait_cmd: "none", or who asked for the motion it holds
  busy,      \* the tasks counted by s_flush_busy
  running,   \* wasm::is_running(): the skill whose code has not returned yet
  stop,      \* request_stop() was called for this run
  pi,        \* where robot::master::* / robot::host::* is
  pc, ret,   \* where each task is, and where its caller continues
  intruded,  \* history: a local write landed inside the present Pi session
  late       \* history: a fixed wait ended before the frame it waits for

vars == <<owner, master, host, cmd, busy, running, stop, pi, pc, ret,
          intruded, late>>

Owners == {"FREE", "STUDIO", "SKILL", "HOST"}
Flushing      == {"fl_fence", "fl_raise", "fl_test", "fl_frame"}
Commanding    == {"sg_fence", "sg_write"}
GaitPlaces    == {"idle", "fl_raise", "fl_test", "fl_frame"}
ConsolePlaces == {"idle", "on_fence", "on_test", "on_write", "settle",
                  "off_test", "off_write", "sw_flush", "sw_off"}
                 \cup Flushing \cup Commanding
SkillPlaces   == {"off", "run", "lk_fence", "lk_test", "lk_write", "settle",
                  "ul_test", "ul_write", "end_test", "end_unlock", "rel_test"}
                 \cup Flushing \cup Commanding
Places        == GaitPlaces \cup ConsolePlaces \cup SkillPlaces
Callers       == {"idle", "sw_flush", "sw_off", "run", "end_unlock", "rel_test",
                  "off"}
InPlace(f) == /\ f \in [Tasks -> Places]
              /\ f[Gait] \in GaitPlaces
              /\ \A t \in Consoles : f[t] \in ConsolePlaces
              /\ \A t \in Skills   : f[t] \in SkillPlaces
\* master::begin() and end() (rb_, ros, re_), host::begin() and end() (hb_,
\* host, he_): the write that comes next.
PiPlaces == {"away", "rb_bus", "rb_clear", "ros", "re_fence",
             "hb_host", "hb_clear", "hb_bus", "hb_wait", "host",
             "he_bus", "he_host", "he_fence"}

\* Every variable is in its type, and a task is only ever at a place of its own
\* code: a return never lands in another caller.
TypeOK ==
  /\ owner \in Owners
  /\ master \in BOOLEAN /\ host \in BOOLEAN
  /\ cmd \in {"none", "local", "master"}
  /\ busy \subseteq Tasks
  /\ running \subseteq Skills /\ stop \in BOOLEAN
  /\ pi \in PiPlaces
  /\ InPlace(pc) /\ InPlace(ret) /\ ret \in [Tasks -> Callers]
  /\ intruded \in BOOLEAN /\ late \in BOOLEAN

\* The tasks past flush()'s ownership test, about to write (or writing) the
\* twelve setpoints.
InFlight == {t \in Tasks : pc[t] = "fl_frame"}

Init ==
  /\ owner = "FREE" /\ master = FALSE /\ host = FALSE
  /\ cmd = "none" /\ busy = {}
  /\ running = {} /\ stop = FALSE
  /\ pi = "away"
  /\ pc  = [t \in Tasks |-> IF t \in Skills THEN "off" ELSE "idle"]
  /\ ret = [t \in Tasks |-> IF t \in Skills THEN "run" ELSE "idle"]
  /\ intruded = FALSE /\ late = FALSE

-----------------------------------------------------------------------------
(* Calls and returns.                                                      *)

Goto(t, place) == /\ pc' = [pc EXCEPT ![t] = place]
                  /\ UNCHANGED ret
Call(t, place, back) == /\ pc'  = [pc EXCEPT ![t] = place]
                        /\ ret' = [ret EXCEPT ![t] = back]
Return(t) == Goto(t, ret[t])

\* Everything but the program counters.
shared == <<owner, master, host, cmd, busy, running, stop, pi, intruded, late>>

\* A local task stores to s_bus_owner.
SetOwner(o) ==
  /\ owner' = o
  /\ intruded' = (intruded \/ master)
  /\ UNCHANGED <<master, host, cmd, busy, running, stop, pi, late>>

-----------------------------------------------------------------------------
(* set_studio_mode(true / false)                                           *)

StudioFence(t) ==
  /\ pc[t] = "on_fence"
  /\ IF master THEN Return(t) ELSE Goto(t, "on_test")
  /\ UNCHANGED shared

StudioTest(t) ==
  /\ pc[t] = "on_test"
  /\ IF owner = "STUDIO" THEN Return(t) ELSE Goto(t, "on_write")
  /\ UNCHANGED shared

\* Mutant: Studio does not wait for the gait's tick.
StudioWrite_NoSettle(t) ==
  /\ pc[t] = "on_write"
  /\ SetOwner("STUDIO")
  /\ Return(t)

\* The console outranks a skill.
StudioWrite(t) ==
  /\ pc[t] = "on_write"
  /\ SetOwner("STUDIO")
  /\ Goto(t, "settle")

\* "Let the gait task finish the tick it is in": 50 ms, both for Studio and
\* for servo_lock().
Settle(t) ==
  /\ pc[t] = "settle"
  /\ late' = (late \/ (owner # "FREE" /\ InFlight # {}))
  /\ Return(t)
  /\ UNCHANGED <<owner, master, host, cmd, busy, running, stop, pi, intruded>>

StudioOffTest(t) ==
  /\ pc[t] = "off_test"
  /\ IF owner # "STUDIO" THEN Return(t) ELSE Goto(t, "off_write")
  /\ UNCHANGED shared

StudioOffWrite(t) ==
  /\ pc[t] = "off_write"
  /\ SetOwner("FREE")
  /\ Return(t)

-----------------------------------------------------------------------------
(* servo_lock(), servo_unlock()                                            *)

\* Mutant: the end of a run tries again until the gains are back.
LockRefused_Retry(t) ==
  Goto(t, IF ret[t] = "end_unlock" THEN "end_test" ELSE ret[t])

\* servo_lock() returned false.  At the end of a run that only means that the
\* gains cannot be put back.
LockRefused(t) ==
  Goto(t, IF ret[t] = "end_unlock" THEN "rel_test" ELSE ret[t])

LockFence(t) ==
  /\ pc[t] = "lk_fence"
  /\ IF master THEN LockRefused(t) ELSE Goto(t, "lk_test")
  /\ UNCHANGED shared

LockTest(t) ==
  /\ pc[t] = "lk_test"
  /\ \/ owner = "SKILL"  /\ Return(t)
     \/ owner = "STUDIO" /\ LockRefused(t)
     \/ owner \in {"FREE", "HOST"} /\ Goto(t, "lk_write")
  /\ UNCHANGED shared

LockWrite(t) ==
  /\ pc[t] = "lk_write"
  /\ SetOwner("SKILL")
  /\ Goto(t, "settle")

UnlockTest(t) ==
  /\ pc[t] = "ul_test"
  /\ IF owner # "SKILL" THEN Return(t) ELSE Goto(t, "ul_write")
  /\ UNCHANGED shared

UnlockWrite(t) ==
  /\ pc[t] = "ul_write"
  /\ SetOwner("FREE")
  /\ Return(t)

-----------------------------------------------------------------------------
(* flush()                                                                 *)

FlushFence(t) ==
  /\ pc[t] = "fl_fence"
  /\ IF master THEN Return(t) ELSE Goto(t, "fl_raise")
  /\ UNCHANGED shared

\* Mutant: the count is forgotten.
FlushRaise_Uncounted(t) ==
  /\ pc[t] = "fl_raise"
  /\ Goto(t, "fl_test")
  /\ UNCHANGED shared

\* The count goes up before the ownership test.
FlushRaise(t) ==
  /\ pc[t] = "fl_raise"
  /\ busy' = busy \cup {t}
  /\ Goto(t, "fl_test")
  /\ UNCHANGED <<owner, master, host, cmd, running, stop, pi, intruded, late>>

FlushTest(t) ==
  /\ pc[t] = "fl_test"
  /\ IF owner # "FREE"
       THEN busy' = busy \ {t} /\ Return(t)
       ELSE busy' = busy /\ Goto(t, "fl_frame")
  /\ UNCHANGED <<owner, master, host, cmd, running, stop, pi, intruded, late>>

\* Pacing, overlay, power state and the frames themselves.
FlushFrame(t) ==
  /\ pc[t] = "fl_frame"
  /\ busy' = busy \ {t}
  /\ Return(t)
  /\ UNCHANGED <<owner, master, host, cmd, running, stop, pi, intruded, late>>

-----------------------------------------------------------------------------
(* send_gait_cmd(), and the entry points of the same shape                 *)

SendFence(t) ==
  /\ pc[t] = "sg_fence"
  /\ IF master THEN Return(t) ELSE Goto(t, "sg_write")
  /\ UNCHANGED shared

SendWrite(t) ==
  /\ pc[t] = "sg_write"
  /\ cmd' = "local"
  /\ intruded' = (intruded \/ master)
  /\ Return(t)
  /\ UNCHANGED <<owner, master, host, busy, running, stop, pi, late>>

-----------------------------------------------------------------------------
(* The gait task: every branch flushes; the idle one only while no skill   *)
(* runs.  A one-shot ends by resetting the command.                        *)

GaitFlush ==
  /\ pc[Gait] = "idle"
  /\ cmd # "none" \/ running = {}
  /\ Call(Gait, "fl_raise", "idle")
  /\ UNCHANGED shared

GaitMoveDone ==
  /\ pc[Gait] = "idle" /\ cmd # "none"
  /\ cmd' = "none"
  /\ UNCHANGED <<owner, master, host, busy, running, stop, pi, pc, ret,
                 intruded, late>>

-----------------------------------------------------------------------------
(* HTTP handlers: the Studio switch, the gait buttons, and the diagnostic  *)
(* sweep, which turns Studio mode on, flushes, and turns it off.           *)

ConsoleCall(t) ==
  /\ pc[t] = "idle"
  /\ \E place \in {"on_fence", "off_test", "sg_fence"} : Call(t, place, "idle")
  /\ UNCHANGED shared

SweepStart(t) ==
  /\ pc[t] = "idle"
  /\ Call(t, "on_fence", "sw_flush")
  /\ UNCHANGED shared

SweepFlush(t) ==
  /\ pc[t] = "sw_flush"
  /\ Call(t, "fl_fence", "sw_off")
  /\ UNCHANGED shared

SweepOff(t) ==
  /\ pc[t] = "sw_off"
  /\ Call(t, "off_test", "idle")
  /\ UNCHANGED shared

-----------------------------------------------------------------------------
(* A skill's run (wasm_sandbox.cc), one at a time.                         *)

SkillStart(t) ==
  /\ \A s \in Skills : pc[s] = "off"
  /\ running' = {t}
  /\ stop' = FALSE       \* left so by the end of the run before
  /\ Call(t, "run", "run")
  /\ UNCHANGED <<owner, master, host, cmd, busy, pi, intruded, late>>

\* A cancelled run's servo_lock and servo_unlock are refused by the host
\* functions; flushing and gait commands are not.
SkillCall(t) ==
  /\ pc[t] = "run"
  /\ \/ \E place \in {"fl_fence", "sg_fence"} : Call(t, place, "run")
     \/ /\ ~stop
        /\ \E place \in {"lk_fence", "ul_test"} : Call(t, place, "run")
  /\ UNCHANGED shared

\* on_start() and the tick loop are over; on_stop() has still to run.
SkillReturned(t) ==
  /\ pc[t] = "run" /\ t \in running
  /\ running' = {}
  /\ UNCHANGED <<owner, master, host, cmd, busy, stop, pi, pc, ret, intruded,
                 late>>

SkillEnd(t) ==
  /\ pc[t] = "run" /\ t \notin running
  /\ Goto(t, "end_test")
  /\ UNCHANGED shared

\* The gains the skill changed go back while the bus is held: its own hold if
\* it still has one, else one taken for the purpose.
EndTest(t) ==
  /\ pc[t] = "end_test"
  /\ IF owner = "SKILL" THEN Goto(t, "rel_test")
                        ELSE Call(t, "lk_fence", "end_unlock")
  /\ UNCHANGED shared

EndUnlock(t) ==
  /\ pc[t] = "end_unlock"
  /\ Call(t, "ul_test", "rel_test")
  /\ UNCHANGED shared

\* Mutant: a run ends without release_skill_bus_lock().
ReleaseTest_Forgotten(t) ==
  /\ pc[t] = "rel_test"
  /\ Goto(t, "off")
  /\ UNCHANGED shared

\* release_skill_bus_lock()
ReleaseTest(t) ==
  /\ pc[t] = "rel_test"
  /\ IF owner = "SKILL" THEN Call(t, "ul_test", "off") ELSE Goto(t, "off")
  /\ UNCHANGED shared

\* POST /v1/skills/stop, while s_skill_running.
ConsoleStop(t) ==
  /\ pc[t] = "idle"
  /\ \E s \in Skills : pc[s] # "off"
  /\ stop' = TRUE
  /\ UNCHANGED <<owner, master, host, cmd, busy, running, pi, pc, ret, intruded,
                 late>>

-----------------------------------------------------------------------------
(* robot::master: the ROS bridge.                                          *)

AskSkillToStop == stop' = (stop \/ running # {})

\* Mutant: begin() takes the bus and the command before it raises the fence.
MasterFence_Late ==
  /\ pi = "away"
  /\ pi' = "rb_bus"
  /\ UNCHANGED <<owner, master, host, cmd, busy, running, stop, pc, ret,
                 intruded, late>>

MasterFence ==
  /\ pi = "away"
  /\ master' = TRUE /\ pi' = "rb_bus"
  /\ UNCHANGED <<owner, host, cmd, busy, running, stop, pc, ret, intruded, late>>

MasterTakeBus ==
  /\ pi = "rb_bus"
  /\ owner' = "FREE"
  /\ AskSkillToStop
  /\ pi' = "rb_clear"
  /\ UNCHANGED <<master, host, cmd, busy, running, pc, ret, intruded, late>>

\* Overlay, joystick, Pi velocity and foot targets go too.
MasterClear ==
  /\ pi = "rb_clear"
  /\ cmd' = "none" /\ pi' = "ros"
  /\ UNCHANGED <<owner, master, host, busy, running, stop, pc, ret, intruded,
                 late>>

\* master::send_gait_cmd(), set_velocity(), set_body_attitude(),
\* set_foot_targets().
MasterSend ==
  /\ pi = "ros"
  /\ \E c \in {"none", "master"} : cmd' = c
  /\ UNCHANGED <<owner, master, host, busy, running, stop, pi, pc, ret,
                 intruded, late>>

MasterEnd ==
  /\ pi = "ros"
  /\ cmd' = "none" /\ pi' = "re_fence"
  /\ UNCHANGED <<owner, master, host, busy, running, stop, pc, ret, intruded,
                 late>>

MasterUnfence ==
  /\ pi = "re_fence"
  /\ master' = FALSE /\ intruded' = FALSE /\ pi' = "away"
  /\ UNCHANGED <<owner, host, cmd, busy, running, stop, pc, ret, late>>

-----------------------------------------------------------------------------
(* robot::host: the Pi's policy drives the joints itself.                  *)

\* Mutant: begin() raises s_host alone, and no fence.
HostFence_Missing ==
  /\ pi = "away" /\ ~host /\ ~master
  /\ pi' = "hb_host"
  /\ UNCHANGED <<owner, master, host, cmd, busy, running, stop, pc, ret,
                 intruded, late>>

HostFence ==
  /\ pi = "away" /\ ~host /\ ~master
  /\ master' = TRUE /\ pi' = "hb_host"
  /\ UNCHANGED <<owner, host, cmd, busy, running, stop, pc, ret, intruded, late>>

HostRaise ==
  /\ pi = "hb_host"
  /\ host' = TRUE /\ AskSkillToStop /\ pi' = "hb_clear"
  /\ UNCHANGED <<owner, master, cmd, busy, running, pc, ret, intruded, late>>

HostClear ==
  /\ pi = "hb_clear"
  /\ cmd' = "none" /\ pi' = "hb_bus"
  /\ UNCHANGED <<owner, master, host, busy, running, stop, pc, ret, intruded,
                 late>>

\* Mutant: begin() leaves the bus to a Servo Studio that has it.
HostTakeBus_NotFromStudio ==
  /\ pi = "hb_bus"
  /\ owner' = (IF owner = "STUDIO" THEN owner ELSE "HOST")
  /\ pi' = "hb_wait"
  /\ UNCHANGED <<master, host, cmd, busy, running, stop, pc, ret, intruded, late>>

HostTakeBus ==
  /\ pi = "hb_bus"
  /\ owner' = "HOST" /\ pi' = "hb_wait"
  /\ UNCHANGED <<master, host, cmd, busy, running, stop, pc, ret, intruded, late>>

\* Up to 100 ticks for s_flush_busy to reach 0; then a warning, and on.  Late
\* if a counted flush is still on its way to the boards.
HostWait ==
  /\ pi = "hb_wait"
  /\ pi' = "host"
  /\ late' = (late \/ busy \cap InFlight # {})
  /\ UNCHANGED <<owner, master, host, cmd, busy, running, stop, pc, ret,
                 intruded>>

\* The gains go back first, and the next flush will wake as from rest.
HostEnd ==
  /\ pi = "host"
  /\ cmd' = "none" /\ pi' = "he_bus"
  /\ UNCHANGED <<owner, master, host, busy, running, stop, pc, ret, intruded,
                 late>>

HostFreeBus ==
  /\ pi = "he_bus"
  /\ owner' = "FREE" /\ pi' = "he_host"
  /\ UNCHANGED <<master, host, cmd, busy, running, stop, pc, ret, intruded, late>>

HostLower ==
  /\ pi = "he_host"
  /\ host' = FALSE /\ pi' = "he_fence"
  /\ UNCHANGED <<owner, master, cmd, busy, running, stop, pc, ret, intruded,
                 late>>

HostUnfence ==
  /\ pi = "he_fence"
  /\ master' = FALSE /\ intruded' = FALSE /\ pi' = "away"
  /\ UNCHANGED <<owner, host, cmd, busy, running, stop, pc, ret, late>>

-----------------------------------------------------------------------------
FlushStep(t) == FlushFence(t) \/ FlushRaise(t) \/ FlushTest(t) \/ FlushFrame(t)

ConsoleStep(t) ==
  \/ StudioFence(t) \/ StudioTest(t) \/ StudioWrite(t) \/ Settle(t)
  \/ StudioOffTest(t) \/ StudioOffWrite(t)
  \/ SweepFlush(t) \/ SweepOff(t)
  \/ FlushStep(t) \/ SendFence(t) \/ SendWrite(t)

SkillStep(t) ==
  \/ LockFence(t) \/ LockTest(t) \/ LockWrite(t) \/ Settle(t)
  \/ UnlockTest(t) \/ UnlockWrite(t)
  \/ FlushStep(t) \/ SendFence(t) \/ SendWrite(t)
  \/ SkillEnd(t) \/ EndTest(t) \/ EndUnlock(t) \/ ReleaseTest(t)

GaitStep == GaitFlush \/ FlushRaise(Gait) \/ FlushTest(Gait) \/ FlushFrame(Gait)

MasterStep ==
  \/ MasterFence \/ MasterTakeBus \/ MasterClear \/ MasterSend
  \/ MasterEnd \/ MasterUnfence

HostStep ==
  \/ HostFence \/ HostRaise \/ HostClear \/ HostTakeBus \/ HostWait
  \/ HostEnd \/ HostFreeBus \/ HostLower \/ HostUnfence

Next ==
  \/ \E t \in Consoles : ConsoleCall(t) \/ ConsoleStop(t) \/ SweepStart(t)
                           \/ ConsoleStep(t)
  \/ \E t \in Skills : SkillStart(t) \/ SkillCall(t) \/ SkillReturned(t)
                       \/ SkillStep(t)
  \/ GaitStep \/ GaitMoveDone
  \/ MasterStep \/ HostStep

Spec == Init /\ [][Next]_vars

-----------------------------------------------------------------------------
(* Properties.  A task that has passed the fence, or servo_unlock()'s test, *)
(* before the Pi takes the robot may still write afterwards; intruded says  *)
(* that it did; FlushSilentUnderHost is what such a write breaks.           *)

\* From host::begin()'s store until host::end()'s, the bus is the Pi's unless
\* a call caught between its test and its write has overwritten the word.
HostHoldsBus ==
  pi \in {"hb_wait", "host", "he_bus"} /\ ~intruded => owner = "HOST"

\* No flush() puts a frame among the policy's: the count a flush raises before
\* its ownership test, and host::begin()'s wait for it, leave no gap between
\* them (unless the wait ran out).
HostAlone ==
  pi \in {"host", "he_bus"} /\ ~intruded /\ ~late => InFlight = {}

\* Once servo_lock() or set_studio_mode() is through its 50 ms, no flush() is
\* writing among the owner's config requests (unless 50 ms were too short).
LocalOwnerAlone ==
  /\ owner \in {"STUDIO", "SKILL"}
  /\ \A t \in Locals : pc[t] # "settle"
  /\ ~late
  => InFlight = {}

\* While the ROS bridge is in control the gait may write, and what it executes
\* was never asked for by a local caller (but for a call caught in between).
MasterOwnsMotion ==
  pi = "ros" /\ ~intruded => owner = "FREE" /\ cmd # "local"

\* A skill's hold on the bus ends with its run, whoever took the bus from it
\* or refused it on the way: the gait is never parked for nobody.
SkillLockDies == owner = "SKILL" => \E t \in Skills : pc[t] # "off"

\* What the steps preserve together.
PiFlags ==
  /\ master <=> pi # "away"
  /\ host <=> pi \in {"hb_clear", "hb_bus", "hb_wait", "host", "he_bus", "he_host"}
  /\ pi = "away" => ~intruded
Counted    == \A t \in Tasks : t \in busy <=> pc[t] \in {"fl_test", "fl_frame"}
BridgeBus  == pi = "rb_clear" /\ ~intruded => owner = "FREE"
LastReturn == \A t \in Skills :
                ret[t] = "off" => pc[t] \in {"ul_test", "ul_write", "off"}

\* The inductive invariant: the Pi's flags say where it is, s_flush_busy counts
\* exactly the flushes past their start, and the run's last call is
\* servo_unlock().
Inv ==
  /\ TypeOK /\ PiFlags /\ Counted /\ BridgeBus /\ LastReturn
  /\ HostHoldsBus /\ HostAlone /\ LocalOwnerAlone
  /\ MasterOwnsMotion /\ SkillLockDies

\* Who on the Pi has the robot, as far as begin() and end() have come.
ControlOf ==
  IF pi = "away" THEN "nobody"
  ELSE IF pi \in {"rb_bus", "rb_clear", "ros", "re_fence"} THEN "bridge"
  ELSE IF pi = "hb_host" THEN "coming"
  ELSE IF pi = "he_fence" THEN "going" ELSE "policy"

Control == INSTANCE PiControl WITH control <- ControlOf

\* The Pi of this module takes the robot in turns, as main/pi does (PiSessions):
\* that is why one place, pi, is enough for the bridge and the policy.
OneControlPoint == Control!Spec

\* robot.h: between host::begin() and host::end() the gait is parked and
\* flush() writes nothing.  Refuted, with every wait long enough: a call caught
\* between its test and its write frees the bus or takes it, and frees it later.
FlushSilentUnderHost == pi = "host" /\ ~late => InFlight = {}

\* robot.cc: Studio and a skill must not steal the bus from each other; a
\* skill is not to end a human's Studio mode.  Refuted: servo_unlock() frees
\* whatever s_bus_owner has become since it looked.
StudioKeepsBus ==
  [][owner = "STUDIO" /\ owner' # "STUDIO" => \A t \in Skills : pc'[t] = pc[t]]_vars

\* http_server.cc: the diagnostic sweep swings the servo.  Refuted: its own
\* Studio mode makes each flush() return before the frame.
SweepMoves ==
  [][\A t \in Consoles : pc[t] = "fl_test" /\ ret[t] = "sw_off" /\ pc'[t] # pc[t]
                        => pc'[t] = "fl_frame"]_vars
=============================================================================
