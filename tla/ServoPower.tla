----------------------------- MODULE ServoPower -----------------------------
(***************************************************************************)
(* robot/robot.cc: the power state machine that every flush() steps before *)
(* it sends its frame (soft start, rest, wake), over the boards of         *)
(* BoardFrames.  flush() runs in the gait task and, for skills, Lua and    *)
(* the REST handlers, in other tasks at the same time.                     *)
(***************************************************************************)
EXTENDS BoardFrames

CONSTANTS Flushers,      \* the tasks that call flush()
          Gait,          \* the gait task among them, which the Pi's fence lets pass
          ReadPasses     \* the IDLE passes of read_present()

ASSUME FlushersAssumption == ReadPasses \in Nat \ {0} /\ Gait \in Flushers

VARIABLES ps,            \* s_ps
          restNow, wakeNow,  \* s_rest_now, s_wake_now
          quiet,         \* s_rest_after_s have passed since s_last_activity_us
          goalNew,       \* the goals or the command differ from s_last_goal, s_last_cmd
          glideFrom,     \* s_glide_from: the replies it was read from, or the goal
          elapsed,       \* s_glide_ms have passed since s_glide_t0
          owner,         \* s_bus_owner: free, local (Servo Studio or a skill) or host
          busyWith,      \* what flush() calls busy: s_master, skill_is_running()
          pc,            \* per flusher
          got, pass,   \* its locals
          older,         \* history: flushes that were running when the glide began
          byHand         \* history: boards that a local owner left limp

flags == <<restNow, wakeNow, quiet, goalNew>>
glide == <<ps, glideFrom, elapsed, older>>
around == <<owner, busyWith>>
locals == <<pc, got, pass>>
power == <<flags, glide, around, locals, byHand>>
vars == <<bvars, power>>

Resting == ps \in {"lower", "off"}
Running == {t \in Flushers : pc[t] # "out"}
Goto(t, l) == pc' = [pc EXCEPT ![t] = l]

Init ==
    /\ FramesInit
    /\ ps = "boot"
    /\ restNow = FALSE /\ wakeNow = FALSE /\ quiet = FALSE /\ goalNew = TRUE
    /\ glideFrom = [b \in Boards |-> "goal"]
    /\ elapsed = FALSE
    /\ owner = "free"
    /\ busyWith = {}
    /\ pc = [t \in Flushers |-> "out"]
    /\ got = [t \in Flushers |-> {}]
    /\ pass = [t \in Flushers |-> 0]
    /\ older = {}
    /\ byHand = {}

-----------------------------------------------------------------------------
(* flush() *)

\* The entry: a bus that is not free ends it at once, and the Pi's fence ends
\* any but the gait task's.  Up to 5 ms pass before it goes on.
Enter(t) ==
    /\ pc[t] = "out" /\ owner = "free"
    /\ "ros" \in busyWith => t = Gait
    /\ Goto(t, "decide")
    /\ UNCHANGED <<bvars, flags, glide, around, got, pass, byHand>>

\* start_glide() and the lowering both stamp s_glide_t0.
GlideTo(s) == /\ ps' = s
              /\ elapsed' = FALSE
              /\ older' = Running

Busy == busyWith # {}
LiesDown == restNow \/ (~Busy /\ quiet')
Wakes_ByWord == wakeNow
Wakes_Moved == goalNew \/ Busy
Wakes == goalNew \/ Busy \/ wakeNow

\* The goals are compared, whatever comes of it.
Decide(t) ==
    /\ pc[t] = "decide"
    /\ goalNew' = FALSE
    /\ quiet' = (quiet /\ ~Wakes)
    /\ CASE ps = "boot" \/ (Resting /\ Wakes) ->
                Goto(t, "read") /\ UNCHANGED glide
         [] ps = "on" /\ LiesDown ->
                GlideTo("lower") /\ Goto(t, "emit") /\ UNCHANGED glideFrom
         [] OTHER ->
                Goto(t, "emit") /\ UNCHANGED glide
    /\ UNCHANGED <<bvars, restNow, wakeNow, around, got, pass, byHand>>

\* The passes end when every joint was read, or there were enough of them.
LastPass_OneMore(t, all) == all = Boards \/ pass[t] = ReadPasses
LastPass(t, all) == all = Boards \/ pass[t] + 1 = ReadPasses

\* read_present(), pass by pass: a joint is read in the first pass its board
\* replies with feedback in; those that never do start at their goal.
ReadPresent(t) ==
    LET now == {b \in Boards \ got[t] : Reads[b] \in Feedback}
        all == got[t] \cup now
        last == LastPass(t, all)
    IN /\ pc[t] = "read"
       /\ SendFrames(Boards, {}, Boards)
       /\ glideFrom' = [b \in Boards |-> IF b \in now THEN Reads[b]
                                         ELSE IF last /\ b \notin all THEN "goal" ELSE glideFrom[b]]
       /\ got' = [got EXCEPT ![t] = IF last THEN {} ELSE all]
       /\ pass' = [pass EXCEPT ![t] = IF last THEN 0 ELSE @ + 1]
       /\ IF last THEN GlideTo("glide") /\ Goto(t, "emit")
                  ELSE UNCHANGED <<ps, elapsed, older, pc>>
       /\ byHand' = {}
       /\ UNCHANGED <<flags, around>>

\* The requests are dropped, heard or not; then which frame, and the end of a
\* glide.
Emit(t) ==
    /\ pc[t] = "emit"
    /\ restNow' = FALSE
    /\ wakeNow' = FALSE
    /\ CASE ps = "off" -> Goto(t, "idle") /\ UNCHANGED ps
         [] ps = "lower" /\ elapsed -> Goto(t, "settle") /\ ps' = "off"
         [] ps = "glide" /\ elapsed -> Goto(t, "blend") /\ ps' = "on"
         [] OTHER -> Goto(t, IF ps = "on" THEN "write" ELSE "blend") /\ UNCHANGED ps
    /\ UNCHANGED <<bvars, quiet, goalNew, glideFrom, elapsed, older, around, got, pass, byHand>>

Leave(t) == /\ Goto(t, "out")
            /\ older' = older \ {t}

SendIdle(t) ==
    /\ pc[t] = "idle"
    /\ SendFrames(Boards, {}, Boards)
    /\ Leave(t)
    /\ UNCHANGED <<flags, ps, glideFrom, elapsed, around, got, pass, byHand>>

SendPose(t) ==
    /\ pc[t] \in {"write", "blend", "settle"}
    /\ SendFrames(Boards, {}, {})
    /\ IF pc[t] = "settle" THEN Goto(t, "idle") /\ UNCHANGED older ELSE Leave(t)
    /\ byHand' = {}
    /\ UNCHANGED <<flags, ps, glideFrom, elapsed, around, got, pass>>

Flush(t) == \/ Enter(t) \/ Decide(t) \/ ReadPresent(t)
            \/ Emit(t) \/ SendIdle(t) \/ SendPose(t)

-----------------------------------------------------------------------------
(* Whoever uses the robot *)

RestNow == /\ restNow' = TRUE
           /\ UNCHANGED <<bvars, wakeNow, quiet, goalNew, glide, around, locals, byHand>>

WakeServos == /\ wakeNow' = TRUE
              /\ quiet' = FALSE
              /\ UNCHANGED <<bvars, restNow, goalNew, glide, around, locals, byHand>>

Moves == /\ goalNew' = TRUE
         /\ UNCHANGED <<bvars, restNow, wakeNow, quiet, glide, around, locals, byHand>>

\* A skill, or the ROS bridge, which drives through the gait.
\* The bridge takes the bus back from its local owner.
Uses(w) == /\ w \notin busyWith
           /\ w = "ros" => owner # "host"
           /\ busyWith' = busyWith \cup {w}
           /\ owner' = IF w = "ros" THEN "free" ELSE owner
           /\ UNCHANGED <<bvars, flags, glide, locals, byHand>>
LeavesOff(w) == /\ w \in busyWith
                /\ busyWith' = busyWith \ {w}
                /\ UNCHANGED <<bvars, flags, glide, owner, locals, byHand>>

\* set_studio_mode(), servo_lock() and host::begin() go on when no flush is
\* running (MotionCore); host::end() asks for a wake from rest.
Owns(o) == /\ owner = "free" /\ Running = {} /\ "ros" \notin busyWith
           /\ owner' = o
           /\ UNCHANGED <<bvars, flags, glide, busyWith, locals, byHand>>
LocalOff == /\ owner = "local"
            /\ owner' = "free"
            /\ UNCHANGED <<bvars, flags, glide, busyWith, locals, byHand>>

HostEnd_NoWake == /\ owner = "host"
                  /\ owner' = "free"
                  /\ UNCHANGED <<bvars, flags, glide, busyWith, locals, byHand>>
HostEnd == /\ owner = "host"
           /\ ps' = "off"
           /\ wakeNow' = TRUE
           /\ owner' = "free"
           /\ UNCHANGED <<bvars, restNow, quiet, goalNew, glideFrom, elapsed, older, busyWith, locals, byHand>>

\* driver_board_direct() to a servo of b, holding it or not.
LocalDirect(b, held) ==
    /\ owner = "local"
    /\ SendFrames({b}, {b} \ {c \in Boards : Reads[c] \in Feedback}, IF held THEN limp ELSE {b})
    /\ byHand' = IF held THEN byHand ELSE byHand \cup {b}
    /\ UNCHANGED <<flags, glide, around, locals>>

\* A tick of the RL host: some boards hold, some are limp.
HostTick(L) ==
    /\ owner = "host"
    /\ SendFrames(Boards, {}, L)
    /\ byHand' = {}
    /\ UNCHANGED <<flags, glide, around, locals>>

\* Config requests come from any task at any time (a ping reads a parameter).
Config(b) == TakeConfig(b) /\ UNCHANGED power

\* Time.  A flush takes some tens of milliseconds and frames follow each other
\* as fast; a glide takes over a second.  So it does not end before the flushes
\* it overtook, nor before its first frame.
LimpLegs == (limp \cap plugged) \ byHand
GlideTime == /\ ps \in {"glide", "lower"} /\ ~elapsed
             /\ older = {} /\ LimpLegs = {}
             /\ elapsed' = TRUE
             /\ UNCHANGED <<bvars, flags, ps, glideFrom, older, around, locals, byHand>>
Unused == /\ ~quiet /\ ps = "on"
          /\ quiet' = TRUE
          /\ UNCHANGED <<bvars, restNow, wakeNow, goalNew, glide, around, locals, byHand>>

People == \/ RestNow \/ WakeServos \/ Moves \/ LocalOff \/ HostEnd
          \/ \E w \in {"skill", "ros"} : Uses(w) \/ LeavesOff(w)
          \/ \E o \in {"local", "host"} : Owns(o)
          \/ \E b \in Boards, held \in BOOLEAN : LocalDirect(b, held)
          \/ \E L \in SUBSET Boards : HostTick(L)

Next == (\E t \in Flushers : Flush(t)) \/ People \/ (\E b \in Boards : Config(b)) \/ GlideTime \/ Unused
Spec == Init /\ [][Next]_vars

\* The gait task flushes in every pass of its loop, but leaves the idle robot to
\* a running skill; a flush that has begun is finished; time passes.
Finishes(t) == (pc[t] = "out" => t = Gait /\ "skill" \notin busyWith) /\ Flush(t)
Fairness == /\ \A t \in Flushers : WF_vars(Finishes(t))
            /\ WF_vars(GlideTime)

FairSpec == Spec /\ Fairness

-----------------------------------------------------------------------------
TypeOK ==
    /\ plugged \in SUBSET Boards
    /\ tx \in [Boards -> Replies]
    /\ limp \in SUBSET Boards
    /\ ps \in {"boot", "glide", "on", "lower", "off"}
    /\ restNow \in BOOLEAN /\ wakeNow \in BOOLEAN /\ quiet \in BOOLEAN /\ goalNew \in BOOLEAN
    /\ glideFrom \in [Boards -> Feedback \cup {"goal"}]
    /\ elapsed \in BOOLEAN
    /\ owner \in {"free", "local", "host"}
    /\ busyWith \in SUBSET {"skill", "ros"}
    /\ pc \in [Flushers -> {"out", "decide", "read", "emit", "idle", "write", "blend", "settle"}]
    /\ got \in [Flushers -> SUBSET Boards]
    /\ pass \in [Flushers -> 0..(ReadPasses - 1)]
    /\ older \in SUBSET Flushers
    /\ byHand \in SUBSET Boards

\* Before the first command, at rest and after a policy the legs are limp, and
\* the first pose they are to be sent is a glide's: no flush decides on a bare
\* goal while a leg is limp.  Its frame may still be late (SoftStart).
GlidesFirst == [][\A t \in Flushers : pc[t] # "write" /\ pc'[t] = "write" => LimpLegs = {}]_vars

\* The comment on SOFT START, of frames and not of decisions.  A flush that has
\* decided on a bare goal may be overtaken by another task's, which lowers the
\* robot, and by its next, which wakes it: the frame comes between IDLE passes.
SoftStart == [][\A t \in Flushers : pc[t] = "write" /\ pc'[t] # "write" => LimpLegs = {}]_vars

\* No task is held up between flush()'s last test of s_ps and its
\* driver_board_sync_write() for as long as another takes to rest and to wake.
SentAtOnce == [][\A t, u \in Flushers : pc[t] = "write" => ~ReadPresent(u)]_vars
TimelySpec == Spec /\ SentAtOnce

\* The comment on REST, "never while the Pi drives the robot [or] a skill runs":
\* no flush lies down then.  The idle time heeds that, rest_now() does not.
NeverInUse == [][ps = "on" /\ ps' = "lower" => ~Busy]_vars

\* The flush has the bus: nobody owns it, and no skill holds the pose.
Driven == owner = "free" /\ "skill" \notin busyWith

\* Whatever moves the goals of a resting robot wakes it, although any flush, its
\* own or another task's, may be the one that sees them move.
MotionWakes == (Resting /\ goalNew) ~> (~Resting \/ ~Driven)

\* rest_now() and wake_servos() are heard, unless a flush that has looked at the
\* flags is still to drop them.  Nobody who drives the robot need lie down.
Dropping == \E t \in Flushers : pc[t] \in {"read", "emit"}
RequestsHeard ==
    /\ (wakeNow /\ Resting /\ ~Dropping) ~> (~Resting \/ ~Driven)
    /\ (restNow /\ ps = "on" /\ ~Dropping) ~> (Resting \/ ~Driven \/ Busy)

\* A glide starts where the legs are: from positions the boards reported.
GlideFromLegs == ps = "glide" => \A b \in Boards : glideFrom[b] # "echo"
=============================================================================
