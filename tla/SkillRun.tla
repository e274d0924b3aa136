------------------------------ MODULE SkillRun ------------------------------
(***************************************************************************)
(* A WASM skill's run: network/http_server.cc starts it on a task of its   *)
(* own, wasm/wasm_sandbox.cc carries it through its life and its watchdog, *)
(* sdk/wasm_host_functions.cc keeps the servo gains it must put back.      *)
(* Around it are those who stop it, and the others who save the servos'    *)
(* gains and put them back: a stunt and the Pi's policy.                   *)
(*                                                                         *)
(* The gains of all servos are one value here, named for who wrote it.     *)
(* The bus lock is as coarse as a call; MotionCore has its interleavings.  *)
(***************************************************************************)
EXTENDS Naturals, FiniteSets

CONSTANTS Callers,   \* tasks that call start_skill_async(): HTTP, the agent's tools
          Direct     \* tasks that call load_and_run() themselves: Lua's wasm.run

Runs == Callers \cup Direct

ASSUME RunAssumption == Callers \cap Direct = {}

Gains == {"own", "skill", "stunt", "policy"}
Saved == Gains \cup {"none"}
Places == {"idle", "tested", "queued", "load", "start", "tick", "on_tick", "on_stop",
           "gains", "undo", "release", "over", "named"}
Stoppers == {"app", "pi"}

VARIABLES guard,       \* s_skill_running
          at,          \* where each run is
          deaf,        \* runs whose code does not heed s_cancelled, nor ends by itself
          cancelled, tickStop, stopping,   \* s_cancelled, s_tick_stop, s_stopping
          running,     \* s_running
          period,      \* s_tick_period_ms is set
          claim,       \* s_control_owner: feet or joints, which the gait's idle branch leaves alone
          fired,       \* runs whose watchdog has fired; it does once
          terminated,  \* runs the watchdog has terminated the present call of
          owner,       \* s_bus_owner
          pi,          \* the Pi: out, fenced (s_master), freed, asked, host or ros
          saw,         \* stoppers between their test and request_stop()
          board,       \* the gains in the boards' RAM
          before,      \* s_gain_before of the slots s_gain_saved has
          hostGains,   \* s_host_gains, or none out of a session
          stuntGains,  \* s_gp_saved, or none when no move has pushed
          stunt,       \* the stunt: out, read or up
          asked,       \* history: runs that were there when a stop was asked for, since a run ended
          first,       \* history: who saved gains first, since nobody had
          crossed      \* history: saved gains were forgotten, or put back before those
                       \* that were saved over them

flags == <<cancelled, tickStop, stopping>>
run == <<guard, at, deaf, running, period, claim, fired, terminated>>
gains == <<board, before, hostGains, stuntGains, stunt, first, crossed>>
others == <<pi, saw, asked>>
vars == <<flags, run, owner, others, gains>>

Init ==
    /\ guard = FALSE
    /\ at = [r \in Runs |-> "idle"]
    /\ deaf = {}
    /\ cancelled = FALSE /\ tickStop = FALSE /\ stopping = FALSE
    /\ running = FALSE /\ period = FALSE /\ claim = FALSE
    /\ fired = {} /\ terminated = {}
    /\ owner = "free"
    /\ pi = "out"
    /\ saw = {}
    /\ board = "own"
    /\ before = "none" /\ hostGains = "none" /\ stuntGains = "none"
    /\ stunt = "out"
    /\ asked = {}
    /\ first = "none" /\ crossed = FALSE

Fence == pi # "out"     \* s_master
Live == {r \in Runs : at[r] \notin {"idle", "tested"}}
From(r, l) == at[r] = l
Goto(r, l) == at' = [at EXCEPT ![r] = l]

-----------------------------------------------------------------------------
(* start_skill_async() and skill_run_task() *)

TestGuard(r) ==
    /\ r \in Callers /\ From(r, "idle")
    /\ ~guard
    /\ Goto(r, "tested")
    /\ UNCHANGED <<flags, guard, deaf, running, period, claim, fired, terminated, owner, others, gains>>

\* s_skill_running is set, and the task created or not.
Launch(r) ==
    /\ From(r, "tested")
    /\ \/ guard' = TRUE /\ Goto(r, "queued")
       \/ guard' = FALSE /\ Goto(r, "idle")
    /\ UNCHANGED <<flags, deaf, running, period, claim, fired, terminated, owner, others, gains>>

\* load_and_run(): called by the task, or by Lua whatever runs already.
LoadAndRun(r) ==
    /\ From(r, "queued") \/ (r \in Direct /\ From(r, "idle"))
    /\ Goto(r, "load")
    /\ UNCHANGED <<flags, guard, deaf, running, period, claim, fired, terminated, owner, others, gains>>

-----------------------------------------------------------------------------
(* Who has saved the gains of the servos, to put them back *)

SavedBy(x) == CASE x = "skill" -> before [] x = "host" -> hostGains [] x = "stunt" -> stuntGains
Up == {x \in {"skill", "host", "stunt"} : SavedBy(x) # "none"}
Quiet == Up = {}

Saves(x) == /\ first' = IF Quiet THEN x ELSE first
            /\ UNCHANGED crossed
Forgets(x) == /\ crossed' = (crossed \/ x \in Up)
              /\ first' = IF Up \subseteq {x} THEN "none" ELSE first
PutsBack(x) == /\ crossed' = (crossed \/ (x = first /\ x \in Up /\ Up # {x}))
               /\ first' = IF Up \subseteq {x} THEN "none" ELSE first

-----------------------------------------------------------------------------
(* wasm_load_run_thread() *)

LoadFails(r) ==
    /\ From(r, "load")
    /\ Goto(r, "over")
    /\ UNCHANGED <<flags, guard, deaf, running, period, claim, fired, terminated, owner, others, gains>>

\* The per-run setup, and the exec env or none: the gains another run has saved
\* are forgotten.  A stop asked for while the module was being loaded stays in
\* s_cancelled.
Setup_Fresh(r, env) ==
    /\ From(r, "load")
    /\ before' = "none" /\ Forgets("skill")
    /\ period' = FALSE /\ claim' = FALSE
    /\ tickStop' = FALSE /\ stopping' = FALSE /\ cancelled' = FALSE
    /\ running' = (running \/ env)
    /\ Goto(r, IF env THEN "start" ELSE "over")
    /\ UNCHANGED <<guard, deaf, fired, terminated, owner, others, board, hostGains, stuntGains, stunt>>
Setup(r, env) ==
    /\ From(r, "load")
    /\ before' = "none" /\ Forgets("skill")
    /\ period' = FALSE /\ claim' = FALSE
    /\ tickStop' = FALSE /\ stopping' = FALSE
    /\ running' = (running \/ env)
    /\ Goto(r, IF env THEN "start" ELSE "over")
    /\ UNCHANGED <<cancelled, guard, deaf, fired, terminated, owner, others, board, hostGains, stuntGains, stunt>>

InCode(r) == at[r] \in {"start", "on_tick", "on_stop"}
MayCall(r) == InCode(r)

\* Host calls.  All of these look at s_cancelled first.
ServoLock(r) ==
    /\ MayCall(r) /\ ~cancelled
    /\ owner = "free" /\ ~Fence
    /\ owner' = "skill"
    /\ UNCHANGED <<flags, run, others, gains>>

ServoUnlock(r) ==
    /\ MayCall(r) /\ ~cancelled
    /\ owner = "skill"
    /\ owner' = "free"
    /\ UNCHANGED <<flags, run, others, gains>>

\* remember_gain() keeps what was there before the first write only.
Remembered_Each == board
Remembered == IF before = "none" THEN board ELSE before

SetGain(r) ==
    /\ MayCall(r) /\ ~cancelled
    /\ owner = "skill"
    /\ before' = Remembered /\ Saves("skill")
    /\ board' = "skill"
    /\ UNCHANGED <<flags, run, owner, others, hostGains, stuntGains, stunt>>

ControlTake(r) ==
    /\ MayCall(r) /\ ~cancelled
    /\ claim' = TRUE
    /\ UNCHANGED <<flags, guard, at, deaf, running, period, fired, terminated, owner, others, gains>>

\* mpx_control_release(), mpx_tick_every() and mpx_tick_stop() look at nothing.
Uncancelled(r) ==
    /\ MayCall(r)
    /\ \/ claim' = FALSE /\ UNCHANGED <<period, tickStop>>
       \/ period' = TRUE /\ UNCHANGED <<claim, tickStop>>
       \/ tickStop' = TRUE /\ UNCHANGED <<claim, period>>
    /\ UNCHANGED <<cancelled, stopping, guard, at, deaf, running, fired, terminated, owner, others, gains>>

\* on_stop() is the skill's code as well.
GoesDeaf(r) ==
    /\ InCode(r) /\ r \notin deaf \cup terminated
    /\ deaf' = deaf \cup {r}
    /\ UNCHANGED <<flags, guard, at, running, period, claim, fired, terminated, owner, others, gains>>

\* A call ends by itself, or traps, and always does once it is terminated.
Ended(r) == deaf' = deaf \ {r} /\ terminated' = terminated \ {r}

\* The tick loop is entered when on_start() returned and asked for it, and the
\* module exports on_tick().
LoopGoesOn == ~tickStop /\ ~cancelled
OnStartReturns(r, trap) ==
    /\ From(r, "start") /\ (r \in deaf \cup terminated => trap)
    /\ \/ ~trap /\ ~cancelled /\ period /\ Goto(r, "tick") /\ UNCHANGED running
       \/ Goto(r, "on_stop") /\ running' = FALSE
    /\ Ended(r)
    /\ UNCHANGED <<flags, guard, period, claim, fired, owner, others, gains>>

Tick(r) ==
    /\ From(r, "tick") /\ LoopGoesOn
    /\ Goto(r, "on_tick")
    /\ UNCHANGED <<flags, guard, deaf, running, period, claim, fired, terminated, owner, others, gains>>

\* A tick that trapped, or the third in a row that was late, ends the loop.
OnTickReturns(r, last) ==
    /\ From(r, "on_tick") /\ (r \in deaf \cup terminated => last)
    /\ IF last THEN Goto(r, "on_stop") /\ running' = FALSE
               ELSE Goto(r, "tick") /\ UNCHANGED running
    /\ Ended(r)
    /\ UNCHANGED <<flags, guard, period, claim, fired, owner, others, gains>>

LoopEnds(r) ==
    /\ From(r, "tick") /\ ~LoopGoesOn
    /\ Goto(r, "on_stop")
    /\ running' = FALSE
    /\ UNCHANGED <<flags, guard, deaf, period, claim, fired, terminated, owner, others, gains>>

OnStopReturns(r) ==
    /\ From(r, "on_stop")
    /\ Goto(r, "gains")
    /\ Ended(r)
    /\ UNCHANGED <<flags, guard, running, period, claim, fired, owner, others, gains>>

\* The gains go back while the run holds the bus, or can take it; else they
\* are left as they are.
TakesBus == owner = "skill" \/ (owner = "free" /\ ~Fence)

RestoreDecides(r) ==
    /\ From(r, "gains")
    /\ IF TakesBus
       THEN Goto(r, "undo") /\ owner' = "skill" /\ UNCHANGED <<before, first, crossed>>
       ELSE Goto(r, "release") /\ before' = "none" /\ Forgets("skill") /\ UNCHANGED owner
    /\ UNCHANGED <<flags, guard, deaf, running, period, claim, fired, terminated, others, board, hostGains, stuntGains, stunt>>

RestoreWrites(r) ==
    /\ From(r, "undo")
    /\ board' = IF before # "none" THEN before ELSE board
    /\ before' = "none" /\ PutsBack("skill")
    /\ Goto(r, "release")
    /\ UNCHANGED <<flags, guard, deaf, running, period, claim, fired, terminated, owner, others, hostGains, stuntGains, stunt>>

\* release_skill_bus_lock(), control_reset() and the tick state; then the instance goes and
\* the run is completed.
Teardown_Locked(r) ==
    /\ From(r, "release")
    /\ period' = FALSE /\ claim' = FALSE
    /\ tickStop' = FALSE /\ stopping' = FALSE
    /\ Goto(r, "over")
    /\ UNCHANGED <<cancelled, guard, deaf, running, fired, terminated, owner, others, gains>>
Teardown(r) ==
    /\ From(r, "release")
    /\ owner' = IF owner = "skill" THEN "free" ELSE owner
    /\ period' = FALSE /\ claim' = FALSE
    /\ tickStop' = FALSE /\ stopping' = FALSE
    /\ Goto(r, "over")
    /\ UNCHANGED <<cancelled, guard, deaf, running, fired, terminated, others, gains>>

-----------------------------------------------------------------------------
(* load_and_run_bytes(), in the task that waits for the run *)

\* The budget (30 s at least, and more than a module takes to load) is used up:
\* the run is cancelled, and the call it is in is terminated; a later call is
\* not.  Past on_stop() that changes nothing.
WatchdogFires_Asks(r) ==
    /\ at[r] \in {"start", "tick", "on_tick", "on_stop"} /\ r \notin fired
    /\ cancelled' = TRUE
    /\ fired' = fired \cup {r}
    /\ UNCHANGED <<tickStop, stopping, guard, at, deaf, running, period, claim, terminated, owner, others, gains>>
WatchdogFires(r) ==
    /\ at[r] \in {"start", "tick", "on_tick", "on_stop"} /\ r \notin fired
    /\ cancelled' = TRUE
    /\ fired' = fired \cup {r}
    /\ deaf' = deaf \ {r}
    /\ terminated' = IF InCode(r) THEN terminated \cup {r} ELSE terminated
    /\ UNCHANGED <<tickStop, stopping, guard, at, running, period, claim, owner, others, gains>>

\* The wait is over: s_cancelled is cleared for the next run, and with it any
\* stop that another run has yet to see.
Joined(r) ==
    /\ From(r, "over")
    /\ cancelled' = FALSE
    /\ fired' = fired \ {r}
    /\ asked' = {}
    /\ Goto(r, IF r \in Direct THEN "idle" ELSE "named")
    /\ UNCHANGED <<tickStop, stopping, guard, deaf, terminated, running, period, claim, owner, pi, saw, gains>>

\* skill_run_task() ends.
TaskEnds(r) ==
    /\ From(r, "named")
    /\ guard' = FALSE
    /\ Goto(r, "idle")
    /\ asked' = asked \ {r}
    /\ UNCHANGED <<flags, deaf, running, period, claim, fired, terminated, owner, pi, saw, gains>>

Thread(r) == \/ TestGuard(r) \/ Launch(r) \/ LoadAndRun(r) \/ LoadFails(r)
             \/ \E b \in BOOLEAN : Setup(r, b) \/ OnStartReturns(r, b) \/ OnTickReturns(r, b)
             \/ Tick(r) \/ LoopEnds(r) \/ OnStopReturns(r) \/ RestoreDecides(r) \/ RestoreWrites(r) \/ Teardown(r)
             \/ WatchdogFires(r) \/ Joined(r) \/ TaskEnds(r)
HostCall(r) == ServoLock(r) \/ ServoUnlock(r) \/ SetGain(r)
               \/ ControlTake(r) \/ Uncancelled(r) \/ GoesDeaf(r)

-----------------------------------------------------------------------------
(* Those around a run *)

\* skill_stop() asks s_skill_running, and the Pi, once its fence is up, s_running.
StopTest ==
    /\ "app" \notin saw /\ guard
    /\ saw' = saw \cup {"app"}
    /\ UNCHANGED <<flags, run, owner, pi, asked, gains>>
RequestStop(s) ==
    /\ s \in saw
    /\ tickStop' = TRUE /\ stopping' = TRUE /\ cancelled' = TRUE
    /\ saw' = saw \ {s}
    /\ asked' = asked \cup Live
    /\ UNCHANGED <<run, owner, pi, gains>>

Studio == /\ \/ owner \in {"free", "skill"} /\ ~Fence /\ owner' = "studio"
             \/ owner = "studio" /\ owner' = "free"
          /\ UNCHANGED <<flags, run, others, gains>>

\* Both sessions put the fence up.  The bridge frees the bus, then asks the
\* skill to stop, and drives through the gait; the raw host asks first, then
\* takes the bus from anybody, saves the gains and puts them back at its end.
PiFence == /\ pi = "out"
           /\ pi' = "fenced"
           /\ UNCHANGED <<flags, run, owner, saw, asked, gains>>
RosFrees == /\ pi = "fenced"
            /\ pi' = "freed"
            /\ owner' = "free"
            /\ UNCHANGED <<flags, run, saw, asked, gains>>
PiAsks == /\ pi \in {"fenced", "freed"}
          /\ pi' = IF pi = "fenced" THEN "asked" ELSE "ros"
          /\ saw' = IF running THEN saw \cup {"pi"} ELSE saw
          /\ UNCHANGED <<flags, run, owner, asked, gains>>

RosEnd ==
    /\ pi = "ros" /\ "pi" \notin saw
    /\ pi' = "out"
    /\ UNCHANGED <<flags, run, owner, saw, asked, gains>>
HostTakes ==
    /\ pi = "asked" /\ "pi" \notin saw
    /\ pi' = "host"
    /\ owner' = "host"
    /\ hostGains' = board
    /\ Saves("host")
    /\ UNCHANGED <<flags, run, saw, asked, board, before, stuntGains, stunt>>
HostConfig ==
    /\ pi = "host"
    /\ board' = "policy"
    /\ UNCHANGED <<flags, run, owner, others, before, hostGains, stuntGains, stunt, first, crossed>>
HostEnd ==
    /\ pi = "host"
    /\ board' = hostGains
    /\ hostGains' = "none"
    /\ owner' = "free"
    /\ pi' = "out"
    /\ PutsBack("host")
    /\ UNCHANGED <<flags, run, saw, asked, before, stuntGains, stunt>>

\* A move with a preset of its own: gains_push() reads and writes, gains_pop()
\* writes back.  The config path asks nobody who has the bus.
StuntReads ==
    /\ stunt = "out" /\ pi \in {"out", "ros"}
    /\ stuntGains' = board
    /\ stunt' = "read"
    /\ Saves("stunt")
    /\ UNCHANGED <<flags, run, owner, others, board, before, hostGains>>
StuntWrites ==
    /\ stunt = "read"
    /\ board' = "stunt"
    /\ stunt' = "up"
    /\ UNCHANGED <<flags, run, owner, others, before, hostGains, stuntGains, first, crossed>>
StuntPops ==
    /\ stunt = "up"
    /\ board' = stuntGains
    /\ stuntGains' = "none"
    /\ stunt' = "out"
    /\ PutsBack("stunt")
    /\ UNCHANGED <<flags, run, owner, others, before, hostGains>>

Around == \/ StopTest \/ (\E s \in Stoppers : RequestStop(s))
          \/ Studio \/ PiFence \/ RosFrees \/ PiAsks \/ RosEnd
          \/ HostTakes \/ HostConfig \/ HostEnd
          \/ StuntReads \/ StuntWrites \/ StuntPops

Next == (\E r \in Runs : Thread(r) \/ HostCall(r)) \/ Around
Spec == Init /\ [][Next]_vars

\* What the tasks do by themselves.  The skill's code may run as long as it
\* likes, but heeds a host call that tells it to stop, unless it is deaf.
Stops(r) == (cancelled /\ r \notin deaf) \/ r \in terminated
Goes(r) == \/ Launch(r)
           \/ LoadAndRun(r) /\ From(r, "queued")
           \/ Setup(r, TRUE) \/ LoadFails(r)
           \/ Stops(r) /\ (OnStartReturns(r, r \in terminated) \/ OnTickReturns(r, r \in terminated)
                           \/ OnStopReturns(r))
           \/ Tick(r) \/ LoopEnds(r) \/ RestoreDecides(r) \/ RestoreWrites(r) \/ Teardown(r)
           \/ Joined(r) \/ TaskEnds(r)
Fairness == \A r \in Runs : WF_vars(Goes(r)) /\ WF_vars(WatchdogFires(r))

FairSpec == Spec /\ Fairness

-----------------------------------------------------------------------------
TypeOK ==
    /\ guard \in BOOLEAN /\ cancelled \in BOOLEAN /\ tickStop \in BOOLEAN /\ stopping \in BOOLEAN
    /\ running \in BOOLEAN /\ period \in BOOLEAN /\ claim \in BOOLEAN /\ crossed \in BOOLEAN
    /\ at \in [Runs -> Places]
    /\ deaf \subseteq {r \in Runs : InCode(r)} /\ terminated \subseteq {r \in Runs : InCode(r)}
    /\ fired \subseteq Runs /\ asked \subseteq Runs
    /\ owner \in {"free", "skill", "studio", "host"}
    /\ pi \in {"out", "fenced", "freed", "asked", "host", "ros"}
    /\ saw \subseteq Stoppers
    /\ board \in Gains
    /\ before \in Saved /\ hostGains \in Saved /\ stuntGains \in Saved
    /\ stunt \in {"out", "read", "up"}
    /\ first \in {"none", "skill", "host", "stunt"}

\* request_stop() on a run that is queued, being loaded or running is not
\* forgotten before a run has ended, although the setup, its own or another
\* run's, clears two of its three flags.
StopSticks == \A r \in asked : at[r] \in {"queued", "load", "start", "tick", "on_tick", "on_stop"} => cancelled

\* on_stop() is called after the watchdog, which terminates one call, and is the
\* skill's own code: if it does not return nothing ends it.
HangsInStop(r) == at[r] = "on_stop" /\ r \in (fired \cap deaf) \ terminated

\* Whatever a skill's code does or leaves undone until its watchdog fires, its
\* run ends and the next one can be started, unless it then hangs in on_stop(), or
\* another run is there, whose end clears s_cancelled for both.
RunsEnd == \A r \in Runs : (at[r] # "idle") ~>
              (at[r] = "idle" \/ HangsInStop(r) \/ Live \ {r} # {})

\* Nothing of the runs outlives the last of them: the bus lock, the claim on the
\* pose and the flag the gait task looks at, the tick period, the note of gains to
\* put back.
NothingLeft == (\A r \in Runs : at[r] \in {"idle", "tested", "queued", "load", "over", "named"}) =>
                   ~running /\ owner # "skill" /\ ~claim /\ ~period /\ before = "none"

\* Runs, a stunt and a policy's session save gains over each other's.  Once all
\* are put back the boards have those they had, unless some were forgotten (the
\* run's end was refused the bus, another run's setup came) or the first to be
\* saved were put back while others had theirs saved.
GainsReturn == Quiet /\ ~crossed => board = "own"

\* A policy's session gives the walk its own gains back.
WalkKeepsTuning == Quiet /\ Live = {} => board = "own"
=============================================================================
