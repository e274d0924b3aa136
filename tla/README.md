# Formal models of mpx-dog

mpx-dog is the ESP32-S3 firmware of a twelve-servo quadruped. This directory
holds TLA+ models of the parts of it that are hard to test: the tasks that
share the legs, the words they share them through, and the sessions of the
Raspberry Pi that may take the whole robot away. `PROJECT.json` says, for every
definition, which lines of the source it stands for; paths below are relative
to `src/main/`.

## 1. The system

### Tasks

| task | where | what it does |
|---|---|---|
| gait (core 1) | `robot/robot.cc:gait_task` | reads `s_gait_cmd`, plays moves, calls `flush()` every tick |
| httpd | `network/http_server.cc` | REST handlers: gait buttons, pads, Servo Studio, sweep, skills |
| skill_run | `network/http_server.cc:skill_run_task`, `wasm/wasm_sandbox.cc` | one WASM skill at a time, in a thread of its own under a watchdog |
| pi_link | `pi/pi_link.cc:link_task` | the UART: parses ROS frames and feeds RL frames to `rl_link` |
| rl_tick (core 1) | `pi/rl_link.cc:tick_task` | 200 Hz: drives the joints for the Pi's policy |
| esp_timer | | `rl_link.cc:tick_cb` notifies the tick task |
| chat, agent, Lua, voice, display | `network/chat_ws.cc`, `agent/`, `lua/`, `voice/`, `display/` | conversation, scripts, sound, face |

### Components

For each: state, operations, interaction, what is hard, what would make it right.

* **Motion arbitration** (`robot/robot.cc`). State: `s_bus_owner` (free, Studio,
  skill, host), `s_master` (the Pi's fence), `s_host`, `s_flush_busy`. Operations:
  `set_studio_mode`, `servo_lock`, `servo_unlock`, `release_skill_bus_lock`,
  `flush`, `robot::master::begin/end`, `robot::host::begin/end`. Called from four
  tasks with no lock: each tests a word and stores another some instructions
  later, and two of the waits are fixed delays. Right if one party at a time has
  the bus, no pose frame lands among another owner's traffic, the Pi's session
  executes nothing local, and a skill's hold ends with its run.
* **Gait command** (`robot/robot.cc`, `robot/moves_mpe.inc`). State: `s_gait_cmd`,
  the pads `s_js_*`, the look pad `s_look_*`, the Pi's `s_pi_*`. Every caller
  overwrites the word, the gait task plays and clears it. Right if requests are
  not lost, a stop stops, and stale velocities do not move the robot.
* **Servo power** (`robot/robot.cc:1508-1790`). State: `s_ps` (boot, on, glide, lower,
  off), `s_rest_now`, `s_wake_now`, the last activity. Stepped by every flush,
  from whichever task runs it. Right if the robot never lies down under someone
  who is using it, and every request to rest or wake is eventually honoured.
* **Driver boards** (`robot/driver_board.c`). State: per-board feedback, the pending
  config reply, the shadow of what each servo was last told, mute counters. A reply to
  frame n comes with frame n+1, and config replies share the buffer of the
  feedback. Right if what is reported as a position is one, a config read
  returns the parameter that was asked for, HOLD replays a pose and never a
  torque, and a board that went missing is found again.
* **RL host link** (`pi/rl_link.cc`). State: `s_want`, `s_session`, `s_robot`, `s_ready`,
  `s_ctl` (armed, hold, latched faults). Frames arrive in the link task, sessions
  begin and end in the tick task. Right if armed implies the robot is ours and
  the boards have answered, and the two Pi sessions exclude each other.
* **ROS link** (`pi/pi_link.cc`). State: Standalone, Monitor, Slave; heartbeat; the
  host pin. Right if a silent or departing host always gets the robot back to
  its local users.
* **WASM skills** (`wasm/wasm_sandbox.cc`, `sdk/wasm_host_functions.cc`,
  `network/http_server.cc:327-447`). State: `s_skill_running`, `s_running`,
  `s_cancelled`, the tick loop, the gains a run has changed. Right if there is one
  run at a time, a stop reaches the run it was meant for, and a run leaves no
  lock, overlay or gain behind.
* **Scripts and the permission prompt** (`lua/lua_vm.cc`, `lua/lua_bindings.cc`,
  `network/chat_ws.cc:2087-2143`). State: `s_run_lock` (10 s wait), the deadline, one
  pending question (`s_perm_action_id`, `s_perm_approved`, a binary semaphore, 60 s).
  Scripts and skills ask; the HTTP task, which also runs scripts, takes the
  answers. Right if an answer decides the question it was given to and no later
  one, and the user's time is not counted as the script's.
* **Chat and agent** (`network/chat_ws.cc`, `agent/`). A reply queue, a client list and
  a language model's turns.
* **Marketplace proxy** (`network/marketplace_proxy.cc`). Three permits, a four-slot
  15 s cache.
* **WiFi, audio, music, voice, display, IMU, filesystem, PWA**: drivers, media and
  clients around the above.
* **Kinematics and move tables** (`robot/stanford_*.cc`, `alive.c`, `*_tables.h`):
  floating point; not a subject for TLC.

## 2. Plan

In the order of what an error would do to the robot.

1. `MotionCore`: who may move the legs. *Done, with proofs.*
2. `ExclusiveBus`, `MotionHandover`: the promise, the timing it needs, the
   refinement, the handovers. *Done, refinement proved.*
3. `GaitCommand`: the command word. *Done, safety proved.*
4. `PiControl`, `PiSessions`: who of the Pi has the robot, and `rl_link` and `pi_link`, which
   implement it; `MotionCore`'s Pi implements it too. *Done, refinement and safety
   proved.*
5. `BoardFrames`, `DriverBoard`: the wire, and the driver on it: frames, config
   exchanges, the caches, the muting. *Done, safety proved.*
6. `ServoPower`: the state machine inside `flush()`, run by several tasks, over
   `BoardFrames`. *Done, types and soft start proved.*
7. `SkillRun`: the run guard, cancellation, the watchdog, saved gains, with the gains
   `host::begin` and a stunt save. *Done, safety proved for any number of runs.*
8. `ScriptPrompts`: the run lock, deadlines and the permission round trip, of scripts and
   of the skills they run. *Done, safety proved.*
9. Open: the chat's reply queue and client list; the speaker's arbitration.

`DriverBoard` and `ServoPower` both step the wire with `BoardFrames`' operators, so they
agree on what a frame does to a board's next reply by construction, and no property
says so. `PiSessions` implements
`PiControl` and so does the Pi of `MotionCore`: the two modules meet in what begins
and ends the Pi's hold on the robot. `MotionCore` takes
`flush()` as four steps and leaves out its frames; `ServoPower` has the frames and takes
from `MotionCore` when a flush may run. `MotionCore` has the interleavings inside
`servo_lock()`, `SkillRun` the run around it.

Every safety invariant and action property of a passing run is now a theorem, and so
are the three refinements (`ExclusiveBus`, and `PiControl` twice). What is left to proofs
is the steps a liveness argument rests on (what a wait may not undo). The modules are
written for it: parameters are sets, one action per step of the code, invariants are
conjunctions of named parts, and there is no RECURSIVE operator.

## 3. The modules

### MotionCore

One variable per shared word (`owner`, `master`, `host`, `cmd`, `busy`, `running`,
`stop`), a program counter and a return place per task (`pc`, `ret`), and one for the
Pi (`pi`): one place is enough, because `rl_link.cc` and `pi_link.cc` take the robot in
turns (`PiControl`). Each read of a shared word that decides
something, and each store, is an action: `StudioFence`, `StudioTest`,
`StudioWrite` and `Settle` are `set_studio_mode(true)`. `flush()` is four: the fence,
the count, the ownership test, the frames. A return goes to `ret[t]`, so a skill's
end (`EndTest` ... `ReleaseTest`) calls the same `servo_lock` and `servo_unlock` as the
skill did.

Two history variables make the properties exact. `intruded`: a local store to
`s_bus_owner` or `s_gait_cmd` landed in the present Pi session (its caller had
passed its test before). `late`: one of the three waits (50 ms, 50 ms, 100 ticks)
ended while a frame it waits for was on its way.

Abstracted: what a frame says, which gait a command names ("local" or "master" is
what matters), overlays, gains and the power state. The gait task's `flush()`
skips the fence as the code does (`in_gait_task()`).

### MotionHandover and ExclusiveBus

`TimelySpec` is MotionCore where nobody is caught between a test and its store when
the Pi stores, and the waits are long enough (`Timely`), with fairness.
`ExclusiveBus` is what `robot.h` promises: one grant at a time, frames under the
gait's grant only, and a change of grant only when no frame is on its way.
`Grant` maps one to the other: a new holder's grant begins when its wait is over.

Fairness: FreeRTOS runs every task (equal priorities are time-sliced and every
loop here blocks), so each task and the Pi's calls in progress are weakly fair.
A skill that was asked to stop returns: delays, the tick loop and host calls end
on the flag, and the watchdog terminates the rest. The skill's own steps are
strongly fair because `Timely` disables its 50 ms, which end by the clock, again
and again while frames pass. Nothing is assumed about new calls, new sessions or
the end of a session.

### GaitCommand

The word between its callers and the gait task. The moves are four classes by the
way they end: `Holds` (until the word changes), `OneShots` (store None at the end),
`Finishers` (`finish(cmd)`: None only if still theirs) and the walk and the look pad,
which read more state. The test and the store of `finish`, of `joy_input` and of each
fenced entry point are steps of their own. Velocities are where they come from:
the Pi, the pads, in place, or forward. History variables say what the last
request was (`last`), whether one has landed since the gait task last looked
(`unseen`), whether it was cleared unplayed (`lost`), and who started the walk.

Time limits (600 ms for the pads, 500 ms for the Pi's velocity) are actions that
may happen at any time.

Fairness: the gait task is weakly fair, every move has an end, and a caller that
has begun finishes. Callers owe no new calls.

### PiControl and PiSessions

`PiControl` is what `main/pi` promises `main/robot`: nobody, the bridge or a policy has
the robot, it changes hands by way of nobody, and `s_master` and `s_host` show who has it
(a policy is `coming` between the two stores of `host::begin()` and `going` between those
of `host::end()`). `PiSessions` is the code that has to keep the promise.

`rl_link.cc` and `pi_link.cc` as two program counters over one set of words. The link
task (`lp`) reads ROS bytes, then RL frames one by one, then runs `update_state()`;
the tick task (`tp`) begins, drives and ends a policy's session. A section under
`s_mux` is one action (`Apply`, `EndDecide`, `TickSnapshot`, `Guard`); each read or store
outside it is one too: the two reads of `session_active()` (`ReadWant`,
`ReadSession`), the store of `s_state` and the fence (`EnterSlave`), the tests and stores
of `host::begin()` and `host::end()`. `wait_robot()` may return whether or not the
session is ready, since it gives up after 1.5 s.

Abstracted: frames are the request or the flags they carry; the three latched fault
bits are one, the guard's counters a choice, elapsed times the three flags `hb`,
`quiet` and `silent`, which time may set at any moment (`APP_PI_LINK_TIMEOUT_MS`,
`APP_RL_RELEASE_MS` and `APP_RL_WATCHDOG_MS` are configured independently).
`APP_PI_LINK_REQUIRE_HOST_PIN` is on, its default. `s_pin_low_count` stops at
`PinLowSamples` (the code counts on to 1000 and only compares with the former).

`OneControlPoint` is `Control!Spec`, under `ControlOf`, which reads who has the robot off
the two words and the two tasks' places; `MotionCore` has the same property for its own
Pi, with who has the robot read off `pi`. `OneHolder` also shows
that the begin of a session can never find the bridge in control: the branch of
`begin_session()` for it is dead, because `note_frame()` sets `s_want` in the task that
would have to let the bridge in.

Fairness: both tasks. The link task's reads time out after 10 ms, `wait_robot()` after
1.5 s, and the tick's timer is never stopped. Frames, heartbeats and the pin owe
nothing, so every liveness property says what it needs of them.

### BoardFrames and DriverBoard

`BoardFrames` is the wire as the rest of the firmware meets it: which boards are
plugged in, what the next transaction with each clocks out (`junk`, a `servo`
reply, the `echo` that follows a config exchange, a `config` reply), and which boards
leave their servos limp. A servo frame reads the reply to the one before and
makes the board build the next.

`DriverBoard` is `driver_board.c` over boards that follow the comments it gives of the
AT32 firmware (those definitions are marked external). A board is `absent`, `well`, or
`flaky`: it may take a config request late (`inbox`, `LateTake`), not at all, or fail the
transaction; any board may be unplugged, which resets it, or plugged in at any
step. The public operations that send one pass of frames under the mutex are one
action each; `cfg_request()` is a request (`CfgAsk`) and then a step per NOP, so that
boards answer, come and go between its tries, while the mutex keeps the other
operations out (`LockFree`). The shadow is a mode and whether gains of its own ride
along; positions and currents are what they were read from. `s_cfg_fails` is
capped at `CfgFailsToMute`, with which alone it is compared (the code stops at 255).
`due` is the 5 s since the last probe.

Fairness: the operation that holds the mutex goes on (its tries are counted and
its waits are busy delays) and time passes. `MutedHeals` asks the rest of its
environment: a board that stays plugged in and well, and is asked.

### ServoPower

`flush()` from its entry to its frame as six steps (`Enter`, `Decide`, `ReadPresent` per IDLE
pass, `Emit`, `SendIdle`, `SendPose`), for every task that calls it; `read_present()` sleeps
between its passes and the 5 ms pacing sleeps too, so another task's flush can be
anywhere. `Decide` is one step: it is a few microseconds with no call that blocks.
Around it `rest_now()`, `wake_servos()`, moving goals, a skill's run, the bridge, a
local owner of the bus that writes single servos, and the RL host, whose end asks
for a wake from rest. `MotionCore` says who may own the bus while a flush is on its
way; here an owner begins when none is (`Owns`). Boards are plugged in or not from
the start.

`older` is a history variable, the flushes that were under way when the present
glide began. Time: frames follow each other within tens of milliseconds and a
glide takes over a second, so it does not end (`GlideTime`) before the flushes it
overtook. Two properties say what a soft start is. `GlidesFirst` is about decisions:
no flush makes up its mind to send a bare goal while a leg is limp. `SoftStart` is
about frames, and needs `SentAtOnce` besides: `flush()` reads `s_ps` and sends its frame
later, and another task's flush may have lowered the robot and begun to wake it in
between. `TimelySpec` is `Spec` where that takes longer than a task is held up
between the two. `byHand` are boards a local owner left limp by a direct write: leaving
Servo Studio is not a wake, and no glide is promised for them. `RequestsHeard` lets
those who drive the robot be spared a rest, and excuses a request only while a flush
that has looked at the flags is still to drop them (`Dropping`).

Fairness: the gait task flushes in every pass of its loop, except the idle robot of
a running skill; a flush that has begun is finished; a glide's time passes.

### SkillRun

One run from `start_skill_async()` (test and store of `s_skill_running` apart) through
the load, the setup, `on_start()`, the tick loop, `on_stop()`, the gains and the teardown
to the end of its task. The thread's steps are actions; between any two of them
come stops (each a test and a store apart), the watchdog, Servo Studio, both kinds
of Pi session and a stunt that pushes a gain preset of its own. `deaf` are runs whose
present call (`on_start()`, `on_tick()` or `on_stop()`) neither heeds the flag nor ends;
`terminated` those whose present call the watchdog has ended. It does that once, so a
later call may be deaf for good (`HangsInStop`). The servos' gains are one value named for
who wrote it: `own`, `skill`, `stunt`, `policy`; `before`, `stuntGains` and `hostGains` are the
three places that save them.

Any number of tasks may start skills, with the guard (`Callers`) or without (`Direct`,
Lua's `wasm.run`), and the safety properties are stated for runs at once. `asked` is
the history of runs that were there when a stop was asked for, until a run's end
clears `s_cancelled`. `first` and `crossed` are the history of saved gains: who saved
first, and whether a note was forgotten (a run's end was refused the bus, another run's
setup came) or the first saver put its gains back under a later one. Notes that nest
properly lose nothing, and `GainsReturn` holds for them; what the code does otherwise is
in section 6.

Fairness: the run's own steps, and its watchdog. A call that was told to stop and
heeds it, or that was terminated, returns; nothing else is assumed of the skill's
code, `on_stop()` included. A module loads within its budget (30 s or more).

### ScriptPrompts

`run_chunk()` (lock, run, end), `request_permission()` as four steps (`Ask` under the mutex,
`Show`, the wait, `Read`), the WebSocket handler, and a skill's thread as far as it asks.
The app answers a question that is on its screen once (`Answer`); the answer travels
(`inbox`) and is handled when the HTTP task is not busy with a script of its own
(`HandleAnswer`), by which time the question may have timed out. A task's time is `due`:
past its limit by its own running (`yes`) or only by the user's (`user`), which is what
the extension gives back. A script may run a skill (`RunSkill`) and waits for it with
the lock held and its deadline running; the time the user takes to answer that skill
is the script's `skill`, which nothing gives back (`NestedIsFair`, section 6). `s_perm_allow_writes` is off: when on, nothing of this
state changes. Ids are used again once nobody knows them.

Fairness: a task that waits is woken by the semaphore or the 60 s, one that has the
lock runs, and a script whose time is up is stopped by the count hook. The last
two are strongly fair, because a script may ask again and again and runs only
between its questions. A skill's watchdog fires, and then the skill ends or hangs
in its `on_stop()`: `ScriptsEnd` excepts the script that waits for a hung one.

## 4. The runs

| run | shows | bounds |
|---|---|---|
| `motion_core` | the safety properties, all interleavings | one gait task, one console, one skill, one Pi: every pair of actors and every call nested in another; 861,145 states |
| `motion_handover` | refinement of `ExclusiveBus`; a handover to the Pi arrives; a stopped skill leaves | same |
| `gait_command` | no move inherits a turned head or a walk's velocity; finishers keep other commands; the last request is served; a stop stops; a silent Pi means stepping in place | one caller, one move per class; a second caller adds only one more position between test and store |
| `pi_sessions` | the bridge and a policy take turns (`PiControl`) and exclude each other, arming is inside a session, the hold and the watchdog; the robot comes back, frames and bridge are served | `PinLowSamples` = 2, so staying is possible at a low line and so is leaving (3 in the firmware); 372,632 states |
| `driver_board` | what a policy is told is feedback; a config answer is the request's; HOLD replays no torque; a muted board comes back | one board, one servo, two operations on two parameters, two tries, muted after two failures: an older reply for the same and for another parameter, a late and a missed request, unplugging at each step; boards share only the mutex; 135,570 states |
| `servo_power` | glides come before bare goals; motion wakes; requests to rest and wake are heard | one board, two flushing tasks, two IDLE passes: one flush at any place while the other runs whole ones; 254,016 states |
| `skill_run` | stops stick, nothing is left, gains return, a run ends unless its `on_stop()` hangs | one caller, so runs follow one another (two at once are beyond TLC's five minutes, and are the theorems'); stops from the app and the Pi, Studio, both Pi sessions, one stunt; 863,896 states |
| `script_prompts` | one script at a time, answers decide their own question, deadlines are fair to a script that asks, scripts end | the HTTP task and a worker run scripts, one skill, alone or run by a script, two ids: one question open and one forgotten or competing; 120,864 states |
| `gait_pads`, `pi_fault`, `power_glide`, `prompt_watchdog` | where a comment or a document promises more than the code does (section 6) | same |

No counter grows in these models (`low`, `syncs` and `fails` stop where the code stops
looking at them), so nothing is cut off. Two consoles do not occur in the firmware (one
httpd task); two skills do, as section 6 says. The theorems hold for any number.

Each property of a passing run is broken by a mutant, a plausible slip in the code
kept next to the definition it replaces (`X_Something` before `X`).

Some properties leave out, by a history variable, the very window in which the
code goes wrong, and hold because of it: `HostHoldsBus`, `HostAlone` and
`MasterOwnsMotion` a local store caught past the fence (`intruded`), `FinishersKeep` a store
between the test and the clearing in `finish()`, `AnswerIsOurs` a request the board never
took, `GainsReturn` gains that were forgotten or put back out of order (`crossed`),
`AnswerDecides` questions of two tasks at once (`alone`). What they show is that
nothing else goes wrong; what happens in the window is in section 6.

## 5. What is proved

`MotionCoreProofs` proves, for any sets of consoles and skills, with
`TasksAssumption` (the kinds of task are disjoint) only:

* `TypeCorrect`: `Spec => []TypeOK`, by itself: every action keeps it.
* `Invariant`: `Spec => []Inv`. The five safety properties are not inductive. `Inv`
  adds `PiFlags` (which of `s_master` and `s_host` are up at each place of the Pi's
  calls), `Counted` (`s_flush_busy` counts exactly the flushes between their raise
  and their last frame, which is what the host's wait relies on), `BridgeBus` (the
  state between two stores of `master::begin`) and `LastReturn` (the run's last call
  is `servo_unlock`, which is why the lock dies with it). The proof takes the
  local tasks' steps in four groups, by which of the parts they can disturb, and
  the Pi's in a fifth.
* `HostKeepsTheBus`, `NoFrameUnderHost`, `NoFrameUnderLocalOwner`, `BridgeOwnsMotion`,
  `NoOrphanLock`: the five properties, from it.
* `PiTakesTurns`: the module's Pi implements `PiControl`. Local steps leave the fence and
  the Pi's place alone; `PiFlags` says what the flags show at each of its places.

`MotionHandoverProofs` proves, under `TimelySpec` (no store of the Pi while a local task is
between its test and its write, and no wait too short) and nothing of its fairness:

* `TimelyInvariant`. `Inv` alone leaves room for a call caught in between. `TimelyInv`
  adds what such calls would break: `PastFence` (in a Pi session nobody is past the
  fence), `HostOwns` (the host's bus is the host's and nobody is about to free it) and
  `HostStill` (no frame is on its way once `host::begin()` is through its wait). Each
  local step is one of a few kinds (`Kind`): a task goes somewhere, and the owner changes
  only at the three places that write it.
* `ImplementsBus`: `TimelySpec => BusIsExclusive`, the refinement of `ExclusiveBus`. A
  step that moves the grant finds no frame on its way: for Studio and a skill by
  `LocalOwnerAlone`, for the host by `HostStill`; a task that starts a frame finds
  the grant the gait's.
* `SilentUnderHost`: `FlushSilentUnderHost`, which section 6 shows to fail without the
  timing: with it the promise of `robot.h` is kept.

`GaitCommandProofs` proves, for any moves of each class (`MovesAssumption`) and any
callers, `CommandTypes`, `NothingIsInherited` and `FinishersAreCareful`. The types alone are
not inductive: a caller carries a command or a stick's position to its store in the same
variable, so `IInv` adds `ArgsKnown` (which of the two it is at each place of a call). The
action property needs `FinishSaw`: between the two steps of `finish(cmd)` the word
is still the command it found there, or a request has landed since.

`ServoPowerProofs` proves, for any boards, any tasks that flush and any number of IDLE
passes (`FlushersAssumption`), `PowerTypes`, `GlidesComeFirst` and `StartsAreSoft`. What may
go wrong is a matter of flushes that started before something changed. `IInv` says
what each may still do: `QuietOwner` (no flush is under way while the bus has another
owner), `OldestRun` (a flush that a glide overtook is still running, so the history is
exact), `NewComers` (a flush younger than the glide never sends the boards to idle)
and `HeldLegs` (when a glide is over no leg is limp and no overtaken flush is left).
`StartsAreSoft` is proved of `TimelySpec`, with `Writing`: while a flush is between its
decision and its bare frame no leg is limp, which only another flush's IDLE pass could
change.

`PiSessionsProofs` proves, for any `PinLowSamples` above zero (`PinAssumption`), four
safety properties, an action property and a refinement: `TypeCorrect`, `NeverBoth`,
`BeginIsNeverRefused`, `ArmedOnlyInSession`, `HoldEndsForGood`, `OneAtATime`. `OneHolder` is not
inductive: each task tests the other's words and acts later. The invariant `IInv`
adds what may still be relied on at the later point: `LinkInv` (between the two reads
of `session_active()` the link task knows `s_want` is false, as only it sets the word),
`TickInv` (while a session begins `s_want` is still set, as only its end clears it),
`FlagsInv` (`s_robot` and `s_host` follow the session, `s_ready` is the second exchange)
and `ArmInv`. One step per action of each task. The refinement of `PiControl` follows from
the same invariant before and after a step: each store to a flag is one turn (`Turn`), and
no other step changes who has the robot.

`DriverBoardProofs` proves, for any boards, servos, operations, parameters, tries and
limit (`BoardAssumption`): `BoardTypes`, `RawReports`, `AnswersAreOurs` and `HoldsAreSoft`. `RawIsFeedback` needs `SkipInv` (while `raw_skip`
is down the board's next reply is neither a config reply nor its echo, and no
late request waits to make one), `AnswerIsOurs` needs `XchgInv` (during an exchange a
late request is that exchange's, and so is the reply once the board took it).

`SkillRunProofs` proves `RunTypes`, `StopsStick`, `NothingIsLeft` and `GainsComeBack` for any
tasks that start skills, however many of their runs are there at once. The invariant
has a part for each: `StopInv` (a stop that was asked for is in `s_cancelled`, whosever
setup has been), `LeftInv` (whatever is up belongs to some run that has yet to take it
down) and `GainInv` (unless notes have crossed, either nobody has one and the boards
hold the walk's gains, or whoever saved first has them).

`ScriptPromptsProofs` proves, for any set of tasks and ids, `PromptTypes`, `OneScriptRuns`,
`AnswersDecide` and `DeadlinesAreFair`. `ByInv` says which scripts wait for which skills. `AnswerDecides` rests on what is known of a
question from `Ask` on: while it is open alone its id is the pending one, the
semaphore is up only if an answer with that id was handled, and such an answer was
given to this question.

Only model-checked: the liveness properties (`HostArrives`, `StoppedSkillLeaves`,
`LastIsServed`, `StopStops`, `SilentPiSteps`, `PolicySilenceDisarms`, `RobotComesBack`,
`FrameGetsSession`, `BridgeArrives`, `MutedHeals`, `MotionWakes`, `RequestsHeard`, `RunsEnd`,
`ScriptsEnd`). The prover has no rules for fairness or ENABLED, so they stay with TLC for
good. Induction over data and RECURSIVE operators are out of its reach too; nothing here
needs them. The types of `GaitCommand`, `MotionCore`, `PiSessions`, `SkillRun` and
`ScriptPrompts` are theorems and no run repeats them.

## 6. Where the code and its documents differ

Standing runs show the first four; TLC finds each counterexample.

1. `gait_pads`. A pad's walk overwritten before the gait task sees it leaves
   `s_js_active` set, and a later button walk steps in place.
2. `pi_fault`. `pi/RL_LINK.md:70` says faults latch until a `SET_ALL` with CLEAR. The end
   of a session forgets them too: a policy silent for 2 s after a trip arms again
   without one.
3. `power_glide`. The soft start reads where the legs are from the first frame that
   `fb_frame_valid()` passes. After a config exchange, which precedes it at boot (the
   range probe) and at the end of a policy's session (the gains), that frame's first
   channel is the echo of a parameter (`driver_board.c:170`); `sync_raw` drops such a
   frame, `read_present()` does not.
4. `prompt_watchdog`. `wasm/wasm_sandbox.h:98` says the time of a permission prompt is
   added back to a skill's budget. It is added after the prompt, while the watchdog
   counts on during it: a prompt that outlasts the rest of the budget ends the skill.

The others are stated as properties in their modules and belong to no run: TLC
refutes them when they are added to the run of their module.

5. `FlushSilentUnderHost` (`MotionCore`). `robot.h:788` says the raw host parks the gait
   "and flush() writes nothing while it holds them". A `set_studio_mode`, `servo_lock` or
   `servo_unlock` preempted between its test and its store overwrites `BUS_HOST`.
   Without such a call it holds (`SilentUnderHost`).
6. `StudioKeepsBus` (`MotionCore`). `robot.cc:233` says the two owners "must not steal from
   each other". `servo_unlock` frees whatever the word has become since its test.
7. `SweepMoves` (`MotionCore`). The diagnostic sweep turns Studio mode on, which makes its
   own `flush()` return: the servo does not move. Its end also ends the Studio mode of
   a person who had it on.
8. `InterruptIsPlayed` (`GaitCommand`). Roll, Pitch and Stretch break off for a new command
   and then clear it; `robot.h:299` says the gait task picks it up.
9. `WalkKeepsTuning` (`SkillRun`). `pi/RL_LINK.md:81` says the gains are saved when a session
   takes the robot and written back when it ends, "so the walk keeps its own tuning".
   `host::begin()` saves what the boards hold then (`robot.cc:2065`), which may be a
   running skill's or a stunt's, and writes that back after the skill has put its
   own back.
10. `SoftStart` (`ServoPower`). `robot.cc:1510` has every start from limp legs glide. A
   flush that has decided on a bare goal, while the power was on, may be held up for
   as long as another task's flushes take to lower the robot and to begin a wake: its
   frame comes between two IDLE passes. With `SentAtOnce` it holds (`StartsAreSoft`).
11. `NeverInUse` (`ServoPower`). `robot.cc:1529` says of REST "Never while the Pi drives the
   robot (ROS owns the stance), a skill runs, or Servo Studio holds the bus". That is
   so of the idle time; `rest_now()` is obeyed while a skill or the Pi drives, and the
   next flush wakes the robot again.
12. `NestedIsFair` (`ScriptPrompts`). `lua_bindings.cc:718` says of the permission prompt that it
   "is not the script running, so it does not count against the script's deadline". A
   prompt of the skill a script runs with `wasm.run` (`lua_bindings.cc:606`) is given
   back to the skill's watchdog only: the script is timed out when the skill returns.

Behaviour no document rules out, which the properties leave room for:

* `start_skill_async()` tests `s_skill_running` ("single WASM instance") and sets it a few
  instructions later; the HTTP task, the voice tools and the agent call it, and Lua's
  `wasm.run` does not look at it. With two runs the end of one, by itself, by a stop or
  by its watchdog, clears `s_cancelled` for the other, which then goes on until its own
  watchdog fires; one's setup forgets the gains the other has saved, which stay in the
  boards; one's teardown takes the other's lock, claim and tick period.
  `s_watchdog_extra_ms` is one word too: the time of a prompt goes to whichever
  watchdog polls first (the model gives it to the one that asked).
* The watchdog terminates one call. A skill that times out and then loops in its
  `on_stop()` never ends: `s_skill_running` stays set until a reboot, and so does the run
  lock if a script waits for it.
* A stop that comes between the end of `load_and_run()` and the end of its task finds
  `s_skill_running` set and leaves `s_cancelled` up: the next skill is cancelled as it
  starts.
* The Pi asks `s_running`, which a skill sets after it is loaded: one being loaded is
  not asked to stop. It cannot take the bus, by the fence.
* A stunt that outlasts the skill under it puts the skill's gains back after the skill
  has put its own back: they stay.
* A rest asked for during a glide is dropped, and so is any request that lands after
  a flush has looked at the flags and before it drops them.
* Leaving Servo Studio with limp legs sends a bare goal.
* A config request the board never took may be answered by the late reply to an
  earlier one for the same parameter.
* A command stored between the test and the clearing in `finish()` is lost.
* Two tasks that ask the user at once share one id and one semaphore: the first loses
  its question, and may read the other's answer.

## 7. Not modelled

Kinematics, move tables, signal processing, rendering, codecs and ciphers:
continuous or pure data. The IDF's drivers, WAMR, Lua and the HTTP server library:
external. WiFi, media and the clients: see `PROJECT.json`, which lists every component
with its reason, and every hazard with the property that covers it or why none
does yet.
