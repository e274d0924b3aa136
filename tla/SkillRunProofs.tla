--------------------------- MODULE SkillRunProofs ---------------------------
(***************************************************************************)
(* A stop that was asked for is not forgotten before a run has ended, the  *)
(* last run leaves nothing behind, and saved gains come back: for any      *)
(* number of tasks that start skills, with the guard of                    *)
(* start_skill_async() or, as Lua's wasm.run, without.                     *)
(***************************************************************************)
EXTENDS SkillRun, TLAPS

\* Where a run may have something up, and where its code may run.
Inner  == {"start", "tick", "on_tick", "on_stop", "gains", "undo", "release"}
Ticks  == {"start", "tick", "on_tick"}
Undoes == Inner \ {"release"}

\* While a stop is remembered against any run, s_cancelled is up.
StopInv == asked # {} => cancelled

\* Whatever is up belongs to some run that has yet to take it down.
LeftInv ==
    /\ running => \E r \in Runs : at[r] \in Ticks
    /\ owner = "skill" \/ claim \/ period => \E r \in Runs : at[r] \in Inner
    /\ before # "none" => \E r \in Runs : at[r] \in Undoes

\* Unless gains were forgotten or put back in the wrong order, whoever saved
\* first has the servos' own, and they are back when nobody has any saved.
GainInv ==
    /\ pi = "host" <=> hostGains # "none"
    /\ stunt # "out" <=> stuntGains # "none"
    /\ crossed \/ (Quiet /\ board = "own")
               \/ (first = "skill" /\ before = "own")
               \/ (first = "host" /\ hostGains = "own")
               \/ (first = "stunt" /\ stuntGains = "own")

\* TypeOK, apart: the flags are Zenon's, the rest is the SMT solver's.
Bits ==
    /\ guard \in BOOLEAN /\ cancelled \in BOOLEAN /\ tickStop \in BOOLEAN /\ stopping \in BOOLEAN
    /\ running \in BOOLEAN /\ period \in BOOLEAN /\ claim \in BOOLEAN /\ crossed \in BOOLEAN
Sorts ==
    /\ at \in [Runs -> Places]
    /\ deaf \subseteq {r \in Runs : InCode(r)} /\ terminated \subseteq {r \in Runs : InCode(r)}
    /\ fired \subseteq Runs /\ asked \subseteq Runs
    /\ owner \in {"free", "skill", "studio", "host"}
    /\ pi \in {"out", "fenced", "freed", "asked", "host", "ros"}
    /\ saw \subseteq Stoppers
    /\ board \in {"own", "skill", "stunt", "policy"}
    /\ before \in {"own", "skill", "stunt", "policy", "none"}
    /\ hostGains \in {"own", "skill", "stunt", "policy", "none"}
    /\ stuntGains \in {"own", "skill", "stunt", "policy", "none"}
    /\ stunt \in {"out", "read", "up"}
    /\ first \in {"none", "skill", "host", "stunt"}

IInv == Bits /\ Sorts /\ StopInv /\ LeftInv /\ GainInv

\* The two parts are TypeOK.
LEMMA TypeParts == Bits /\ Sorts => TypeOK
  BY DEF Bits, Sorts, TypeOK, Gains, Saved

\* The initial state satisfies the invariant.
LEMMA InitIInv == Init => IInv
<1>1. Init => Bits
  BY Zenon DEF Init, Bits
<1>2. Init => Sorts /\ StopInv /\ LeftInv /\ GainInv
  BY DEF Init, Sorts, Places, InCode, StopInv, LeftInv, GainInv, Quiet, Up, SavedBy
<1>. QED
  BY <1>1, <1>2 DEF IInv

\* A request finds no skill running.
LEMMA TestGuardKeeps == ASSUME IInv, NEW r \in Runs, TestGuard(r) PROVE IInv'
<1>. USE DEF IInv, TestGuard, flags, run, gains, others
<1>1. Bits'
  BY Zenon DEF Bits
<1>2. Sorts'
  BY DEF Sorts, Places, Goto, From, InCode
<1>3. StopInv'
  BY DEF StopInv
<1>4. LeftInv'
  BY DEF LeftInv, Inner, Ticks, Undoes, Sorts, Goto, From
<1>5. GainInv'
  BY DEF GainInv, Quiet, Up, SavedBy
<1>. QED
  BY <1>1, <1>2, <1>3, <1>4, <1>5

\* The run's task is created, or not.
LEMMA LaunchKeeps == ASSUME IInv, NEW r \in Runs, Launch(r) PROVE IInv'
<1>. USE DEF IInv, Launch, flags, run, gains, others
<1>1. Bits'
  BY Zenon DEF Bits
<1>2. Sorts'
  BY DEF Sorts, Places, Goto, From, InCode
<1>3. StopInv'
  BY DEF StopInv
<1>4. LeftInv'
  BY DEF LeftInv, Inner, Ticks, Undoes, Sorts, Goto, From
<1>5. GainInv'
  BY DEF GainInv, Quiet, Up, SavedBy
<1>. QED
  BY <1>1, <1>2, <1>3, <1>4, <1>5

\* Its thread begins.
LEMMA LoadAndRunKeeps == ASSUME IInv, NEW r \in Runs, LoadAndRun(r) PROVE IInv'
<1>. USE DEF IInv, LoadAndRun, flags, run, gains, others
<1>1. Bits'
  BY Zenon DEF Bits
<1>2. Sorts'
  BY DEF Sorts, Places, Goto, From, InCode
<1>3. StopInv'
  BY DEF StopInv
<1>4. LeftInv'
  BY DEF LeftInv, Inner, Ticks, Undoes, Sorts, Goto, From
<1>5. GainInv'
  BY DEF GainInv, Quiet, Up, SavedBy
<1>. QED
  BY <1>1, <1>2, <1>3, <1>4, <1>5

\* The module does not load.
LEMMA LoadFailsKeeps == ASSUME IInv, NEW r \in Runs, LoadFails(r) PROVE IInv'
<1>. USE DEF IInv, LoadFails, flags, run, gains, others
<1>1. Bits'
  BY Zenon DEF Bits
<1>2. Sorts'
  BY DEF Sorts, Places, Goto, From, InCode
<1>3. StopInv'
  BY DEF StopInv
<1>4. LeftInv'
  BY DEF LeftInv, Inner, Ticks, Undoes, Sorts, Goto, From
<1>5. GainInv'
  BY DEF GainInv, Quiet, Up, SavedBy
<1>. QED
  BY <1>1, <1>2, <1>3, <1>4, <1>5

\* The per-run setup.
LEMMA SetupKeeps == ASSUME IInv, NEW r \in Runs, NEW env \in BOOLEAN, Setup(r, env) PROVE IInv'
<1>. USE DEF IInv, Setup, flags, run, gains, others
<1>1. Bits'
  BY Zenon DEF Bits, Forgets
<1>2. Sorts'
  BY DEF Sorts, Places, Goto, From, InCode, Forgets
<1>3. StopInv'
  BY DEF StopInv
<1>4. LeftInv'
  BY DEF LeftInv, Inner, Ticks, Undoes, Sorts, Goto, From
<1>5. GainInv'
  BY DEF GainInv, Quiet, Up, SavedBy, Sorts, Forgets
<1>. QED
  BY <1>1, <1>2, <1>3, <1>4, <1>5

\* Host calls.
LEMMA ServoLockKeeps == ASSUME IInv, NEW r \in Runs, ServoLock(r) PROVE IInv'
<1>. USE DEF IInv, ServoLock, flags, run, gains, others, MayCall, InCode, Fence
<1>1. Bits'
  BY Zenon DEF Bits
<1>2. Sorts'
  BY DEF Sorts, InCode
<1>3. StopInv'
  BY DEF StopInv
<1>4. LeftInv'
  BY DEF LeftInv, Inner, Ticks, Undoes
<1>5. GainInv'
  BY DEF GainInv, Quiet, Up, SavedBy
<1>. QED
  BY <1>1, <1>2, <1>3, <1>4, <1>5

LEMMA ServoUnlockKeeps == ASSUME IInv, NEW r \in Runs, ServoUnlock(r) PROVE IInv'
<1>. USE DEF IInv, ServoUnlock, flags, run, gains, others, MayCall, InCode
<1>1. Bits'
  BY Zenon DEF Bits
<1>2. Sorts'
  BY DEF Sorts, InCode
<1>3. StopInv'
  BY DEF StopInv
<1>4. LeftInv'
  BY DEF LeftInv, Inner, Ticks, Undoes
<1>5. GainInv'
  BY DEF GainInv, Quiet, Up, SavedBy
<1>. QED
  BY <1>1, <1>2, <1>3, <1>4, <1>5

LEMMA SetGainKeeps == ASSUME IInv, NEW r \in Runs, SetGain(r) PROVE IInv'
<1>. USE DEF IInv, SetGain, flags, run, gains, others, MayCall, InCode, Remembered
<1>1. Bits'
  BY Zenon DEF Bits, Saves
<1>2. Sorts'
  BY DEF Sorts, InCode, Saves
<1>3. StopInv'
  BY DEF StopInv
<1>4. LeftInv'
  BY DEF LeftInv, Inner, Ticks, Undoes
<1>5. GainInv'
  BY DEF GainInv, Quiet, Up, SavedBy, Sorts, Saves
<1>. QED
  BY <1>1, <1>2, <1>3, <1>4, <1>5

LEMMA ControlTakeKeeps == ASSUME IInv, NEW r \in Runs, ControlTake(r) PROVE IInv'
<1>. USE DEF IInv, ControlTake, flags, run, gains, others, MayCall, InCode
<1>1. Bits'
  BY Zenon DEF Bits
<1>2. Sorts'
  BY DEF Sorts, InCode
<1>3. StopInv'
  BY DEF StopInv
<1>4. LeftInv'
  BY DEF LeftInv, Inner, Ticks, Undoes
<1>5. GainInv'
  BY DEF GainInv, Quiet, Up, SavedBy
<1>. QED
  BY <1>1, <1>2, <1>3, <1>4, <1>5

LEMMA UncancelledKeeps == ASSUME IInv, NEW r \in Runs, Uncancelled(r) PROVE IInv'
<1>. USE DEF IInv, Uncancelled, flags, run, gains, others, MayCall, InCode
<1>1. Bits'
  BY Zenon DEF Bits
<1>2. Sorts'
  BY DEF Sorts, InCode
<1>3. StopInv'
  BY DEF StopInv
<1>4. LeftInv'
  BY DEF LeftInv, Inner, Ticks, Undoes
<1>5. GainInv'
  BY DEF GainInv, Quiet, Up, SavedBy
<1>. QED
  BY <1>1, <1>2, <1>3, <1>4, <1>5

LEMMA GoesDeafKeeps == ASSUME IInv, NEW r \in Runs, GoesDeaf(r) PROVE IInv'
<1>. USE DEF IInv, GoesDeaf, flags, run, gains, others
<1>1. Bits'
  BY Zenon DEF Bits
<1>2. Sorts'
  BY DEF Sorts, InCode
<1>3. StopInv'
  BY DEF StopInv
<1>4. LeftInv'
  BY DEF LeftInv, Inner, Ticks, Undoes
<1>5. GainInv'
  BY DEF GainInv, Quiet, Up, SavedBy
<1>. QED
  BY <1>1, <1>2, <1>3, <1>4, <1>5

\* on_start() returns or traps.
LEMMA OnStartReturnsKeeps == ASSUME IInv, NEW r \in Runs, NEW env \in BOOLEAN, OnStartReturns(r, env) PROVE IInv'
<1>. USE DEF IInv, OnStartReturns, flags, run, gains, others
<1>1. Bits'
  BY Zenon DEF Bits
<1>2. Sorts'
  BY DEF Sorts, Places, Goto, From, InCode, Ended
<1>3. StopInv'
  BY DEF StopInv
<1>4. LeftInv'
  BY DEF LeftInv, Inner, Ticks, Undoes, Sorts, Goto, From
<1>5. GainInv'
  BY DEF GainInv, Quiet, Up, SavedBy
<1>. QED
  BY <1>1, <1>2, <1>3, <1>4, <1>5

\* A tick.
LEMMA TickKeeps == ASSUME IInv, NEW r \in Runs, Tick(r) PROVE IInv'
<1>. USE DEF IInv, Tick, flags, run, gains, others
<1>1. Bits'
  BY Zenon DEF Bits
<1>2. Sorts'
  BY DEF Sorts, Places, Goto, From, InCode
<1>3. StopInv'
  BY DEF StopInv
<1>4. LeftInv'
  BY DEF LeftInv, Inner, Ticks, Undoes, Sorts, Goto, From
<1>5. GainInv'
  BY DEF GainInv, Quiet, Up, SavedBy
<1>. QED
  BY <1>1, <1>2, <1>3, <1>4, <1>5

\* on_tick() returns, or is the last.
LEMMA OnTickReturnsKeeps == ASSUME IInv, NEW r \in Runs, NEW env \in BOOLEAN, OnTickReturns(r, env) PROVE IInv'
<1>. USE DEF IInv, OnTickReturns, flags, run, gains, others
<1>1. Bits'
  BY Zenon DEF Bits
<1>2. Sorts'
  BY DEF Sorts, Places, Goto, From, InCode, Ended
<1>3. StopInv'
  BY DEF StopInv
<1>4. LeftInv'
  BY DEF LeftInv, Inner, Ticks, Undoes, Sorts, Goto, From
<1>5. GainInv'
  BY DEF GainInv, Quiet, Up, SavedBy
<1>. QED
  BY <1>1, <1>2, <1>3, <1>4, <1>5

\* The tick loop ends.
LEMMA LoopEndsKeeps == ASSUME IInv, NEW r \in Runs, LoopEnds(r) PROVE IInv'
<1>. USE DEF IInv, LoopEnds, flags, run, gains, others
<1>1. Bits'
  BY Zenon DEF Bits
<1>2. Sorts'
  BY DEF Sorts, Places, Goto, From, InCode
<1>3. StopInv'
  BY DEF StopInv
<1>4. LeftInv'
  BY DEF LeftInv, Inner, Ticks, Undoes, Sorts, Goto, From
<1>5. GainInv'
  BY DEF GainInv, Quiet, Up, SavedBy
<1>. QED
  BY <1>1, <1>2, <1>3, <1>4, <1>5

\* on_stop() returns.
LEMMA OnStopReturnsKeeps == ASSUME IInv, NEW r \in Runs, OnStopReturns(r) PROVE IInv'
<1>. USE DEF IInv, OnStopReturns, flags, run, gains, others
<1>1. Bits'
  BY Zenon DEF Bits
<1>2. Sorts'
  BY DEF Sorts, Places, Goto, From, InCode, Ended
<1>3. StopInv'
  BY DEF StopInv
<1>4. LeftInv'
  BY DEF LeftInv, Inner, Ticks, Undoes, Sorts, Goto, From
<1>5. GainInv'
  BY DEF GainInv, Quiet, Up, SavedBy
<1>. QED
  BY <1>1, <1>2, <1>3, <1>4, <1>5

\* The gains can be put back, or not.
LEMMA RestoreDecidesKeeps == ASSUME IInv, NEW r \in Runs, RestoreDecides(r) PROVE IInv'
<1>. USE DEF IInv, RestoreDecides, flags, run, gains, others, TakesBus
<1>1. Bits'
  BY Zenon DEF Bits, Forgets
<1>2. Sorts'
  BY DEF Sorts, Places, Goto, From, InCode, Forgets
<1>3. StopInv'
  BY DEF StopInv
<1>4. LeftInv'
  BY DEF LeftInv, Inner, Ticks, Undoes, Sorts, Goto, From
<1>5. GainInv'
  BY DEF GainInv, Quiet, Up, SavedBy, Sorts, Forgets
<1>. QED
  BY <1>1, <1>2, <1>3, <1>4, <1>5

\* They are.
LEMMA RestoreWritesKeeps == ASSUME IInv, NEW r \in Runs, RestoreWrites(r) PROVE IInv'
<1>. USE DEF IInv, RestoreWrites, flags, run, gains, others
<1>1. Bits'
  BY Zenon DEF Bits, PutsBack
<1>2. Sorts'
  BY DEF Sorts, Places, Goto, From, InCode, PutsBack
<1>3. StopInv'
  BY DEF StopInv
<1>4. LeftInv'
  BY DEF LeftInv, Inner, Ticks, Undoes, Sorts, Goto, From
<1>5. GainInv'
  BY DEF GainInv, Quiet, Up, SavedBy, Sorts, PutsBack
<1>. QED
  BY <1>1, <1>2, <1>3, <1>4, <1>5

\* The lock, the claim and the tick go.
LEMMA TeardownKeeps == ASSUME IInv, NEW r \in Runs, Teardown(r) PROVE IInv'
<1>. USE DEF IInv, Teardown, flags, run, gains, others
<1>1. Bits'
  BY Zenon DEF Bits
<1>2. Sorts'
  BY DEF Sorts, Places, Goto, From, InCode
<1>3. StopInv'
  BY DEF StopInv
<1>4. LeftInv'
  BY DEF LeftInv, Inner, Ticks, Undoes, Sorts, Goto, From
<1>5. GainInv'
  BY DEF GainInv, Quiet, Up, SavedBy
<1>. QED
  BY <1>1, <1>2, <1>3, <1>4, <1>5

\* The budget is used up.
LEMMA WatchdogFiresKeeps == ASSUME IInv, NEW r \in Runs, WatchdogFires(r) PROVE IInv'
<1>. USE DEF IInv, WatchdogFires, flags, run, gains, others, InCode
<1>1. Bits'
  BY Zenon DEF Bits
<1>2. Sorts'
  BY DEF Sorts, InCode
<1>3. StopInv'
  BY DEF StopInv
<1>4. LeftInv'
  BY DEF LeftInv, Inner, Ticks, Undoes
<1>5. GainInv'
  BY DEF GainInv, Quiet, Up, SavedBy
<1>. QED
  BY <1>1, <1>2, <1>3, <1>4, <1>5

\* The wait for the thread ends.
LEMMA JoinedKeeps == ASSUME IInv, NEW r \in Runs, Joined(r) PROVE IInv'
<1>. USE DEF IInv, Joined, flags, run, gains, others
<1>1. Bits'
  BY Zenon DEF Bits
<1>2. Sorts'
  BY DEF Sorts, Places, Goto, From, InCode
<1>3. StopInv'
  BY DEF StopInv
<1>4. LeftInv'
  BY DEF LeftInv, Inner, Ticks, Undoes, Sorts, Goto, From
<1>5. GainInv'
  BY DEF GainInv, Quiet, Up, SavedBy
<1>. QED
  BY <1>1, <1>2, <1>3, <1>4, <1>5

\* The run's task ends.
LEMMA TaskEndsKeeps == ASSUME IInv, NEW r \in Runs, TaskEnds(r) PROVE IInv'
<1>. USE DEF IInv, TaskEnds, flags, run, gains, others
<1>1. Bits'
  BY Zenon DEF Bits
<1>2. Sorts'
  BY DEF Sorts, Places, Goto, From, InCode
<1>3. StopInv'
  BY DEF StopInv
<1>4. LeftInv'
  BY DEF LeftInv, Inner, Ticks, Undoes, Sorts, Goto, From
<1>5. GainInv'
  BY DEF GainInv, Quiet, Up, SavedBy
<1>. QED
  BY <1>1, <1>2, <1>3, <1>4, <1>5

\* The app's stop, and the Pi's.
LEMMA StopTestKeeps == ASSUME IInv, StopTest PROVE IInv'
<1>. USE DEF IInv, StopTest, flags, run, gains, others
<1>1. Bits'
  BY Zenon DEF Bits
<1>2. Sorts'
  BY DEF Sorts, Stoppers, InCode
<1>3. StopInv'
  BY DEF StopInv
<1>4. LeftInv'
  BY DEF LeftInv, Inner, Ticks, Undoes
<1>5. GainInv'
  BY DEF GainInv, Quiet, Up, SavedBy
<1>. QED
  BY <1>1, <1>2, <1>3, <1>4, <1>5

LEMMA RequestStopKeeps == ASSUME IInv, NEW s \in Stoppers, RequestStop(s) PROVE IInv'
<1>. USE DEF IInv, RequestStop, flags, run, gains, others
<1>1. Bits'
  BY Zenon DEF Bits
<1>2. Sorts'
  BY DEF Sorts, Stoppers, Live, InCode
<1>3. StopInv'
  BY DEF StopInv
<1>4. LeftInv'
  BY DEF LeftInv, Inner, Ticks, Undoes
<1>5. GainInv'
  BY DEF GainInv, Quiet, Up, SavedBy
<1>. QED
  BY <1>1, <1>2, <1>3, <1>4, <1>5

\* Others who take the bus.
LEMMA StudioKeeps == ASSUME IInv, Studio PROVE IInv'
<1>. USE DEF IInv, Studio, flags, run, gains, others
<1>1. Bits'
  BY Zenon DEF Bits
<1>2. Sorts'
  BY DEF Sorts, InCode
<1>3. StopInv'
  BY DEF StopInv
<1>4. LeftInv'
  BY DEF LeftInv, Inner, Ticks, Undoes
<1>5. GainInv'
  BY DEF GainInv, Quiet, Up, SavedBy
<1>. QED
  BY <1>1, <1>2, <1>3, <1>4, <1>5

LEMMA PiFenceKeeps == ASSUME IInv, PiFence PROVE IInv'
<1>. USE DEF IInv, PiFence, flags, run, gains, others
<1>1. Bits'
  BY Zenon DEF Bits
<1>2. Sorts'
  BY DEF Sorts, InCode
<1>3. StopInv'
  BY DEF StopInv
<1>4. LeftInv'
  BY DEF LeftInv, Inner, Ticks, Undoes
<1>5. GainInv'
  BY DEF GainInv, Quiet, Up, SavedBy
<1>. QED
  BY <1>1, <1>2, <1>3, <1>4, <1>5

LEMMA RosFreesKeeps == ASSUME IInv, RosFrees PROVE IInv'
<1>. USE DEF IInv, RosFrees, flags, run, gains, others
<1>1. Bits'
  BY Zenon DEF Bits
<1>2. Sorts'
  BY DEF Sorts, InCode
<1>3. StopInv'
  BY DEF StopInv
<1>4. LeftInv'
  BY DEF LeftInv, Inner, Ticks, Undoes
<1>5. GainInv'
  BY DEF GainInv, Quiet, Up, SavedBy
<1>. QED
  BY <1>1, <1>2, <1>3, <1>4, <1>5

LEMMA PiAsksKeeps == ASSUME IInv, PiAsks PROVE IInv'
<1>. USE DEF IInv, PiAsks, flags, run, gains, others
<1>1. Bits'
  BY Zenon DEF Bits
<1>2. Sorts'
  BY DEF Sorts, Stoppers, InCode
<1>3. StopInv'
  BY DEF StopInv
<1>4. LeftInv'
  BY DEF LeftInv, Inner, Ticks, Undoes
<1>5. GainInv'
  BY DEF GainInv, Quiet, Up, SavedBy
<1>. QED
  BY <1>1, <1>2, <1>3, <1>4, <1>5

LEMMA RosEndKeeps == ASSUME IInv, RosEnd PROVE IInv'
<1>. USE DEF IInv, RosEnd, flags, run, gains, others
<1>1. Bits'
  BY Zenon DEF Bits
<1>2. Sorts'
  BY DEF Sorts, InCode
<1>3. StopInv'
  BY DEF StopInv
<1>4. LeftInv'
  BY DEF LeftInv, Inner, Ticks, Undoes
<1>5. GainInv'
  BY DEF GainInv, Quiet, Up, SavedBy
<1>. QED
  BY <1>1, <1>2, <1>3, <1>4, <1>5

\* The policy's session.
LEMMA HostTakesKeeps == ASSUME IInv, HostTakes PROVE IInv'
<1>. USE DEF IInv, HostTakes, flags, run, gains, others
<1>1. Bits'
  BY Zenon DEF Bits, Saves
<1>2. Sorts'
  BY DEF Sorts, InCode, Saves
<1>3. StopInv'
  BY DEF StopInv
<1>4. LeftInv'
  BY DEF LeftInv, Inner, Ticks, Undoes
<1>5. GainInv'
  BY DEF GainInv, Quiet, Up, SavedBy, Sorts, Saves
<1>. QED
  BY <1>1, <1>2, <1>3, <1>4, <1>5

LEMMA HostConfigKeeps == ASSUME IInv, HostConfig PROVE IInv'
<1>. USE DEF IInv, HostConfig, flags, run, gains, others
<1>1. Bits'
  BY Zenon DEF Bits
<1>2. Sorts'
  BY DEF Sorts, InCode
<1>3. StopInv'
  BY DEF StopInv
<1>4. LeftInv'
  BY DEF LeftInv, Inner, Ticks, Undoes
<1>5. GainInv'
  BY DEF GainInv, Quiet, Up, SavedBy
<1>. QED
  BY <1>1, <1>2, <1>3, <1>4, <1>5

LEMMA HostEndKeeps == ASSUME IInv, HostEnd PROVE IInv'
<1>. USE DEF IInv, HostEnd, flags, run, gains, others
<1>1. Bits'
  BY Zenon DEF Bits, PutsBack
<1>2. Sorts'
  BY DEF Sorts, InCode, GainInv, PutsBack
<1>3. StopInv'
  BY DEF StopInv
<1>4. LeftInv'
  BY DEF LeftInv, Inner, Ticks, Undoes
<1>5. GainInv'
  BY DEF GainInv, Quiet, Up, SavedBy, Sorts, PutsBack
<1>. QED
  BY <1>1, <1>2, <1>3, <1>4, <1>5

\* A stunt's preset.
LEMMA StuntReadsKeeps == ASSUME IInv, StuntReads PROVE IInv'
<1>. USE DEF IInv, StuntReads, flags, run, gains, others
<1>1. Bits'
  BY Zenon DEF Bits, Saves
<1>2. Sorts'
  BY DEF Sorts, InCode, Saves
<1>3. StopInv'
  BY DEF StopInv
<1>4. LeftInv'
  BY DEF LeftInv, Inner, Ticks, Undoes
<1>5. GainInv'
  BY DEF GainInv, Quiet, Up, SavedBy, Sorts, Saves
<1>. QED
  BY <1>1, <1>2, <1>3, <1>4, <1>5

LEMMA StuntWritesKeeps == ASSUME IInv, StuntWrites PROVE IInv'
<1>. USE DEF IInv, StuntWrites, flags, run, gains, others
<1>1. Bits'
  BY Zenon DEF Bits
<1>2. Sorts'
  BY DEF Sorts, InCode
<1>3. StopInv'
  BY DEF StopInv
<1>4. LeftInv'
  BY DEF LeftInv, Inner, Ticks, Undoes
<1>5. GainInv'
  BY DEF GainInv, Quiet, Up, SavedBy
<1>. QED
  BY <1>1, <1>2, <1>3, <1>4, <1>5

LEMMA StuntPopsKeeps == ASSUME IInv, StuntPops PROVE IInv'
<1>. USE DEF IInv, StuntPops, flags, run, gains, others
<1>1. Bits'
  BY Zenon DEF Bits, PutsBack
<1>2. Sorts'
  BY DEF Sorts, InCode, GainInv, PutsBack
<1>3. StopInv'
  BY DEF StopInv
<1>4. LeftInv'
  BY DEF LeftInv, Inner, Ticks, Undoes
<1>5. GainInv'
  BY DEF GainInv, Quiet, Up, SavedBy, Sorts, PutsBack
<1>. QED
  BY <1>1, <1>2, <1>3, <1>4, <1>5

\* Every step keeps the invariant.
LEMMA StepIInv == ASSUME IInv, [Next]_vars PROVE IInv'
<1>1. CASE UNCHANGED vars
  <2>1. UNCHANGED <<guard, at, deaf, cancelled, tickStop, stopping, running, period, claim, fired,
                    terminated, owner, pi, saw, board, before, hostGains, stuntGains, stunt, asked,
                    first, crossed>>
    BY <1>1 DEF vars, flags, run, others, gains
  <2>. QED
    BY <2>1 DEF IInv, Bits, Sorts, InCode, StopInv, LeftInv, GainInv, Quiet, Up, SavedBy
<1>2. CASE \E r \in Runs : Thread(r)
  BY <1>2, TestGuardKeeps, LaunchKeeps, LoadAndRunKeeps, LoadFailsKeeps, SetupKeeps, OnStartReturnsKeeps, TickKeeps, OnTickReturnsKeeps, LoopEndsKeeps, OnStopReturnsKeeps, RestoreDecidesKeeps, RestoreWritesKeeps, TeardownKeeps, WatchdogFiresKeeps, JoinedKeeps, TaskEndsKeeps
  DEF Thread
<1>3. CASE \E r \in Runs : HostCall(r)
  BY <1>3, ServoLockKeeps, ServoUnlockKeeps, SetGainKeeps, ControlTakeKeeps, UncancelledKeeps, GoesDeafKeeps
  DEF HostCall
<1>4. CASE Around
  BY <1>4, StopTestKeeps, RequestStopKeeps, StudioKeeps, PiFenceKeeps, RosFreesKeeps, PiAsksKeeps, RosEndKeeps, HostTakesKeeps, HostConfigKeeps, HostEndKeeps, StuntReadsKeeps, StuntWritesKeeps, StuntPopsKeeps
  DEF Around
<1>. QED
  BY <1>1, <1>2, <1>3, <1>4 DEF Next

\* The invariant holds in every state of every behaviour, whoever starts runs.
THEOREM Invariance == Spec => []IInv
<1>1. IInv /\ [Next]_vars => IInv'
  BY StepIInv
<1>. QED
  BY <1>1, InitIInv, PTL DEF Spec

\* The flags, the notes of gains and the places of the runs have their types.
THEOREM RunTypes == Spec => []TypeOK
  BY Invariance, TypeParts, PTL DEF IInv

\* A stop is remembered until a run has ended, from the moment s_skill_running is
\* set, whatever the setups of the run and of others clear.
THEOREM StopsStick == Spec => []StopSticks
<1>1. IInv => StopSticks
  BY DEF IInv, StopInv, StopSticks
<1>. QED
  BY <1>1, Invariance, PTL

\* The lock, the claim, the tick and the note of gains do not outlive the last
\* run, however the runs crossed and ended.
THEOREM NothingIsLeft == Spec => []NothingLeft
<1>1. IInv => NothingLeft
  BY DEF IInv, LeftInv, Inner, Ticks, Undoes, NothingLeft
<1>. QED
  BY <1>1, Invariance, PTL

\* Gains that runs, stunts and sessions saved over each other's are back once
\* all are put back, in whatever order but the first before the others.
THEOREM GainsComeBack == Spec => []GainsReturn
<1>1. IInv => GainsReturn
  BY DEF IInv, GainInv, GainsReturn, Quiet, Up, SavedBy
<1>. QED
  BY <1>1, Invariance, PTL
=============================================================================
