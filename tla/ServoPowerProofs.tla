-------------------------- MODULE ServoPowerProofs --------------------------
(***************************************************************************)
(* The soft start, for any number of boards and of tasks that flush.       *)
(***************************************************************************)
EXTENDS ServoPower, TLAPS

Places == {"out", "decide", "read", "emit", "idle", "write", "blend", "settle"}

\* Whoever takes the bus finds no flush under way, and none begins under it.
QuietOwner == owner # "free" => Running = {}

\* The flushes a glide overtook are still running.
OldestRun == older \subseteq Running

\* A flush that began after the glide did never sends the boards to idle.
NewComers == \A t \in Flushers \ older :
  ps \in {"glide", "on"} => pc[t] \in {"out", "decide", "emit", "blend", "write"}

\* When a glide is over no leg is limp, and no flush is left to make it so.
HeldLegs ==
  ps = "on" \/ (ps = "glide" /\ elapsed)
    => older = {} /\ (owner = "host" \/ LimpLegs = {})

Power == QuietOwner /\ OldestRun /\ NewComers /\ HeldLegs
IInv  == TypeOK /\ Power

\* TypeOK, apart: the boards, the words, and the flushes.
BoardTypes == /\ plugged \in SUBSET Boards
              /\ tx \in [Boards -> Replies]
              /\ limp \in SUBSET Boards
WordTypes ==
  /\ ps \in {"boot", "glide", "on", "lower", "off"}
  /\ restNow \in BOOLEAN /\ wakeNow \in BOOLEAN /\ quiet \in BOOLEAN /\ goalNew \in BOOLEAN
  /\ glideFrom \in [Boards -> Feedback \cup {"goal"}]
  /\ elapsed \in BOOLEAN
  /\ owner \in {"free", "local", "host"}
  /\ busyWith \in SUBSET {"skill", "ros"}
  /\ byHand \in SUBSET Boards
FlushTypes == /\ pc \in [Flushers -> Places]
              /\ got \in [Flushers -> SUBSET Boards]
              /\ pass \in [Flushers -> 0..(ReadPasses - 1)]
              /\ older \in SUBSET Flushers

LEMMA TypeParts == TypeOK <=> BoardTypes /\ WordTypes /\ FlushTypes
  BY DEF TypeOK, BoardTypes, WordTypes, FlushTypes, Places
LEMMA TypesAfter == BoardTypes' /\ WordTypes' /\ FlushTypes' => TypeOK'
  BY DEF TypeOK, BoardTypes, WordTypes, FlushTypes, Places

-----------------------------------------------------------------------------
(* The boards under a frame.                                               *)

\* A frame leaves the boards well typed, and limp only where it says so.
LEMMA SendTypes ==
  ASSUME BoardTypes, NEW S, NEW again, NEW L, SendFrames(S, again, L)
  PROVE  BoardTypes'
<1>1. \A b \in Boards : AfterOne[b] \in Replies /\ AfterTwo[b] \in Replies
  BY DEF AfterOne, AfterTwo, AfterFrame, Replies
<1>2. tx' \in [Boards -> Replies]
  BY <1>1 DEF SendFrames, BoardTypes
<1>3. limp' \in SUBSET Boards /\ plugged' \in SUBSET Boards
  BY DEF SendFrames, BoardTypes
<1>. QED
  BY <1>2, <1>3 DEF BoardTypes

\* A pose frame to every board leaves none limp.
LEMMA PoseHolds ==
  ASSUME BoardTypes, SendFrames(Boards, {}, {})
  PROVE  LimpLegs' = {}
  BY DEF SendFrames, BoardTypes, LimpLegs

\* A limp leg that a local owner leaves is that owner's.
LEMMA DirectHolds ==
  ASSUME BoardTypes, NEW b \in Boards, NEW held \in BOOLEAN, LocalDirect(b, held)
  PROVE  LimpLegs' \subseteq LimpLegs
<1>1. plugged' = plugged
  BY DEF LocalDirect, SendFrames
<1>2. CASE held
  BY <1>1, <1>2 DEF LocalDirect, SendFrames, LimpLegs
<1>3. CASE ~held
  BY <1>1, <1>3 DEF LocalDirect, SendFrames, LimpLegs
<1>. QED
  BY <1>2, <1>3

\* One flush moves, the others stay.
LEMMA Going ==
  ASSUME FlushTypes, NEW t \in Flushers, NEW l \in Places, Goto(t, l)
  PROVE  /\ pc' \in [Flushers -> Places]
         /\ pc'[t] = l
         /\ \A u \in Flushers \ {t} : pc'[u] = pc[u]
         /\ l # "out" => Running' = Running \cup {t}
         /\ l = "out" => Running' = Running \ {t}
  BY DEF FlushTypes, Goto, Running

-----------------------------------------------------------------------------
LEMMA InitIInv == Init => IInv
<1>. SUFFICES ASSUME Init PROVE IInv
  OBVIOUS
<1>. USE DEF Init
<1>1. BoardTypes
  BY DEF FramesInit, BoardTypes, Replies
<1>2. WordTypes
  BY DEF WordTypes
<1>3. FlushTypes
  BY FlushersAssumption DEF FlushTypes, Places
<1>4. Power
  BY DEF Power, QuietOwner, OldestRun, NewComers, HeldLegs, Running
<1>. QED
  BY <1>1, <1>2, <1>3, <1>4, TypeParts DEF IInv

LEMMA EnterStep == ASSUME IInv, NEW t \in Flushers, Enter(t) PROVE IInv'
<1>. USE TypeParts DEF IInv
<1>1. pc' \in [Flushers -> Places] /\ pc'[t] = "decide"
      /\ (\A u \in Flushers \ {t} : pc'[u] = pc[u]) /\ Running' = Running \cup {t}
  BY Going DEF Enter, Places
<1>2. BoardTypes' /\ WordTypes'
  BY DEF Enter, BoardTypes, WordTypes, bvars, flags, glide, around
<1>3. FlushTypes'
  BY <1>1 DEF Enter, FlushTypes, glide
<1>4. LimpLegs' = LimpLegs
  BY DEF Enter, LimpLegs, bvars
<1>5. Power'
  BY <1>1, <1>4 DEF Enter, glide, around, Power, QuietOwner, OldestRun,
     NewComers, HeldLegs, FlushTypes
<1>. QED
  BY <1>2, <1>3, <1>5, TypesAfter

LEMMA DecideStep == ASSUME IInv, NEW t \in Flushers, Decide(t) PROVE IInv'
<1>. USE TypeParts DEF IInv
<1>. PICK l \in {"read", "emit"} : Goto(t, l)
  BY DEF Decide
<1>1. pc' \in [Flushers -> Places] /\ pc'[t] = l
      /\ (\A u \in Flushers \ {t} : pc'[u] = pc[u]) /\ Running' = Running
  BY Going DEF Decide, Places, Running
<1>2. UNCHANGED <<plugged, tx, limp, restNow, wakeNow, glideFrom, owner, busyWith, got, pass, byHand>>
      /\ quiet' \in BOOLEAN /\ goalNew' \in BOOLEAN
  BY DEF Decide, bvars, around, glide, GlideTo, WordTypes
<1>3. \/ /\ UNCHANGED <<ps, elapsed, older>>
         /\ l = "read" => ps \in {"boot", "lower", "off"}
      \/ ps' = "lower" /\ elapsed' = FALSE /\ older' = Running /\ ps = "on"
  <2>1. CASE ps = "boot" \/ (Resting /\ Wakes)
    BY <2>1 DEF Decide, glide, Resting
  <2>2. CASE ~(ps = "boot" \/ (Resting /\ Wakes)) /\ ps = "on" /\ LiesDown
    BY <2>2 DEF Decide, GlideTo
  <2>3. CASE ~(ps = "boot" \/ (Resting /\ Wakes)) /\ ~(ps = "on" /\ LiesDown)
    <3>1. Goto(t, "emit") /\ UNCHANGED glide
      BY <2>3 DEF Decide
    <3>2. l = "emit"
      BY <1>1, <3>1, Going DEF Places
    <3>. QED
      BY <3>1, <3>2 DEF glide
  <2>. QED
    BY <2>1, <2>2, <2>3
<1>4. BoardTypes' /\ WordTypes' /\ FlushTypes'
  BY <1>1, <1>2, <1>3 DEF BoardTypes, WordTypes, FlushTypes, Running
<1>5. LimpLegs' = LimpLegs
  BY <1>2 DEF LimpLegs
<1>6. Power'
  BY <1>1, <1>2, <1>3, <1>5 DEF Decide, Power, QuietOwner, OldestRun, NewComers, HeldLegs, FlushTypes, Running
<1>. QED
  BY <1>4, <1>6, TypesAfter

LEMMA ReadStep == ASSUME IInv, NEW t \in Flushers, ReadPresent(t) PROVE IInv'
<1>. USE TypeParts DEF IInv
<1>. DEFINE now == {b \in Boards \ got[t] : Reads[b] \in Feedback}
            all == got[t] \cup now
            last == LastPass(t, all)
<1>1. /\ pc[t] = "read"
      /\ SendFrames(Boards, {}, Boards)
      /\ glideFrom' = [b \in Boards |-> IF b \in now THEN Reads[b]
                                        ELSE IF last /\ b \notin all THEN "goal" ELSE glideFrom[b]]
      /\ got' = [got EXCEPT ![t] = IF last THEN {} ELSE all]
      /\ pass' = [pass EXCEPT ![t] = IF last THEN 0 ELSE @ + 1]
      /\ byHand' = {} /\ UNCHANGED <<flags, around>>
  BY DEF ReadPresent
<1>2. IF last THEN GlideTo("glide") /\ Goto(t, "emit") ELSE UNCHANGED <<ps, elapsed, older, pc>>
  BY DEF ReadPresent
<1>3. BoardTypes'
  BY <1>1, SendTypes
<1>4. WordTypes'
  <2>1. glideFrom' \in [Boards -> Feedback \cup {"goal"}]
    BY <1>1 DEF WordTypes
  <2>2. ps' \in {"boot", "glide", "on", "lower", "off"} /\ elapsed' \in BOOLEAN
    BY <1>2 DEF WordTypes, GlideTo
  <2>. QED
    BY <1>1, <2>1, <2>2 DEF WordTypes, flags, around
<1>5. /\ pc' \in [Flushers -> Places]
      /\ \A u \in Flushers \ {t} : pc'[u] = pc[u]
      /\ pc'[t] = IF last THEN "emit" ELSE "read"
      /\ Running' = Running
  BY <1>1, <1>2, Going DEF Places, Running, FlushTypes
<1>6. FlushTypes'
  <2>1. got' \in [Flushers -> SUBSET Boards]
    BY <1>1 DEF FlushTypes
  <2>2. ~last => pass[t] + 1 \in 0..(ReadPasses - 1)
    BY FlushersAssumption DEF FlushTypes, LastPass
  <2>3. pass' \in [Flushers -> 0..(ReadPasses - 1)]
    BY <1>1, <2>2, FlushersAssumption DEF FlushTypes
  <2>4. older' \in SUBSET Flushers
    BY <1>2 DEF FlushTypes, GlideTo, Running
  <2>. QED
    BY <1>5, <2>1, <2>3, <2>4 DEF FlushTypes
<1>7. t \in older \/ ps \notin {"glide", "on"}
  BY <1>1 DEF Power, NewComers
<1>8. UNCHANGED <<owner, busyWith>>
  BY <1>1 DEF around
<1>9. CASE last
  <2>1. ps' = "glide" /\ elapsed' = FALSE /\ older' = Running
    BY <1>2, <1>9 DEF GlideTo
  <2>. QED
    BY <1>3, <1>4, <1>5, <1>6, <1>8, <1>9, <2>1, TypesAfter DEF Power, QuietOwner,
       OldestRun, NewComers, HeldLegs, FlushTypes, Running
<1>10. CASE ~last
  <2>1. UNCHANGED <<ps, elapsed, older>> /\ pc' = pc
    BY <1>2, <1>10
  <2>. QED
    BY <1>3, <1>4, <1>5, <1>6, <1>7, <1>8, <2>1, TypesAfter DEF Power, QuietOwner,
       OldestRun, NewComers, HeldLegs
<1>. QED
  BY <1>9, <1>10

LEMMA EmitStep == ASSUME IInv, NEW t \in Flushers, Emit(t) PROVE IInv'
<1>. USE TypeParts DEF IInv
<1>1. /\ pc[t] = "emit" /\ restNow' = FALSE /\ wakeNow' = FALSE
      /\ UNCHANGED <<bvars, quiet, goalNew, glideFrom, elapsed, older, around, got, pass, byHand>>
  BY DEF Emit
<1>2. PICK l \in {"idle", "settle", "blend", "write"} :
        /\ Goto(t, l)
        /\ \/ ps' = ps /\ (l = "write" => ps = "on") /\ (l = "idle" => ps = "off")
              /\ l # "settle"
           \/ ps = "lower" /\ ps' = "off" /\ l = "settle"
           \/ ps = "glide" /\ elapsed /\ ps' = "on" /\ l = "blend"
  BY DEF Emit, WordTypes
<1>3. pc' \in [Flushers -> Places] /\ pc'[t] = l
      /\ (\A u \in Flushers \ {t} : pc'[u] = pc[u]) /\ Running' = Running
  BY <1>1, <1>2, Going DEF Places, Running
<1>4. BoardTypes' /\ WordTypes' /\ FlushTypes'
  BY <1>1, <1>2, <1>3 DEF BoardTypes, WordTypes, FlushTypes, bvars, around
<1>5. LimpLegs' = LimpLegs
  BY <1>1 DEF LimpLegs, bvars
<1>6. Power'
  BY <1>1, <1>2, <1>3, <1>5 DEF Power, QuietOwner, OldestRun, NewComers, HeldLegs, around
<1>. QED
  BY <1>4, <1>6, TypesAfter

LEMMA SendStep == ASSUME IInv, NEW t \in Flushers, SendIdle(t) \/ SendPose(t) PROVE IInv'
<1>. USE TypeParts DEF IInv
<1>1. UNCHANGED <<flags, ps, glideFrom, elapsed, around, got, pass>> /\ byHand' \in {byHand, {}}
  BY DEF SendIdle, SendPose
<1>2. PICK l \in {"out", "idle"} :
        /\ Goto(t, l) /\ older' = (IF l = "out" THEN older \ {t} ELSE older)
        /\ l = "idle" => pc[t] = "settle"
  BY DEF SendIdle, SendPose, Leave
<1>3. pc' \in [Flushers -> Places] /\ pc'[t] = l
      /\ (\A u \in Flushers \ {t} : pc'[u] = pc[u])
      /\ Running' = (IF l = "out" THEN Running \ {t} ELSE Running \cup {t})
  BY <1>2, Going DEF Places
<1>4. BoardTypes'
  BY SendTypes DEF SendIdle, SendPose
<1>5. WordTypes' /\ FlushTypes'
  BY <1>1, <1>2, <1>3 DEF WordTypes, FlushTypes, flags, around
<1>6. LimpLegs' = {} \/ pc[t] = "idle"
  BY PoseHolds DEF SendIdle, SendPose
<1>7. pc[t] # "out" /\ t \in Running
  BY DEF SendIdle, SendPose, Running
<1>8. UNCHANGED <<ps, elapsed, owner>>
  BY <1>1 DEF around
<1>9. OldestRun' /\ QuietOwner'
  BY <1>2, <1>3, <1>7, <1>8 DEF Power, OldestRun, QuietOwner
<1>10. NewComers'
  BY <1>2, <1>3, <1>8 DEF Power, NewComers
<1>11. HeldLegs'
  <2>1. SUFFICES ASSUME ps = "on" \/ (ps = "glide" /\ elapsed)
                 PROVE  older' = {} /\ LimpLegs' = {}
    BY <1>8 DEF HeldLegs
  <2>2. older = {} /\ pc[t] # "idle"
    BY <2>1 DEF Power, HeldLegs, NewComers
  <2>. QED
    BY <1>2, <1>6, <2>2
<1>. QED
  BY <1>4, <1>5, <1>9, <1>10, <1>11, TypesAfter DEF Power

\* Requests, and the words that say who is using the robot.
LEMMA AskStep ==
  ASSUME IInv, \/ RestNow \/ WakeServos \/ Moves \/ LocalOff \/ HostEnd
               \/ \E w \in {"skill", "ros"} : Uses(w) \/ LeavesOff(w)
               \/ \E o \in {"local", "host"} : Owns(o)
  PROVE  IInv'
<1>. USE TypeParts DEF IInv
<1>1. UNCHANGED <<bvars, glideFrom, elapsed, older, locals, byHand>>
  BY DEF RestNow, WakeServos, Moves, LocalOff, HostEnd, Uses, LeavesOff, Owns,
     glide, around, flags
<1>2. BoardTypes' /\ FlushTypes'
  BY <1>1 DEF BoardTypes, FlushTypes, bvars, locals
<1>3. WordTypes'
  <2>1. CASE RestNow \/ WakeServos \/ Moves \/ LocalOff \/ HostEnd
    BY <1>1, <2>1 DEF WordTypes, RestNow, WakeServos, Moves, LocalOff, HostEnd, glide, around, flags
  <2>2. ASSUME NEW w \in {"skill", "ros"}, Uses(w) \/ LeavesOff(w) PROVE WordTypes'
    BY <1>1, <2>2 DEF WordTypes, Uses, LeavesOff, glide, flags
  <2>3. ASSUME NEW o \in {"local", "host"}, Owns(o) PROVE WordTypes'
    BY <1>1, <2>3 DEF WordTypes, Owns, glide, flags
  <2>. QED
    BY <2>1, <2>2, <2>3
<1>4. LimpLegs' = LimpLegs /\ Running' = Running
  BY <1>1 DEF LimpLegs, Running, bvars, locals
<1>5. \/ ps' = ps /\ (owner' = owner \/ (owner' = "free" /\ owner # "host") \/ Running = {})
      \/ ps' = "off" /\ owner = "host" /\ owner' = "free"
  <2>1. CASE RestNow \/ WakeServos \/ Moves \/ LocalOff \/ HostEnd
    BY <2>1 DEF RestNow, WakeServos, Moves, LocalOff, HostEnd, glide, around
  <2>2. ASSUME NEW w \in {"skill", "ros"}, Uses(w) \/ LeavesOff(w)
        PROVE  ps' = ps /\ (owner' = owner \/ (owner' = "free" /\ owner # "host"))
    BY <2>2 DEF Uses, LeavesOff, glide
  <2>3. ASSUME NEW o \in {"local", "host"}, Owns(o) PROVE ps' = ps /\ Running = {}
    BY <2>3 DEF Owns, glide
  <2>. QED
    BY <2>1, <2>2, <2>3
<1>6. owner' # owner => owner' = "free" \/ (owner = "free" /\ Running = {})
  BY DEF RestNow, WakeServos, Moves, LocalOff, HostEnd, Uses, LeavesOff, Owns, glide, around
<1>7. owner = "host" /\ owner' # "host" => ps' = "off"
  BY DEF RestNow, WakeServos, Moves, LocalOff, HostEnd, Uses, LeavesOff, Owns, glide, around
<1>8. QuietOwner' /\ OldestRun'
  BY <1>1, <1>4, <1>6 DEF Power, QuietOwner, OldestRun
<1>9. NewComers'
  <2>1. CASE ps' = ps
    BY <1>1, <2>1 DEF Power, NewComers, locals
  <2>2. CASE ps' = "off" /\ owner = "host"
    <3>1. \A t \in Flushers : pc'[t] = "out"
      BY <1>1, <2>2 DEF Power, QuietOwner, Running, locals
    <3>. QED
      BY <2>2, <3>1 DEF NewComers
  <2>. QED
    BY <1>5, <2>1, <2>2
<1>10. HeldLegs'
  BY <1>1, <1>4, <1>5, <1>7 DEF Power, HeldLegs
<1>. QED
  BY <1>2, <1>3, <1>8, <1>9, <1>10, TypesAfter DEF Power

\* A local owner's frame to one board, a tick of the host, a config request.
LEMMA OwnerStep ==
  ASSUME IInv, \/ \E b \in Boards, held \in BOOLEAN : LocalDirect(b, held)
               \/ \E L \in SUBSET Boards : HostTick(L)
               \/ \E b \in Boards : Config(b)
  PROVE  IInv'
<1>. USE TypeParts DEF IInv
<1>1. UNCHANGED <<flags, glide, around, locals>> /\ byHand' \in SUBSET Boards
  BY DEF LocalDirect, HostTick, Config, power, WordTypes
<1>2. BoardTypes'
  <2>1. ASSUME NEW b \in Boards, Config(b) PROVE BoardTypes'
    BY <2>1 DEF Config, TakeConfig, BoardTypes, Replies
  <2>. QED
    BY <2>1, SendTypes DEF LocalDirect, HostTick
<1>3. WordTypes' /\ FlushTypes'
  BY <1>1 DEF WordTypes, FlushTypes, flags, glide, around, locals
<1>4. LimpLegs' \subseteq LimpLegs \/ owner = "host"
  <2>1. ASSUME NEW b \in Boards, Config(b) PROVE LimpLegs' = LimpLegs
    BY <2>1 DEF Config, TakeConfig, LimpLegs, power
  <2>. QED
    BY <2>1, DirectHolds DEF HostTick
<1>5. Power'
  BY <1>1, <1>4 DEF Power, QuietOwner, OldestRun, NewComers, HeldLegs,
     Running, glide, around, locals
<1>. QED
  BY <1>2, <1>3, <1>5, TypesAfter

\* A glide ends, or the robot has stood long enough.
LEMMA TimeStep == ASSUME IInv, GlideTime \/ Unused PROVE IInv'
<1>. USE TypeParts DEF IInv
<1>1. UNCHANGED <<bvars, ps, older, around, locals, byHand>>
      /\ elapsed' \in {elapsed, TRUE} /\ (elapsed' # elapsed => older = {} /\ LimpLegs = {})
  BY DEF GlideTime, Unused, glide
<1>2. BoardTypes' /\ FlushTypes'
  BY <1>1 DEF BoardTypes, FlushTypes, bvars, locals
<1>3. WordTypes'
  BY <1>1 DEF GlideTime, Unused, WordTypes, glide, flags, around
<1>4. LimpLegs' = LimpLegs /\ Running' = Running
  BY <1>1 DEF LimpLegs, Running, bvars, locals
<1>5. Power'
  BY <1>1, <1>4 DEF Power, QuietOwner, OldestRun, NewComers, HeldLegs,
     around, locals
<1>. QED
  BY <1>2, <1>3, <1>5, TypesAfter

LEMMA StepIInv == IInv /\ [Next]_vars => IInv'
<1>. SUFFICES ASSUME IInv, [Next]_vars PROVE IInv'
  OBVIOUS
<1>1. ASSUME NEW t \in Flushers, Flush(t) PROVE IInv'
  BY <1>1, EnterStep, DecideStep, ReadStep, EmitStep, SendStep DEF Flush
<1>2. CASE People
  BY <1>2, AskStep, OwnerStep DEF People
<1>3. CASE UNCHANGED vars
  BY <1>3 DEF vars, bvars, power, flags, glide, around, locals, IInv, TypeOK, Power,
     QuietOwner, OldestRun, NewComers, HeldLegs, Running, LimpLegs
<1>. QED
  BY <1>1, <1>2, <1>3, OwnerStep, TimeStep DEF Next

\* The invariant holds in every state of every behaviour.
THEOREM Invariance == Spec => []IInv
  BY InitIInv, StepIInv, PTL DEF Spec

\* The power state, the flags and the flushes have their types.
THEOREM PowerTypes == Spec => []TypeOK
  BY Invariance, PTL DEF IInv

\* Only emit leads to a bare pose.
LEMMA WriteFromEmit ==
  ASSUME IInv, Next, NEW t \in Flushers, pc[t] # "write", pc'[t] = "write"
  PROVE  Emit(t)
<1>. USE TypeParts DEF IInv
<1>1. ASSUME NEW u \in Flushers, Flush(u) PROVE Emit(t)
  <2>1. CASE Emit(u)
    BY <2>1 DEF Emit, Goto, FlushTypes
  <2>2. CASE ~Emit(u)
    BY <1>1, <2>2 DEF Flush, Enter, Decide, ReadPresent, SendIdle, SendPose, Leave, Goto, FlushTypes
  <2>. QED
    BY <2>1, <2>2
<1>2. CASE UNCHANGED pc
  BY <1>2
<1>3. People \/ (\E b \in Boards : Config(b)) \/ GlideTime \/ Unused => UNCHANGED pc
  BY DEF People, RestNow, WakeServos, Moves, LocalOff, HostEnd, Uses, LeavesOff, Owns,
     LocalDirect, HostTick, Config, GlideTime, Unused, locals, power
<1>. QED
  BY <1>1, <1>2, <1>3 DEF Next

\* A flush that is about to send a bare pose finds every leg held.
LEMMA DecidesHeld ==
  ASSUME IInv, NEW t \in Flushers, Emit(t), pc'[t] = "write"
  PROVE  ps = "on" /\ ps' = "on" /\ older = {} /\ LimpLegs = {}
<1>1. ps = "on" /\ ps' = "on"
  BY TypeParts DEF IInv, Emit, Goto, FlushTypes
<1>2. owner = "free"
  BY DEF IInv, Power, QuietOwner, Running, Emit
<1>. QED
  BY <1>1, <1>2 DEF IInv, Power, HeldLegs

\* No flush decides on a bare goal while a leg is limp, whatever the other
\* tasks' flushes, bus owners and requests do (flush() and start_glide()).
THEOREM GlidesComeFirst == Spec => GlidesFirst
<1>. DEFINE Held == \A t \in Flushers : pc[t] # "write" /\ pc'[t] = "write" => LimpLegs = {}
<1>1. IInv /\ [Next]_vars => [Held]_vars
  BY WriteFromEmit, DecidesHeld
<1>. QED
  BY <1>1, Invariance, PTL DEF Spec, GlidesFirst

-----------------------------------------------------------------------------
(* The frames, when no task is held up before it sends.                    *)

\* Until a bare pose is sent no leg goes limp: what overtook the flush can have
\* begun to lower the robot, and no more.
Writing == \A t \in Flushers : pc[t] = "write" =>
  /\ LimpLegs = {}
  /\ ps = "on" \/ (ps = "lower" /\ ~elapsed /\ t \in older)
  /\ \A u \in Flushers : pc[u] \notin {"idle", "settle"}

AtOnce == \A t, u \in Flushers : pc[t] = "write" => ~ReadPresent(u)

LEMMA FlushWriting ==
  ASSUME IInv, Writing, AtOnce, NEW u \in Flushers, Flush(u), BoardTypes'
  PROVE  Writing'
<1>. USE TypeParts DEF IInv
<1>. SUFFICES ASSUME NEW t \in Flushers, pc'[t] = "write"
              PROVE  /\ LimpLegs' = {}
                     /\ ps' = "on" \/ (ps' = "lower" /\ ~elapsed' /\ t \in older')
                     /\ \A v \in Flushers : pc'[v] \notin {"idle", "settle"}
  BY DEF Writing
<1>1. CASE Enter(u)
  BY <1>1 DEF Enter, Goto, FlushTypes, Writing, LimpLegs, bvars, glide
<1>2. CASE Decide(u)
  <2>1. pc[t] = "write" /\ LimpLegs' = LimpLegs
    BY <1>2 DEF Decide, Goto, FlushTypes, LimpLegs, bvars, around
  <2>2. \A v \in Flushers : pc'[v] \notin {"idle", "settle"}
    BY <1>2, <2>1 DEF Decide, Goto, FlushTypes, Writing
  <2>3. UNCHANGED glide \/ GlideTo("lower")
    BY <1>2 DEF Decide
  <2>. QED
    BY <2>1, <2>2, <2>3 DEF glide, GlideTo, Writing, Running
<1>3. CASE ReadPresent(u)
  <2>1. pc[t] = "write"
    BY <1>3 DEF ReadPresent, Goto, FlushTypes
  <2>. QED
    BY <1>3, <2>1 DEF AtOnce
<1>4. CASE Emit(u)
  <2>1. LimpLegs' = LimpLegs /\ UNCHANGED <<elapsed, older>>
    BY <1>4 DEF Emit, LimpLegs, bvars
  <2>2. CASE t = u
    <3>1. ps' = "on" /\ older = {} /\ LimpLegs = {}
      BY <1>4, <2>2, DecidesHeld
    <3>2. \A v \in Flushers : pc[v] \notin {"idle", "settle"}
      BY <1>4, <2>2, DecidesHeld DEF Power, NewComers
    <3>. QED
      BY <1>4, <2>1, <2>2, <3>1, <3>2 DEF Emit, Goto, FlushTypes
  <2>3. CASE t # u
    <3>1. pc[t] = "write"
      BY <1>4, <2>3 DEF Emit, Goto, FlushTypes
    <3>2. ps' = ps /\ pc'[u] \notin {"idle", "settle"}
      BY <1>4, <3>1 DEF Emit, Goto, FlushTypes, Writing
    <3>. QED
      BY <1>4, <2>1, <3>1, <3>2 DEF Emit, Goto, FlushTypes, Writing
  <2>. QED
    BY <2>2, <2>3
<1>5. CASE SendIdle(u)
  <2>1. pc[t] = "write"
    BY <1>5 DEF SendIdle, Leave, Goto, FlushTypes
  <2>. QED
    BY <1>5, <2>1 DEF SendIdle, Writing
<1>6. CASE SendPose(u)
  <2>1. pc[t] = "write" /\ pc[u] # "settle" /\ t # u
    BY <1>6 DEF SendPose, Leave, Goto, FlushTypes, Writing
  <2>2. LimpLegs' = {}
    BY <1>6, PoseHolds DEF SendPose
  <2>. QED
    BY <1>6, <2>1, <2>2 DEF SendPose, Leave, Goto, FlushTypes, Writing
<1>. QED
  BY <1>1, <1>2, <1>3, <1>4, <1>5, <1>6 DEF Flush

LEMMA OtherWriting ==
  ASSUME IInv, Writing, \/ People \/ GlideTime \/ Unused \/ UNCHANGED vars
                        \/ \E b \in Boards : Config(b)
  PROVE  Writing'
<1>. USE TypeParts DEF IInv
<1>. SUFFICES ASSUME NEW t \in Flushers, pc'[t] = "write"
              PROVE  /\ LimpLegs' = {}
                     /\ ps' = "on" \/ (ps' = "lower" /\ ~elapsed' /\ t \in older')
                     /\ \A v \in Flushers : pc'[v] \notin {"idle", "settle"}
  BY DEF Writing
<1>1. UNCHANGED pc
  BY DEF People, RestNow, WakeServos, Moves, LocalOff, HostEnd, Uses, LeavesOff, Owns,
     LocalDirect, HostTick, Config, GlideTime, Unused, locals, power, vars
<1>2. owner = "free"
  BY <1>1 DEF Power, QuietOwner, Running
<1>3. UNCHANGED <<ps, older>> /\ (elapsed' # elapsed => older = {} /\ ps \in {"glide", "lower"})
  BY <1>2 DEF People, RestNow, WakeServos, Moves, LocalOff, HostEnd, Uses, LeavesOff, Owns,
     LocalDirect, HostTick, Config, GlideTime, Unused, glide, power, vars
<1>4. LimpLegs' = LimpLegs
  BY <1>2 DEF People, RestNow, WakeServos, Moves, LocalOff, HostEnd, Uses, LeavesOff, Owns,
     LocalDirect, HostTick, Config, TakeConfig, GlideTime, Unused, LimpLegs, bvars, power, vars
<1>. QED
  BY <1>1, <1>3, <1>4 DEF Writing

LEMMA StepWriting == IInv /\ Writing /\ [Next]_vars /\ [AtOnce]_vars => Writing'
<1>. SUFFICES ASSUME IInv, Writing, [Next]_vars, [AtOnce]_vars PROVE Writing'
  OBVIOUS
<1>1. CASE UNCHANGED vars
  BY <1>1, OtherWriting
<1>2. CASE AtOnce
  <2>1. BoardTypes'
    BY StepIInv, TypeParts DEF IInv, TypeOK, BoardTypes
  <2>2. ASSUME NEW u \in Flushers, Flush(u) PROVE Writing'
    BY <1>2, <2>1, <2>2, FlushWriting
  <2>. QED
    BY <2>2, OtherWriting DEF Next
<1>. QED
  BY <1>1, <1>2

\* The frames too: if no task is held up for as long as it takes to rest and
\* wake, limp legs get no bare goal, but those a local owner left limp.
THEOREM StartsAreSoft == TimelySpec => SoftStart
<1>. DEFINE Soft == \A t \in Flushers : pc[t] = "write" /\ pc'[t] # "write" => LimpLegs = {}
<1>1. Init => Writing
  BY DEF Init, Writing
<1>2. IInv /\ Writing /\ [Next]_vars /\ [AtOnce]_vars => Writing'
  BY StepWriting
<1>3. Writing => [Soft]_vars
  BY DEF Writing
<1>4. SentAtOnce <=> [][AtOnce]_vars
  BY PTL DEF SentAtOnce, AtOnce
<1>. QED
  BY <1>1, <1>2, <1>3, <1>4, Invariance, PTL DEF Spec, TimelySpec, SoftStart
=============================================================================
