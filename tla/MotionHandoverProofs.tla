------------------------ MODULE MotionHandoverProofs ------------------------
(***************************************************************************)
(* Under the timing the code's comments assume, the two words, the count   *)
(* and the fixed waits implement an exclusive bus, for any number of HTTP  *)
(* and skill tasks.                                                        *)
(***************************************************************************)
EXTENDS MotionHandover, MotionCoreProofs

\* Past a fence, and about to free the bus.
Guarded == {"on_test", "on_write", "lk_test", "lk_write", "sg_write"}
Freeing == {"off_write", "ul_write"}

\* In a Pi session nobody is past the fence.
PastFence == master => \A t \in Locals : pc[t] \notin Guarded

\* The host's bus is the host's, and nobody is about to free it.
HostOwns == pi \in {"hb_wait", "host", "he_bus"} =>
              owner = "HOST" /\ \A t \in Locals : pc[t] \notin Freeing

\* No flush is writing once host::begin() is through its wait.
HostStill == pi \in {"host", "he_bus"} => InFlight = {}

TimelyInv == Inv /\ ~late /\ PastFence /\ HostOwns /\ HostStill

-----------------------------------------------------------------------------
(* What one local step does to the places the words depend on.             *)

\* Task t goes to q.
Kind(t, q) ==
  /\ pc' = [pc EXCEPT ![t] = q]
  /\ q \in Guarded /\ master => pc[t] \in Guarded
  /\ q \in Freeing => owner \in {"STUDIO", "SKILL"}
  /\ q = "fl_frame" => owner = "FREE" /\ pc[t] = "fl_test" /\ owner' = owner
  /\ pc[t] = "settle" => /\ owner' = owner
                         /\ late' = (late \/ (owner # "FREE" /\ InFlight # {}))
  /\ \/ owner' = owner /\ q # "settle"
     \/ /\ pc[t] \in {"on_write", "lk_write"} /\ q = "settle"
        /\ owner' \in {"STUDIO", "SKILL"}
     \/ pc[t] \in Freeing /\ q # "settle" /\ owner' = "FREE"

Stays == UNCHANGED <<pc, owner>>

LEMMA LocalKinds ==
  ASSUME TypeOK, LocalNext
  PROVE  Stays \/ \E t \in Tasks, q \in Places : Kind(t, q)
<1>a. Consoles \subseteq Tasks /\ Skills \subseteq Tasks /\ Gait \in Tasks
  BY DEF Tasks, Locals
<1>b. \A t \in Tasks : ret[t] \in {"idle", "sw_flush", "sw_off", "run", "end_unlock", "rel_test", "off"}
  BY DEF TypeOK, Callers
<1>c. {"idle", "sw_flush", "sw_off", "run", "end_unlock", "rel_test", "off"} \subseteq Places
  BY DEF Places, ConsolePlaces, SkillPlaces
<1> USE <1>a, <1>b, <1>c DEF Goto, Call, Return, shared, SetOwner, Stays, Kind, Guarded, Freeing
<1>1. ASSUME NEW t \in Consoles, ConsoleCall(t) PROVE \E q \in Places : Kind(t, q)
  BY <1>1 DEF ConsoleCall, Places, ConsolePlaces, Commanding
<1>2. ASSUME NEW t \in Consoles, SweepStart(t) \/ SweepFlush(t) \/ SweepOff(t)
      PROVE  \E q \in Places : Kind(t, q)
  BY <1>2 DEF SweepStart, SweepFlush, SweepOff, Places, ConsolePlaces, Flushing
<1>3. ASSUME NEW t \in Consoles, StudioFence(t) \/ StudioTest(t) \/ StudioWrite(t)
      PROVE  \E q \in Places : Kind(t, q)
  BY <1>3 DEF StudioFence, StudioTest, StudioWrite, Places, ConsolePlaces
<1>4. ASSUME NEW t \in Consoles, StudioOffTest(t) \/ StudioOffWrite(t)
      PROVE  \E q \in Places : Kind(t, q)
  BY <1>4 DEF StudioOffTest, StudioOffWrite, Places, ConsolePlaces
<1>5. ASSUME NEW t \in Tasks, Settle(t) PROVE \E q \in Places : Kind(t, q)
  BY <1>5 DEF Settle
<1>6. ASSUME NEW t \in Tasks, FlushFence(t) \/ FlushRaise(t) \/ FlushTest(t) \/ FlushFrame(t)
      PROVE  \E q \in Places : Kind(t, q)
  BY <1>6 DEF FlushFence, FlushRaise, FlushTest, FlushFrame, Places, GaitPlaces
<1>7. ASSUME NEW t \in Tasks, SendFence(t) \/ SendWrite(t) PROVE \E q \in Places : Kind(t, q)
  BY <1>7 DEF SendFence, SendWrite, Places, ConsolePlaces, Commanding
<1>8. ASSUME NEW t \in Skills, LockFence(t) \/ LockTest(t) \/ LockWrite(t)
      PROVE  \E q \in Places : Kind(t, q)
  BY <1>8 DEF LockFence, LockTest, LockWrite, LockRefused, Places, SkillPlaces
<1>9. ASSUME NEW t \in Skills, UnlockTest(t) \/ UnlockWrite(t) PROVE \E q \in Places : Kind(t, q)
  BY <1>9 DEF UnlockTest, UnlockWrite, Places, SkillPlaces
<1>10. ASSUME NEW t \in Skills, SkillStart(t) \/ SkillCall(t) PROVE \E q \in Places : Kind(t, q)
  BY <1>10 DEF SkillStart, SkillCall, Places, SkillPlaces, Flushing, Commanding
<1>11. ASSUME NEW t \in Skills, SkillEnd(t) \/ EndTest(t) \/ EndUnlock(t) \/ ReleaseTest(t)
       PROVE  \E q \in Places : Kind(t, q)
  BY <1>11 DEF SkillEnd, EndTest, EndUnlock, ReleaseTest, Places, SkillPlaces
<1>12. ASSUME GaitFlush PROVE \E q \in Places : Kind(Gait, q)
  <2>1. "fl_raise" \in Places
    BY DEF Places, GaitPlaces
  <2>2. Kind(Gait, "fl_raise")
    BY <1>12 DEF GaitFlush
  <2> QED
    BY <2>1, <2>2
<1>13. ASSUME NEW t, ConsoleStop(t) \/ SkillReturned(t) \/ GaitMoveDone PROVE Stays
  BY <1>13 DEF ConsoleStop, SkillReturned, GaitMoveDone
<1> QED
  BY <1>1, <1>2, <1>3, <1>4, <1>5, <1>6, <1>7, <1>8, <1>9, <1>10, <1>11, <1>12, <1>13
     DEF LocalNext, ConsoleStep, SkillStep, GaitStep, FlushStep

\* The frames and the waits of a step of one task.
LEMMA KindMoves ==
  ASSUME TypeOK, NEW t \in Tasks, NEW q \in Places, Kind(t, q)
  PROVE  /\ pc'[t] = q
         /\ \A u \in Tasks \ {t} : pc'[u] = pc[u]
         /\ InFlight' = IF q = "fl_frame" THEN InFlight \cup {t} ELSE InFlight \ {t}
  BY DEF TypeOK, InPlace, Kind, InFlight

-----------------------------------------------------------------------------
(* The invariant.                                                          *)

LEMMA TimelyLocal ==
  ASSUME TimelyInv, LocalNext
  PROVE  PastFence' /\ HostOwns' /\ HostStill'
<1>1. FenceKept /\ UNCHANGED <<master, pi>>
  BY LocalFence DEF TimelyInv, Inv, FenceKept
<1>2. CASE Stays
  BY <1>1, <1>2 DEF TimelyInv, PastFence, HostOwns, HostStill, Stays, InFlight
<1>3. ASSUME NEW t \in Tasks, NEW q \in Places, Kind(t, q)
      PROVE  PastFence' /\ HostOwns' /\ HostStill'
  <2>1. pc'[t] = q /\ (\A u \in Tasks \ {t} : pc'[u] = pc[u]) /\ Locals \subseteq Tasks
        /\ InFlight' = IF q = "fl_frame" THEN InFlight \cup {t} ELSE InFlight \ {t}
    BY <1>3, KindMoves DEF TimelyInv, Inv, Tasks
  <2>2. t \in Locals \/ pc[t] \notin Guarded \cup Freeing
    BY DEF TimelyInv, Inv, TypeOK, InPlace, Tasks, GaitPlaces, Guarded, Freeing
  <2>3. t \in Locals \/ q \notin Guarded \cup Freeing
    <3>1. TypeOK'
      BY TypeNext DEF TimelyInv, Inv, Next, LocalNext
    <3> QED
      BY <2>1, <3>1 DEF TypeOK, InPlace, Tasks, GaitPlaces, Guarded, Freeing
  <2>4. PastFence'
    BY <1>1, <1>3, <2>1, <2>2 DEF TimelyInv, PastFence, Kind
  <2>5. ASSUME pi \in {"hb_wait", "host", "he_bus"}
        PROVE  /\ owner' = "HOST" /\ q \notin Freeing
               /\ InFlight' \subseteq InFlight
    <3>1. master /\ owner = "HOST" /\ pc[t] \notin Guarded \cup Freeing
      BY <2>2, <2>5 DEF TimelyInv, Inv, PiFlags, PastFence, HostOwns
    <3> QED
      BY <1>3, <2>1, <3>1 DEF Kind, Guarded
  <2>6. HostOwns'
    BY <1>1, <2>1, <2>5 DEF TimelyInv, HostOwns
  <2>7. HostStill'
    BY <1>1, <2>5 DEF TimelyInv, HostStill
  <2> QED
    BY <2>4, <2>6, <2>7
<1> QED
  BY <1>2, <1>3, LocalKinds DEF TimelyInv, Inv

\* What the Pi's steps leave alone.
LEMMA PiLeaves ==
  ASSUME MasterStep \/ HostStep
  PROVE  UNCHANGED <<busy, running, pc, ret>>
BY DEF MasterStep, HostStep, MasterFence, MasterTakeBus, MasterClear, MasterSend,
   MasterEnd, MasterUnfence, HostFence, HostRaise, HostClear, HostTakeBus, HostWait,
   HostEnd, HostFreeBus, HostLower, HostUnfence

LEMMA TimelyPi ==
  ASSUME TimelyInv, Timely, MasterStep \/ HostStep
  PROVE  PastFence' /\ HostOwns' /\ HostStill'
<1>1. pc' = pc /\ InFlight' = InFlight
  BY PiLeaves DEF InFlight
<1>2. pi' # pi => \A t \in Locals : pc[t] \notin Guarded \cup Freeing
  BY DEF Timely, MidCall, Guarded, Freeing
<1>3. pi' = pi => UNCHANGED <<owner, master>>
  BY DEF MasterStep, HostStep, MasterFence, MasterTakeBus, MasterClear, MasterSend,
     MasterEnd, MasterUnfence, HostFence, HostRaise, HostClear, HostTakeBus, HostWait,
     HostEnd, HostFreeBus, HostLower, HostUnfence
<1>4. PastFence'
  BY <1>1, <1>2, <1>3 DEF TimelyInv, PastFence
<1>5. pi' \in {"hb_wait", "host", "he_bus"} =>
        pi' = pi \/ owner' = "HOST"
  BY DEF TimelyInv, HostOwns, MasterStep, HostStep, MasterFence, MasterTakeBus, MasterClear,
     MasterSend, MasterEnd, MasterUnfence, HostFence, HostRaise, HostClear, HostTakeBus,
     HostWait, HostEnd, HostFreeBus, HostLower, HostUnfence
<1>6. HostOwns'
  BY <1>1, <1>2, <1>3, <1>5 DEF TimelyInv, HostOwns
<1>7. HostWait => InFlight = {}
  BY DEF Timely, HostWait, TimelyInv, Inv, Counted, InFlight, TypeOK
<1>8. pi' \in {"host", "he_bus"} => pi \in {"host", "he_bus"} \/ HostWait
  BY DEF MasterStep, HostStep, MasterFence, MasterTakeBus, MasterClear,
     MasterSend, MasterEnd, MasterUnfence, HostFence, HostRaise, HostClear, HostTakeBus,
     HostEnd, HostFreeBus, HostLower, HostUnfence
<1>9. HostStill'
  BY <1>1, <1>7, <1>8 DEF TimelyInv, HostStill
<1> QED
  BY <1>4, <1>6, <1>9

LEMMA TimelyInit == Init => TimelyInv
<1> SUFFICES ASSUME Init PROVE TimelyInv
  OBVIOUS
<1> QED
  BY InvInit DEF Init, TimelyInv, PastFence, HostOwns, HostStill

LEMMA TimelyNext == TimelyInv /\ [Next /\ Timely]_vars => TimelyInv'
<1> SUFFICES ASSUME TimelyInv, [Next /\ Timely]_vars PROVE TimelyInv'
  OBVIOUS
<1>1. Inv'
  BY InvNext DEF TimelyInv
<1>2. CASE UNCHANGED vars
  BY <1>1, <1>2 DEF vars, TimelyInv, PastFence, HostOwns, HostStill, InFlight
<1>3. CASE LocalNext /\ Timely
  BY <1>1, <1>3, TimelyLocal DEF TimelyInv, Timely
<1>4. CASE (MasterStep \/ HostStep) /\ Timely
  BY <1>1, <1>4, TimelyPi DEF TimelyInv, Timely
<1> QED
  BY <1>2, <1>3, <1>4 DEF Next, LocalNext

\* Under the timing assumptions the invariant holds throughout.
THEOREM TimelyInvariant == TimelySpec => []TimelyInv
BY TimelyInit, TimelyNext, PTL DEF TimelySpec

\* robot.h's promise, which FlushSilentUnderHost states and MotionCore alone
\* refutes, holds when no call is caught between its test and its write: while
\* the Pi's policy runs, flush() writes nothing.
THEOREM SilentUnderHost == TimelySpec => []FlushSilentUnderHost
<1>1. TimelyInv => FlushSilentUnderHost
  BY DEF TimelyInv, HostStill, FlushSilentUnderHost
<1> QED
  BY <1>1, TimelyInvariant, PTL

-----------------------------------------------------------------------------
(* The refinement.                                                         *)

\* A holder other than the gait has no frame on its way, whoever waits for what.
LEMMA GrantIsStill ==
  ASSUME TimelyInv, Grant # "gait"
  PROVE  InFlight = {}
BY DEF Grant, TimelyInv, Inv, LocalOwnerAlone, HostStill

\* A new grant is the abstract one's if no frame is on its way.
LEMMA Regranting ==
  ASSUME InFlight = {}, InFlight' = InFlight
  PROVE  Abstract!Next
<1>1. Grant' \in {"gait", "local", "host"}
  BY DEF Grant
<1> QED
  BY <1>1 DEF Abstract!Next, Abstract!Regrant

\* Frames begin under the gait's grant; the words change while none is written.
LEMMA StepLocal ==
  ASSUME TimelyInv, LocalNext, TimelyInv'
  PROVE  Abstract!Next \/ UNCHANGED <<Grant, InFlight>>
<1>1. pi' = pi /\ master' = master
  BY LocalFence DEF TimelyInv, Inv, FenceKept
<1>2. CASE Stays
  BY <1>1, <1>2 DEF Stays, Grant, InFlight
<1>3. ASSUME NEW t \in Tasks, NEW q \in Places, Kind(t, q)
      PROVE  Abstract!Next \/ UNCHANGED <<Grant, InFlight>>
  <2>1. pc'[t] = q /\ (\A u \in Tasks \ {t} : pc'[u] = pc[u]) /\ Locals \subseteq Tasks
        /\ InFlight' = IF q = "fl_frame" THEN InFlight \cup {t} ELSE InFlight \ {t}
    BY <1>3, KindMoves DEF TimelyInv, Inv, Tasks
  <2>2. t \notin Locals => pc[t] # "settle" /\ q # "settle"
    BY <2>1 DEF TimelyInv, Inv, TypeOK, InPlace, Tasks, GaitPlaces
  <2>3. CASE q = "fl_frame"
    <3>1. owner = "FREE" /\ owner' = owner /\ pc[t] = "fl_test"
      BY <1>3, <2>3 DEF Kind
    <3>2. Grant = "gait" /\ Grant' = "gait" /\ t \notin InFlight
      BY <3>1 DEF Grant, InFlight
    <3> QED
      BY <2>1, <2>3, <3>2 DEF Abstract!Next, Abstract!StartFrame
  <2>4. CASE pc[t] = "fl_frame"
    <3>1. owner' = owner /\ q # "settle"
      BY <1>3, <2>4 DEF Kind, Freeing
    <3>2. \A u \in Locals : pc[u] = "settle" <=> pc'[u] = "settle"
      BY <2>1, <2>4, <3>1
    <3>3. Grant' = Grant
      BY <1>1, <3>1, <3>2 DEF Grant
    <3>4. CASE q # "fl_frame"
      BY <2>1, <2>4, <3>3, <3>4 DEF Abstract!Next, Abstract!EndFrame, InFlight
    <3> QED
      BY <2>3, <3>4
  <2>5. CASE q # "fl_frame" /\ pc[t] # "fl_frame"
    <3>1. InFlight' = InFlight
      BY <2>1, <2>5 DEF InFlight
    <3>2. CASE pc[t] = "settle" /\ q # "settle"
      <4>1. owner = "FREE" \/ InFlight = {}
        BY <1>3, <3>2 DEF Kind, TimelyInv
      <4>2. CASE owner = "FREE"
        BY <1>3, <3>1, <3>2, <4>2 DEF Kind, Grant
      <4> QED
        BY <3>1, <4>1, <4>2, Regranting
    <3>3. CASE pc[t] # "settle" /\ q # "settle" /\ owner' = owner
      <4>1. \A u \in Locals : pc[u] = "settle" <=> pc'[u] = "settle"
        BY <2>1, <3>3
      <4> QED
        BY <1>1, <3>1, <3>3, <4>1 DEF Grant
    <3>4. CASE pc[t] \in {"on_write", "lk_write"} /\ q = "settle"
      <4>1. Grant' = "gait"
        BY <1>3, <2>1, <2>2, <3>4 DEF Kind, Grant, Freeing
      <4>2. Grant = "gait" \/ InFlight = {}
        BY GrantIsStill
      <4> QED
        BY <3>1, <4>1, <4>2, Regranting
    <3>5. CASE pc[t] \in Freeing /\ q # "settle" /\ owner' = "FREE"
      <4>1. Grant' = "gait"
        BY <3>5 DEF Grant
      <4>2. Grant = "gait" \/ InFlight = {}
        BY GrantIsStill
      <4> QED
        BY <3>1, <4>1, <4>2, Regranting
    <3> QED
      BY <1>3, <3>2, <3>3, <3>4, <3>5 DEF Kind
  <2> QED
    BY <2>3, <2>4, <2>5
<1> QED
  BY <1>2, <1>3, LocalKinds DEF TimelyInv, Inv

\* The Pi's steps write no frame, and move the grant only when none is written.
LEMMA StepPi ==
  ASSUME TimelyInv, MasterStep \/ HostStep, TimelyInv'
  PROVE  Abstract!Next \/ UNCHANGED <<Grant, InFlight>>
<1>1. pc' = pc /\ InFlight' = InFlight
  BY PiLeaves DEF InFlight
<1>2. Grant' # Grant => InFlight = {}
  <2>1. Grant = "gait" \/ InFlight = {}
    BY GrantIsStill
  <2>2. Grant' = "gait" \/ InFlight' = {}
    BY <1>1 DEF Grant, TimelyInv, Inv, LocalOwnerAlone, HostStill
  <2> QED
    BY <1>1, <2>1, <2>2
<1> QED
  BY <1>1, <1>2, Regranting

\* s_bus_owner, s_master, s_flush_busy and the fixed waits implement an exclusive
\* bus: one holder, frames under the gait's grant only, no change of hands with
\* a frame on its way.
THEOREM ImplementsBus == TimelySpec => BusIsExclusive
<1>1. Init => Abstract!Init
  BY DEF Init, Abstract!Init, Grant, InFlight
<1>2. TimelyInv /\ TimelyInv' /\ [Next /\ Timely]_vars => [Abstract!Next]_<<Grant, InFlight>>
  <2> SUFFICES ASSUME TimelyInv, TimelyInv', [Next /\ Timely]_vars
               PROVE  Abstract!Next \/ UNCHANGED <<Grant, InFlight>>
    OBVIOUS
  <2>1. CASE UNCHANGED vars
    BY <2>1 DEF vars, Grant, InFlight
  <2> QED
    BY <2>1, StepLocal, StepPi DEF Next, LocalNext
<1> QED
  BY <1>1, <1>2, TimelyInvariant, PTL DEF TimelySpec, BusIsExclusive, Abstract!Spec
=============================================================================
