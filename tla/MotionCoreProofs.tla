-------------------------- MODULE MotionCoreProofs --------------------------
(***************************************************************************)
(* Safety of the bus arbitration, for any number of HTTP and skill tasks.  *)
(***************************************************************************)
EXTENDS MotionCore, TLAPS

(* Types: where a task goes, and where it returns to, is its own code.     *)

Own(t) == IF t \in Consoles THEN ConsolePlaces
          ELSE IF t \in Skills THEN SkillPlaces ELSE GaitPlaces

Placed == InPlace(pc) /\ InPlace(ret) /\ ret \in [Tasks -> Callers]

LEMMA OwnOf ==
  /\ \A t \in Consoles : Own(t) = ConsolePlaces
  /\ \A t \in Skills : Own(t) = SkillPlaces
  /\ Own(Gait) = GaitPlaces
  /\ \A t \in Tasks : {"fl_raise", "fl_test", "fl_frame"} \subseteq Own(t)
BY TasksAssumption DEF Own, Tasks, Locals, ConsolePlaces, SkillPlaces,
   GaitPlaces, Flushing

LEMMA Goes ==
  ASSUME NEW t \in Tasks, NEW p \in Own(t), NEW f, InPlace(f)
  PROVE  InPlace([f EXCEPT ![t] = p])
BY TasksAssumption DEF Own, InPlace, Tasks, Locals, Places

LEMMA OwnPlace ==
  ASSUME NEW t \in Tasks, NEW f, InPlace(f)
  PROVE  f[t] \in Own(t)
BY TasksAssumption DEF Own, InPlace, Tasks, Locals, Places

\* Goto, Call and Return leave every task in its own code.
LEMMA Going ==
  ASSUME Placed, NEW t \in Tasks
  PROVE  /\ \A p \in Own(t) : Goto(t, p) => Placed'
         /\ \A p \in Own(t), q \in Own(t) \cap Callers : Call(t, p, q) => Placed'
         /\ Return(t) => Placed'
<1>1. ASSUME NEW p \in Own(t), Goto(t, p) PROVE Placed'
  BY <1>1, Goes DEF Goto, Placed
<1>2. ASSUME NEW p \in Own(t), NEW q \in Own(t) \cap Callers, Call(t, p, q)
      PROVE  Placed'
  <2>1. InPlace(pc') /\ InPlace(ret')
    BY <1>2, Goes DEF Call, Placed
  <2>2. ret' \in [Tasks -> Callers]
    BY <1>2 DEF Call, Placed
  <2> QED
    BY <2>1, <2>2 DEF Placed
<1>3. ASSUME Return(t) PROVE Placed'
  BY <1>1, <1>3, OwnPlace DEF Return, Placed
<1> QED
  BY <1>1, <1>2, <1>3

LEMMA Refused ==
  ASSUME Placed, NEW t \in Skills, LockRefused(t)
  PROVE  Placed'
<1>1. t \in Tasks /\ ret[t] \in Own(t) /\ {"rel_test", "end_unlock"} \subseteq Own(t)
  BY OwnPlace, OwnOf DEF Tasks, Locals, Placed, SkillPlaces
<1> QED
  BY <1>1, Going DEF LockRefused

LEMMA TypeInit == Init => TypeOK
<1> SUFFICES ASSUME Init PROVE TypeOK
  OBVIOUS
<1> USE TasksAssumption DEF Init, Tasks, Locals
<1>1. InPlace(pc)
  BY DEF InPlace, Places, GaitPlaces, ConsolePlaces, SkillPlaces
<1>2. InPlace(ret)
  BY DEF InPlace, Places, GaitPlaces, ConsolePlaces, SkillPlaces
<1>3. ret \in [Tasks -> Callers]
  BY DEF Callers
<1> QED
  BY <1>1, <1>2, <1>3 DEF TypeOK, Owners, PiPlaces

LEMMA TypeNext == TypeOK /\ [Next]_vars => TypeOK'
<1> SUFFICES ASSUME TypeOK, [Next]_vars PROVE TypeOK'
  OBVIOUS
<1>a. Placed /\ Consoles \subseteq Tasks /\ Skills \subseteq Tasks /\ Gait \in Tasks
  BY DEF TypeOK, Tasks, Locals, Placed
<1> USE Going, OwnOf
<1> USE <1>a DEF TypeOK, Placed, shared, SetOwner, Owners, PiPlaces, Locals,
        ConsolePlaces, SkillPlaces, GaitPlaces, Callers, Flushing, Commanding,
        AskSkillToStop
<1>1. ASSUME NEW t \in Consoles, ConsoleCall(t) PROVE TypeOK'
  BY <1>1 DEF ConsoleCall
<1>2. ASSUME NEW t \in Consoles, ConsoleStop(t) PROVE TypeOK'
  BY <1>2 DEF ConsoleStop
<1>3. ASSUME NEW t \in Consoles, SweepStart(t) PROVE TypeOK'
  BY <1>3 DEF SweepStart
<1>4. ASSUME NEW t \in Consoles, StudioFence(t) PROVE TypeOK'
  BY <1>4 DEF StudioFence
<1>5. ASSUME NEW t \in Consoles, StudioTest(t) PROVE TypeOK'
  BY <1>5 DEF StudioTest
<1>6. ASSUME NEW t \in Consoles, StudioWrite(t) PROVE TypeOK'
  BY <1>6 DEF StudioWrite
<1>7. ASSUME NEW t \in Consoles, StudioOffTest(t) PROVE TypeOK'
  BY <1>7 DEF StudioOffTest
<1>8. ASSUME NEW t \in Consoles, StudioOffWrite(t) PROVE TypeOK'
  BY <1>8 DEF StudioOffWrite
<1>9. ASSUME NEW t \in Consoles, SweepFlush(t) PROVE TypeOK'
  BY <1>9 DEF SweepFlush
<1>10. ASSUME NEW t \in Consoles, SweepOff(t) PROVE TypeOK'
  BY <1>10 DEF SweepOff
<1>11. ASSUME NEW t \in Skills, SkillStart(t) PROVE TypeOK'
  <2>1. "run" \in Own(t) \cap Callers /\ Placed'
    BY <1>11 DEF SkillStart
  <2> QED
    BY <1>11, <2>1 DEF SkillStart
<1>12. ASSUME NEW t \in Skills, SkillCall(t) PROVE TypeOK'
  <2>1. PICK place \in {"fl_fence", "sg_fence", "lk_fence", "ul_test"} :
          Call(t, place, "run")
    BY <1>12 DEF SkillCall
  <2>2. place \in Own(t) /\ "run" \in Own(t) \cap Callers
    OBVIOUS
  <2>3. Placed'
    BY <2>1, <2>2
  <2> QED
    BY <1>12, <2>3 DEF SkillCall
<1>13. ASSUME NEW t \in Skills, SkillReturned(t) PROVE TypeOK'
  BY <1>13 DEF SkillReturned
<1>14. ASSUME NEW t \in Skills, LockFence(t) PROVE TypeOK'
  BY <1>14, Refused DEF LockFence
<1>15. ASSUME NEW t \in Skills, LockTest(t) PROVE TypeOK'
  BY <1>15, Refused DEF LockTest
<1>16. ASSUME NEW t \in Skills, LockWrite(t) PROVE TypeOK'
  BY <1>16 DEF LockWrite
<1>17. ASSUME NEW t \in Skills, UnlockTest(t) PROVE TypeOK'
  BY <1>17 DEF UnlockTest
<1>18. ASSUME NEW t \in Skills, UnlockWrite(t) PROVE TypeOK'
  BY <1>18 DEF UnlockWrite
<1>19. ASSUME NEW t \in Skills, SkillEnd(t) PROVE TypeOK'
  BY <1>19 DEF SkillEnd
<1>20. ASSUME NEW t \in Skills, EndTest(t) PROVE TypeOK'
  BY <1>20 DEF EndTest
<1>21. ASSUME NEW t \in Skills, EndUnlock(t) PROVE TypeOK'
  <2>1. "ul_test" \in Own(t) /\ "rel_test" \in Own(t) \cap Callers
    OBVIOUS
  <2>2. Placed'
    BY <1>21, <2>1 DEF EndUnlock
  <2> QED
    BY <1>21, <2>2 DEF EndUnlock
<1>22. ASSUME NEW t \in Skills, ReleaseTest(t) PROVE TypeOK'
  <2>1. "ul_test" \in Own(t) /\ "off" \in Own(t) \cap Callers
    OBVIOUS
  <2>2. Placed'
    BY <1>22, <2>1 DEF ReleaseTest
  <2> QED
    BY <1>22, <2>2 DEF ReleaseTest
<1>23. ASSUME NEW t \in Locals, Settle(t) PROVE TypeOK'
  BY <1>23 DEF Settle
<1>24. ASSUME NEW t \in Locals, FlushFence(t) PROVE TypeOK'
  BY <1>24 DEF FlushFence
<1>25. ASSUME NEW t \in Locals, SendFence(t) PROVE TypeOK'
  BY <1>25 DEF SendFence
<1>26. ASSUME NEW t \in Locals, SendWrite(t) PROVE TypeOK'
  BY <1>26 DEF SendWrite
<1>27. ASSUME NEW t \in Tasks, FlushRaise(t) PROVE TypeOK'
  BY <1>27 DEF FlushRaise
<1>28. ASSUME NEW t \in Tasks, FlushTest(t) PROVE TypeOK'
  BY <1>28 DEF FlushTest
<1>29. ASSUME NEW t \in Tasks, FlushFrame(t) PROVE TypeOK'
  BY <1>29 DEF FlushFrame
<1>30. CASE GaitFlush
  BY <1>30 DEF GaitFlush
<1>31. CASE GaitMoveDone
  BY <1>31 DEF GaitMoveDone
<1>32. CASE MasterFence
  BY <1>32 DEF MasterFence
<1>33. CASE MasterTakeBus
  BY <1>33 DEF MasterTakeBus
<1>34. CASE MasterClear
  BY <1>34 DEF MasterClear
<1>35. CASE MasterSend
  BY <1>35 DEF MasterSend
<1>36. CASE MasterEnd
  BY <1>36 DEF MasterEnd
<1>37. CASE MasterUnfence
  BY <1>37 DEF MasterUnfence
<1>38. CASE HostFence
  BY <1>38 DEF HostFence
<1>39. CASE HostRaise
  BY <1>39 DEF HostRaise
<1>40. CASE HostClear
  BY <1>40 DEF HostClear
<1>41. CASE HostTakeBus
  BY <1>41 DEF HostTakeBus
<1>42. CASE HostWait
  BY <1>42 DEF HostWait
<1>43. CASE HostEnd
  BY <1>43 DEF HostEnd
<1>44. CASE HostFreeBus
  BY <1>44 DEF HostFreeBus
<1>45. CASE HostLower
  BY <1>45 DEF HostLower
<1>46. CASE HostUnfence
  BY <1>46 DEF HostUnfence
<1>47. CASE UNCHANGED vars
  BY <1>47 DEF TypeOK, InPlace, vars
<1> HIDE Going, OwnOf, <1>a DEF TypeOK, Placed, shared, SetOwner, Owners, PiPlaces,
         ConsolePlaces, SkillPlaces, GaitPlaces, Callers, Flushing, Commanding,
         AskSkillToStop
<1> QED
  BY <1>1, <1>2, <1>3, <1>4, <1>5, <1>6, <1>7, <1>8, <1>9, <1>10,
     <1>11, <1>12, <1>13, <1>14, <1>15, <1>16, <1>17, <1>18, <1>19, <1>20,
     <1>21, <1>22, <1>23, <1>24, <1>25, <1>26, <1>27, <1>28, <1>29, <1>30,
     <1>31, <1>32, <1>33, <1>34, <1>35, <1>36, <1>37, <1>38, <1>39, <1>40,
     <1>41, <1>42, <1>43, <1>44, <1>45, <1>46, <1>47
     DEF Next, ConsoleStep, SkillStep, FlushStep, GaitStep, MasterStep, HostStep,
         Tasks

\* Every variable has its type, and no return lands in another caller's code.
THEOREM TypeCorrect == Spec => []TypeOK
BY TypeInit, TypeNext, PTL DEF Spec

-----------------------------------------------------------------------------
(* What a step of a local task may do to the rest.                         *)

LocalNext ==
  \/ \E t \in Consoles : ConsoleCall(t) \/ ConsoleStop(t) \/ SweepStart(t)
                          \/ ConsoleStep(t)
  \/ \E t \in Skills : SkillStart(t) \/ SkillCall(t) \/ SkillReturned(t)
                        \/ SkillStep(t)
  \/ GaitStep \/ GaitMoveDone

\* No local step moves the fence, and one that gives the bus or a command away
\* while the fence is up is remembered.
FenceKept ==
  /\ UNCHANGED <<master, host, pi>>
  /\ intruded => intruded'
  /\ late => late'
  /\ \/ owner' = owner /\ cmd' \in {cmd, "none"} /\ intruded' = intruded
     \/ intruded' = (intruded \/ master)

LEMMA LocalFence == TypeOK /\ LocalNext => FenceKept
<1> SUFFICES ASSUME TypeOK, LocalNext PROVE FenceKept
  OBVIOUS
<1> USE DEF TypeOK
<1>1. ASSUME NEW t \in Consoles,
             ConsoleCall(t) \/ ConsoleStop(t) \/ SweepStart(t) \/ ConsoleStep(t)
      PROVE  FenceKept
  BY <1>1 DEF FenceKept, ConsoleCall, ConsoleStop, SweepStart, ConsoleStep, FlushStep,
     StudioFence, StudioTest, StudioWrite, Settle, StudioOffTest, StudioOffWrite,
     SweepFlush, SweepOff, FlushFence, FlushRaise, FlushTest, FlushFrame,
     SendFence, SendWrite, SetOwner, shared
<1>2. ASSUME NEW t \in Skills,
             SkillStart(t) \/ SkillCall(t) \/ SkillReturned(t) \/ SkillStep(t)
      PROVE  FenceKept
  BY <1>2 DEF FenceKept, SkillStart, SkillCall, SkillReturned, SkillStep, FlushStep,
     LockFence, LockTest, LockWrite, Settle, UnlockTest, UnlockWrite, FlushFence,
     FlushRaise, FlushTest, FlushFrame, SendFence, SendWrite, SkillEnd, EndTest,
     EndUnlock, ReleaseTest, SetOwner, shared
<1>3. ASSUME GaitStep \/ GaitMoveDone PROVE FenceKept
  BY <1>3 DEF FenceKept, GaitStep, GaitMoveDone, GaitFlush, FlushRaise, FlushTest,
     FlushFrame, shared
<1> QED
  BY <1>1, <1>2, <1>3 DEF LocalNext

\* A frame starts only while s_bus_owner is FREE.
LEMMA LocalFrames ==
  ASSUME TypeOK, LocalNext, owner # "FREE"
  PROVE  InFlight' \subseteq InFlight
<1>a. \A t \in Tasks : ret[t] # "fl_frame"
  BY DEF TypeOK, Callers
<1>b. ASSUME NEW t \in Tasks, NEW p, p # "fl_frame", Goto(t, p) \/ (\E q : Call(t, p, q))
      PROVE  InFlight' \subseteq InFlight
  BY <1>b DEF TypeOK, InPlace, Goto, Call, InFlight
<1>c. \A t \in Tasks : \A p : p # "fl_frame" /\ (Goto(t, p) \/ \E q : Call(t, p, q))
                              => InFlight' \subseteq InFlight
  BY <1>b
<1>d. \A t \in Tasks : Return(t) => InFlight' \subseteq InFlight
  BY <1>a, <1>c DEF Return
<1>e. Consoles \subseteq Tasks /\ Skills \subseteq Tasks /\ Gait \in Tasks
  BY DEF Tasks, Locals
<1>f. pc' = pc => InFlight' \subseteq InFlight
  BY DEF InFlight
<1> USE <1>a, <1>c, <1>d, <1>e, <1>f
<1>1. ASSUME NEW t \in Consoles,
             ConsoleCall(t) \/ ConsoleStop(t) \/ SweepStart(t) \/ ConsoleStep(t)
      PROVE  InFlight' \subseteq InFlight
  BY <1>1 DEF ConsoleCall, ConsoleStop, SweepStart, ConsoleStep, FlushStep,
     StudioFence, StudioTest, StudioWrite, Settle, StudioOffTest, StudioOffWrite,
     SweepFlush, SweepOff, FlushFence, FlushRaise, FlushTest, FlushFrame,
     SendFence, SendWrite
<1>2. ASSUME NEW t \in Skills,
             SkillStart(t) \/ SkillCall(t) \/ SkillReturned(t) \/ SkillStep(t)
      PROVE  InFlight' \subseteq InFlight
  BY <1>2 DEF SkillStart, SkillCall, SkillReturned, SkillStep, FlushStep,
     LockFence, LockTest, LockWrite, LockRefused, Settle, UnlockTest, UnlockWrite,
     FlushFence, FlushRaise, FlushTest, FlushFrame, SendFence, SendWrite, SkillEnd,
     EndTest, EndUnlock, ReleaseTest
<1>3. ASSUME GaitStep \/ GaitMoveDone PROVE InFlight' \subseteq InFlight
  BY <1>3 DEF GaitStep, GaitMoveDone, GaitFlush, FlushRaise, FlushTest, FlushFrame
<1> QED
  BY <1>1, <1>2, <1>3 DEF LocalNext

\* s_flush_busy goes up with the first step of a flush and down with its last.
LEMMA LocalCounts ==
  ASSUME TypeOK, Counted, LocalNext
  PROVE  Counted'
<1>a. Consoles \subseteq Tasks /\ Skills \subseteq Tasks /\ Gait \in Tasks
  BY DEF Tasks, Locals
<1>b. \A t \in Tasks : \A p :
        /\ Goto(t, p) \/ \E q : Call(t, p, q)
        /\ \/ busy' = busy /\ {p, pc[t]} \cap {"fl_test", "fl_frame"} = {}
           \/ busy' = busy \cup {t} /\ p = "fl_test"
           \/ busy' = busy /\ {p, pc[t]} = {"fl_test", "fl_frame"}
           \/ busy' = busy \ {t} /\ p \notin {"fl_test", "fl_frame"}
        => Counted'
  BY DEF TypeOK, InPlace, Goto, Call, Counted
<1>c. \A t \in Tasks : Return(t) => \E p \in Callers : p = ret[t] /\ Goto(t, p)
  BY DEF TypeOK, Return
<1>d. Callers \cap {"fl_test", "fl_frame"} = {}
  BY DEF Callers
<1>e. pc' = pc /\ busy' = busy => Counted'
  BY DEF Counted
<1>f. \A t \in Tasks : /\ Return(t)
                        /\ \/ busy' = busy /\ pc[t] \notin {"fl_test", "fl_frame"}
                           \/ busy' = busy \ {t}
                        => Counted'
  BY <1>b, <1>c, <1>d
<1>g. \A t \in Tasks : ret[t] \in Callers
  BY DEF TypeOK
<1> USE <1>a, <1>b, <1>d, <1>e, <1>f, <1>g
<1>1. ASSUME NEW t \in Consoles,
             ConsoleCall(t) \/ ConsoleStop(t) \/ SweepStart(t) \/ ConsoleStep(t)
      PROVE  Counted'
  BY <1>1 DEF ConsoleCall, ConsoleStop, SweepStart, ConsoleStep, FlushStep,
     StudioFence, StudioTest, StudioWrite, Settle, StudioOffTest, StudioOffWrite,
     SweepFlush, SweepOff, FlushFence, FlushRaise, FlushTest, FlushFrame,
     SendFence, SendWrite, SetOwner, shared
<1>2. ASSUME NEW t \in Skills,
             SkillStart(t) \/ SkillCall(t) \/ SkillReturned(t) \/ SkillStep(t)
      PROVE  Counted'
  BY <1>2 DEF SkillStart, SkillCall, SkillReturned, SkillStep, FlushStep,
     LockFence, LockTest, LockWrite, LockRefused, Settle, UnlockTest, UnlockWrite,
     FlushFence, FlushRaise, FlushTest, FlushFrame, SendFence, SendWrite, SkillEnd,
     EndTest, EndUnlock, ReleaseTest, SetOwner, shared
<1>3. ASSUME GaitStep \/ GaitMoveDone PROVE Counted'
  BY <1>3 DEF GaitStep, GaitMoveDone, GaitFlush, FlushRaise, FlushTest, FlushFrame, shared
<1> QED
  BY <1>1, <1>2, <1>3 DEF LocalNext

\* The bus is taken by going into the wait, and left in it by nothing else.
Settling ==
  /\ (\E t \in Locals : pc[t] = "settle" /\ pc'[t] # "settle")
       => late' = (late \/ (owner # "FREE" /\ InFlight # {}))
  /\ owner' # owner /\ owner' \in {"STUDIO", "SKILL"}
       => \E t \in Locals : pc'[t] = "settle"

LEMMA LocalWaits ==
  ASSUME TypeOK, LocalNext
  PROVE  Settling
<1>a. Consoles \subseteq Locals /\ Skills \subseteq Locals /\ Gait \in Tasks
      /\ Locals \subseteq Tasks /\ Gait \notin Locals
  BY TasksAssumption DEF Tasks, Locals
<1>b. \A t \in Tasks : \A q : Goto(t, q) \/ (\E r : Call(t, q, r))
        => /\ pc'[t] = q
           /\ \A u \in Tasks : u # t => pc'[u] = pc[u]
  BY DEF TypeOK, InPlace, Goto, Call
<1>c. \A t \in Tasks : Return(t) => \A u \in Tasks : u # t => pc'[u] = pc[u]
  BY <1>b DEF Return
<1> USE <1>a, <1>b, <1>c DEF Settling
<1>1. ASSUME NEW t \in Consoles,
             ConsoleCall(t) \/ ConsoleStop(t) \/ SweepStart(t) \/ ConsoleStep(t)
      PROVE  Settling
  BY <1>1 DEF ConsoleCall, ConsoleStop, SweepStart, ConsoleStep, FlushStep,
     StudioFence, StudioTest, StudioWrite, Settle, StudioOffTest, StudioOffWrite,
     SweepFlush, SweepOff, FlushFence, FlushRaise, FlushTest, FlushFrame,
     SendFence, SendWrite, SetOwner, shared
<1>2. ASSUME NEW t \in Skills,
             SkillStart(t) \/ SkillCall(t) \/ SkillReturned(t) \/ SkillStep(t)
      PROVE  Settling
  BY <1>2 DEF SkillStart, SkillCall, SkillReturned, SkillStep, FlushStep,
     LockFence, LockTest, LockWrite, LockRefused, Settle, UnlockTest, UnlockWrite,
     FlushFence, FlushRaise, FlushTest, FlushFrame, SendFence, SendWrite, SkillEnd,
     EndTest, EndUnlock, ReleaseTest, SetOwner, shared
<1>3. ASSUME GaitStep \/ GaitMoveDone PROVE Settling
  BY <1>3 DEF GaitStep, GaitMoveDone, GaitFlush, FlushRaise, FlushTest, FlushFrame, shared
<1> QED
  BY <1>1, <1>2, <1>3 DEF LocalNext

\* An owner that is through its wait has the bus to itself, and keeps it so.
LEMMA LocalSettles ==
  ASSUME TypeOK, LocalOwnerAlone, LocalNext
  PROVE  LocalOwnerAlone'
<1> SUFFICES ASSUME owner' \in {"STUDIO", "SKILL"}, ~late',
                    \A t \in Locals : pc'[t] # "settle"
             PROVE  InFlight' = {}
  BY DEF LocalOwnerAlone
<1>1. ~late
  BY LocalFence DEF FenceKept
<1>2. owner' = owner
  BY LocalWaits DEF Settling
<1>3. InFlight = {}
  BY <1>1, <1>2, LocalWaits DEF Settling, LocalOwnerAlone, TypeOK
<1> QED
  BY <1>2, <1>3, LocalFrames

\* A run that ends gives up the bus, or finds that it does not have it.
LEMMA LocalEnds ==
  ASSUME TypeOK, LastReturn, SkillLockDies, LocalNext
  PROVE  LastReturn' /\ SkillLockDies'
<1>a. Consoles \subseteq Tasks /\ Skills \subseteq Tasks /\ Gait \in Tasks
      /\ Consoles \cap Skills = {} /\ Gait \notin Skills
  BY TasksAssumption DEF Tasks, Locals
<1> USE <1>a DEF LastReturn, SkillLockDies
<1>1. ASSUME NEW t \in Consoles,
             ConsoleCall(t) \/ ConsoleStop(t) \/ SweepStart(t) \/ ConsoleStep(t)
      PROVE  LastReturn' /\ SkillLockDies'
  BY <1>1 DEF TypeOK, InPlace, Goto, Call, Return, ConsoleCall, ConsoleStop, SweepStart, ConsoleStep, FlushStep,
     StudioFence, StudioTest, StudioWrite, Settle, StudioOffTest, StudioOffWrite,
     SweepFlush, SweepOff, FlushFence, FlushRaise, FlushTest, FlushFrame,
     SendFence, SendWrite, SetOwner, shared
<1>2. ASSUME NEW t \in Skills,
             SkillStart(t) \/ SkillCall(t) \/ SkillReturned(t) \/ SkillStep(t)
      PROVE  LastReturn' /\ SkillLockDies'
  BY <1>2 DEF TypeOK, InPlace, Goto, Call, Return, SkillStart, SkillCall, SkillReturned, SkillStep, FlushStep,
     LockFence, LockTest, LockWrite, LockRefused, Settle, UnlockTest, UnlockWrite,
     FlushFence, FlushRaise, FlushTest, FlushFrame, SendFence, SendWrite, SkillEnd,
     EndTest, EndUnlock, ReleaseTest, SetOwner, shared
<1>3. ASSUME GaitStep \/ GaitMoveDone PROVE LastReturn' /\ SkillLockDies'
  BY <1>3 DEF TypeOK, InPlace, Goto, Call, Return, GaitStep, GaitMoveDone, GaitFlush, FlushRaise, FlushTest, FlushFrame, shared
<1> QED
  BY <1>1, <1>2, <1>3 DEF LocalNext

-----------------------------------------------------------------------------
(* The inductive invariant.                                                *)

LEMMA InvInit == Init => Inv
<1> SUFFICES ASSUME Init PROVE Inv
  OBVIOUS
<1>1. TypeOK
  BY TypeInit
<1>2. Counted /\ InFlight = {}
  BY DEF Init, Counted, InFlight
<1>3. PiFlags /\ BridgeBus /\ LastReturn
  BY DEF Init, PiFlags, BridgeBus, LastReturn, Tasks, Locals
<1> QED
  BY <1>1, <1>2, <1>3 DEF Init, Inv, HostHoldsBus, HostAlone, LocalOwnerAlone,
     MasterOwnsMotion, SkillLockDies

\* A local step finds the fence up all through a session.
LEMMA InvLocal ==
  ASSUME Inv, LocalNext, TypeOK'
  PROVE  Inv'
<1>1. Counted' /\ LocalOwnerAlone' /\ LastReturn' /\ SkillLockDies'
  BY LocalCounts, LocalSettles, LocalEnds DEF Inv
<1>2. FenceKept
  BY LocalFence DEF Inv
<1>3. PiFlags' /\ BridgeBus' /\ HostHoldsBus' /\ MasterOwnsMotion'
  BY <1>2 DEF Inv, TypeOK, PiPlaces, FenceKept, PiFlags, BridgeBus, HostHoldsBus,
     MasterOwnsMotion
<1>4. HostAlone'
  <2> SUFFICES ASSUME pi' \in {"host", "he_bus"}, ~intruded', ~late'
               PROVE  InFlight' = {}
    BY DEF HostAlone
  <2>1. pi = pi' /\ ~intruded /\ ~late
    BY <1>2 DEF FenceKept
  <2>2. owner = "HOST" /\ InFlight = {}
    BY <2>1 DEF Inv, HostHoldsBus, HostAlone
  <2> QED
    BY <2>2, LocalFrames DEF Inv
<1> QED
  BY <1>1, <1>3, <1>4 DEF Inv

\* The Pi's own steps, in the order begin() and end() take them.
LEMMA InvPi ==
  ASSUME Inv, MasterStep \/ HostStep, TypeOK'
  PROVE  Inv'
<1>1. UNCHANGED <<busy, running, pc, ret>>
  BY DEF MasterStep, HostStep, MasterFence, MasterTakeBus, MasterClear, MasterSend,
     MasterEnd, MasterUnfence, HostFence, HostRaise,
     HostClear, HostTakeBus, HostWait, HostEnd,
     HostFreeBus, HostLower, HostUnfence
<1>2. InFlight' = InFlight /\ Counted' /\ LastReturn'
  BY <1>1 DEF Inv, InFlight, Counted, LastReturn
<1>3. HostWait => (late' = FALSE => InFlight = {})
  BY DEF HostWait, Inv, Counted, InFlight, TypeOK
<1> DEFINE Rest == /\ PiFlags' /\ BridgeBus' /\ HostHoldsBus' /\ HostAlone'
                   /\ LocalOwnerAlone' /\ MasterOwnsMotion' /\ SkillLockDies'
<1> USE <1>1, <1>2 DEF Inv, TypeOK, PiFlags, BridgeBus, HostHoldsBus, HostAlone,
        LocalOwnerAlone, MasterOwnsMotion, SkillLockDies, AskSkillToStop
<1>4. ASSUME MasterFence PROVE Rest
  BY <1>4 DEF MasterFence
<1>5. ASSUME MasterTakeBus PROVE Rest
  BY <1>5 DEF MasterTakeBus
<1>6. ASSUME MasterClear PROVE Rest
  BY <1>6 DEF MasterClear
<1>7. ASSUME MasterSend PROVE Rest
  BY <1>7 DEF MasterSend
<1>8. ASSUME MasterEnd PROVE Rest
  BY <1>8 DEF MasterEnd
<1>9. ASSUME MasterUnfence PROVE Rest
  BY <1>9 DEF MasterUnfence
<1>10. ASSUME HostFence PROVE Rest
  BY <1>10 DEF HostFence
<1>11. ASSUME HostRaise PROVE Rest
  BY <1>11 DEF HostRaise
<1>12. ASSUME HostClear PROVE Rest
  BY <1>12 DEF HostClear
<1>13. ASSUME HostTakeBus PROVE Rest
  BY <1>13 DEF HostTakeBus
<1>14. ASSUME HostWait PROVE Rest
  BY <1>14, <1>3 DEF HostWait
<1>15. ASSUME HostEnd PROVE Rest
  BY <1>15 DEF HostEnd
<1>16. ASSUME HostFreeBus PROVE Rest
  BY <1>16 DEF HostFreeBus
<1>17. ASSUME HostLower PROVE Rest
  BY <1>17 DEF HostLower
<1>18. ASSUME HostUnfence PROVE Rest
  BY <1>18 DEF HostUnfence
<1> QED
  BY <1>4, <1>5, <1>6, <1>7, <1>8, <1>9, <1>10, <1>11, <1>12, <1>13, <1>14, <1>15, <1>16, <1>17, <1>18
     DEF MasterStep, HostStep

LEMMA InvNext == Inv /\ [Next]_vars => Inv'
<1> SUFFICES ASSUME Inv, [Next]_vars PROVE Inv'
  OBVIOUS
<1>1. TypeOK'
  BY TypeNext DEF Inv
<1>2. CASE LocalNext
  BY <1>1, <1>2, InvLocal
<1>3. CASE MasterStep \/ HostStep
  BY <1>1, <1>3, InvPi
<1>4. CASE UNCHANGED vars
  BY <1>4 DEF vars, Inv, TypeOK, InPlace, PiFlags, Counted, BridgeBus, LastReturn,
     HostHoldsBus, HostAlone, LocalOwnerAlone, MasterOwnsMotion, SkillLockDies,
     InFlight
<1> QED
  BY <1>2, <1>3, <1>4 DEF Next, LocalNext

\* The inductive invariant holds throughout.
THEOREM Invariant == Spec => []Inv
BY InvInit, InvNext, PTL DEF Spec

\* While the Pi's policy drives the joints, s_bus_owner stays HOST, unless a
\* call that passed the fence before it went up writes late.
THEOREM HostKeepsTheBus == Spec => []HostHoldsBus
<1>1. Inv => HostHoldsBus
  BY DEF Inv
<1> QED
  BY <1>1, Invariant, PTL

\* No frame of flush() falls among the policy's.
THEOREM NoFrameUnderHost == Spec => []HostAlone
<1>1. Inv => HostAlone
  BY DEF Inv
<1> QED
  BY <1>1, Invariant, PTL

\* No frame of flush() falls among the config requests of Studio or a skill.
THEOREM NoFrameUnderLocalOwner == Spec => []LocalOwnerAlone
<1>1. Inv => LocalOwnerAlone
  BY DEF Inv
<1> QED
  BY <1>1, Invariant, PTL

\* Under the ROS bridge the bus is the gait's, and no local command runs.
THEOREM BridgeOwnsMotion == Spec => []MasterOwnsMotion
<1>1. Inv => MasterOwnsMotion
  BY DEF Inv
<1> QED
  BY <1>1, Invariant, PTL

\* The gait is never parked for a skill that has ended.
THEOREM NoOrphanLock == Spec => []SkillLockDies
<1>1. Inv => SkillLockDies
  BY DEF Inv
<1> QED
  BY <1>1, Invariant, PTL

-----------------------------------------------------------------------------
(* The Pi of this module is the one main/pi is.                            *)

\* Only the Pi's own steps touch the flags, and in PiControl's turns.
LEMMA PiTurns == Inv /\ Inv' /\ [Next]_vars => [Control!Next]_(Control!vars)
<1> SUFFICES ASSUME Inv, Inv', [Next]_vars PROVE [Control!Next]_(Control!vars)
  OBVIOUS
<1>1. CASE LocalNext \/ UNCHANGED vars
  <2>1. UNCHANGED <<master, host, pi>>
    BY <1>1, LocalFence DEF Inv, FenceKept, vars
  <2> QED
    BY <2>1 DEF Control!vars, ControlOf
<1>2. CASE MasterStep \/ HostStep
  <2> USE <1>2 DEF Inv, TypeOK, PiPlaces, PiFlags, ControlOf, Control!Next,
          Control!vars, Control!Pass, Control!Shown
  <2>1. ASSUME MasterFence PROVE Control!BridgeTakes
    BY <2>1 DEF MasterFence, Control!BridgeTakes
  <2>2. ASSUME MasterUnfence PROVE Control!BridgeLeaves
    BY <2>2 DEF MasterUnfence, Control!BridgeLeaves
  <2>3. ASSUME HostFence PROVE Control!PolicyFences
    BY <2>3 DEF HostFence, Control!PolicyFences
  <2>4. ASSUME HostRaise PROVE Control!PolicyTakes
    BY <2>4 DEF HostRaise, Control!PolicyTakes
  <2>5. ASSUME HostLower PROVE Control!PolicyGives
    BY <2>5 DEF HostLower, Control!PolicyGives
  <2>6. ASSUME HostUnfence PROVE Control!PolicyLeaves
    BY <2>6 DEF HostUnfence, Control!PolicyLeaves
  <2>7. ASSUME \/ MasterTakeBus \/ MasterClear \/ MasterSend \/ MasterEnd
               \/ HostClear \/ HostTakeBus \/ HostWait \/ HostEnd \/ HostFreeBus
        PROVE  UNCHANGED Control!vars
    BY <2>7 DEF MasterTakeBus, MasterClear, MasterSend, MasterEnd, HostClear,
       HostTakeBus, HostWait, HostEnd, HostFreeBus
  <2> QED
    BY <2>1, <2>2, <2>3, <2>4, <2>5, <2>6, <2>7 DEF MasterStep, HostStep
<1> QED
  BY <1>1, <1>2 DEF Next, LocalNext

\* begin() and end() are called as main/pi calls them: the bridge and a policy
\* in turns, with s_master and s_host saying who, whatever the local tasks do.
THEOREM PiTakesTurns == Spec => OneControlPoint
<1>1. Init => Control!Init
  BY DEF Init, Control!Init, ControlOf
<1> QED
  BY <1>1, PiTurns, Invariant, PTL DEF Spec, OneControlPoint, Control!Spec
=============================================================================
