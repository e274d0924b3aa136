-------------------------- MODULE PiSessionsProofs --------------------------
(***************************************************************************)
(* The bridge and the policy never both hold the robot, a session is never *)
(* without it, and nothing is armed outside one: for any length of the     *)
(* debounce of HOST_PRESENT.  The invariant adds to the three what each    *)
(* task may still rely on of what it read earlier: s_want while a session  *)
(* begins, and its absence between session_active()'s two reads.           *)
(***************************************************************************)
EXTENDS PiSessions, TLAPS

\* What the link task knows at each place of update_state(): at us_session,
\* s_want is still false, since only this task sets it.
LinkInv ==
  /\ lp = "us_want" => state # "slave"
  /\ lp = "us_session" => state # "slave" /\ ~want
  /\ lp = "us_begin" => state = "slave"
  /\ lp = "us_end" => state # "slave"

\* What the tick task knows: only end_session() clears s_want, so the frame
\* that begins a session is still remembered when it has begun.
TickInv ==
  /\ tp \in BeginPlaces => want /\ ~session
  /\ tp \notin BeginPlaces \cup {"wait"} => session
  /\ session /\ tp \in LivePlaces => want
  /\ tp # "bg_refused"

\* s_robot and s_host follow the session; s_ready is the second answer.
FlagsInv ==
  /\ robot <=> session
  /\ host <=> tp = "bg_ok" \/ (session /\ tp \notin {"en_fence", "en_done"})
  /\ ready => session /\ tp \in LivePlaces
  /\ session /\ tp \in LivePlaces => (ready <=> syncs = 2)

\* An armed session has heard from the boards and dropped the initial hold.
ArmInv == armed => ready /\ ~hold

Own == OneHolder /\ LinkInv /\ TickInv /\ FlagsInv /\ ArmInv

IInv == TypeOK /\ Own

\* TypeOK, apart: the flags are Zenon's, the rest is the SMT solver's.
Flags ==
  /\ master \in BOOLEAN /\ host \in BOOLEAN /\ want \in BOOLEAN
  /\ session \in BOOLEAN /\ robot \in BOOLEAN /\ ready \in BOOLEAN
  /\ armed \in BOOLEAN /\ hold \in BOOLEAN /\ fault \in BOOLEAN
  /\ quiet \in BOOLEAN /\ silent \in BOOLEAN /\ driven \in BOOLEAN

Modes ==
  /\ state \in {"standalone", "monitor", "slave"}
  /\ hb \in {"stale", "idle", "want"}
  /\ low \in 0..PinLowSamples
  /\ lp \in {"ros", "rl", "exec", "arm_wait", "apply", "wait", "update",
             "us_want", "us_session", "us_begin", "us_end"}
  /\ req \in Requests \cup SetAlls
  /\ syncs \in 0..2
  /\ tp \in BeginPlaces \cup LivePlaces \cup EndPlaces

\* The two parts are TypeOK.
LEMMA TypeParts == TypeOK <=> Modes /\ Flags
  BY DEF TypeOK, Modes, Flags

\* The initial state satisfies the invariant.
LEMMA InitIInv == Init => IInv
<1>. SUFFICES ASSUME Init PROVE IInv
  OBVIOUS
<1>1. Flags
  BY Zenon DEF Init, Flags
<1>2. Modes
  BY PinAssumption
  DEF Init, Modes, Requests, SetAlls, BeginPlaces, LivePlaces, EndPlaces
<1>3. Own
  BY DEF Init, Own, OneHolder, BridgeHolds, PolicyHolds, LinkInv, TickInv,
         FlagsInv, ArmInv, BeginPlaces, LivePlaces, EndPlaces
<1>. QED
  BY <1>1, <1>2, <1>3, TypeParts DEF IInv

\* A flag is only ever given a truth value.
LEMMA FlagsKeep == Flags /\ [Next]_vars => Flags'
<1>. SUFFICES ASSUME Flags, [Next]_vars PROVE Flags'
  OBVIOUS
<1>. USE DEF Flags, linkVars, ctlVars, tickVars
<1>1. CASE RosBytes
  BY <1>1, Zenon DEF RosBytes
<1>2. CASE NoRlFrame
  BY <1>2, Zenon DEF NoRlFrame
<1>3. CASE RlFrame
  BY <1>3, Zenon DEF RlFrame
<1>4. CASE ExecRequest
  BY <1>4, Zenon DEF ExecRequest
<1>5. CASE WaitRobot
  BY <1>5, Zenon DEF WaitRobot
<1>6. CASE HandleSetAll
  BY <1>6, Zenon DEF HandleSetAll
<1>7. CASE Apply
  BY <1>7, Zenon DEF Apply
<1>8. CASE Update
  BY <1>8, Zenon DEF Update, UpdateTo
<1>9. CASE ReadWant
  BY <1>9, Zenon DEF ReadWant
<1>10. CASE ReadSession
  BY <1>10, Zenon DEF ReadSession
<1>11. CASE EnterSlave
  BY <1>11, Zenon DEF EnterSlave
<1>12. CASE ExitSlave
  BY <1>12, Zenon DEF ExitSlave
<1>13. CASE TickWants
  BY <1>13, Zenon DEF TickWants
<1>14. CASE BeginTest
  BY <1>14, Zenon DEF BeginTest
<1>15. CASE BeginFence
  BY <1>15, Zenon DEF BeginFence
<1>16. CASE BeginRaise
  BY <1>16, Zenon DEF BeginRaise
<1>17. CASE BeginDone
  BY <1>17, Zenon DEF BeginDone
<1>18. CASE EndDecide
  BY <1>18, Zenon DEF EndDecide, EndWith
<1>19. CASE EndHost
  BY <1>19, Zenon DEF EndHost
<1>20. CASE EndFence
  BY <1>20, Zenon DEF EndFence
<1>21. CASE EndDone
  BY <1>21, Zenon DEF EndDone
<1>22. CASE TickSnapshot
  BY <1>22, Zenon DEF TickSnapshot, SnapshotIf
<1>23. CASE Sync
  BY <1>23, Zenon DEF Sync
<1>24. CASE Guard
  BY <1>24, Zenon DEF Guard
<1>25. CASE HbExpires
  BY <1>25, Zenon DEF HbExpires
<1>26. CASE FramesStop
  BY <1>26, Zenon DEF FramesStop
<1>27. CASE SetAllsStop
  BY <1>27, Zenon DEF SetAllsStop
<1>28. CASE UNCHANGED vars
  BY <1>28, Zenon DEF vars
<1>. QED
  BY <1>1, <1>2, <1>3, <1>4, <1>5, <1>6, <1>7, <1>8, <1>9, <1>10, <1>11,
     <1>12, <1>13, <1>14, <1>15, <1>16, <1>17, <1>18, <1>19, <1>20,
     <1>21, <1>22, <1>23, <1>24, <1>25, <1>26, <1>27, <1>28
  DEF Next, LinkStep, TickStep

\* Modes and counters stay in range: syncs because s_ready stops the count.
LEMMA ModesKeep == IInv /\ [Next]_vars => Modes'
<1>. SUFFICES ASSUME IInv, [Next]_vars PROVE Modes'
  OBVIOUS
<1>. USE PinAssumption
     DEF IInv, TypeOK, Modes, Requests, Arms, Disarms, Clears, SetAlls,
         BeginPlaces, LivePlaces, EndPlaces, linkVars, ctlVars, tickVars,
         LinkAt, TickAt
<1>1. CASE LinkStep
  BY <1>1
  DEF LinkStep, RosBytes, NoRlFrame, RlFrame, ExecRequest, WaitRobot,
      HandleSetAll, Apply, Update, UpdateTo, ReadWant, ReadSession,
      EnterSlave, ExitSlave
<1>2. CASE Sync
  BY <1>2 DEF Sync, Own, TickInv, FlagsInv
<1>3. CASE TickStep /\ ~Sync
  <2>1. CASE TickWants
    BY <2>1 DEF TickWants
  <2>2. CASE BeginTest
    BY <2>2 DEF BeginTest
  <2>3. CASE BeginFence
    BY <2>3 DEF BeginFence
  <2>4. CASE BeginRaise
    BY <2>4 DEF BeginRaise
  <2>5. CASE BeginDone
    BY <2>5 DEF BeginDone
  <2>6. CASE EndDecide
    BY <2>6 DEF EndDecide, EndWith
  <2>7. CASE EndHost
    BY <2>7 DEF EndHost
  <2>8. CASE EndFence
    BY <2>8 DEF EndFence
  <2>9. CASE EndDone
    BY <2>9 DEF EndDone
  <2>10. CASE TickSnapshot
    BY <2>10 DEF TickSnapshot, SnapshotIf
  <2>11. CASE Guard
    BY <2>11 DEF Guard
  <2>. QED
    BY <1>3, <2>1, <2>2, <2>3, <2>4, <2>5, <2>6, <2>7, <2>8,
       <2>9, <2>10, <2>11
    DEF TickStep
<1>4. CASE HbExpires \/ FramesStop \/ SetAllsStop \/ UNCHANGED vars
  BY <1>4 DEF HbExpires, FramesStop, SetAllsStop, vars
<1>. QED
  BY <1>1, <1>2, <1>3, <1>4 DEF Next

\* The link task's steps keep who owns what.
LEMMA LinkKeeps == IInv /\ Flags' /\ Modes' /\ LinkStep => Own'
<1>. SUFFICES ASSUME IInv, Flags', Modes', LinkStep PROVE Own'
  OBVIOUS
<1>. USE DEF IInv, TypeOK, Flags, Own, OneHolder, BridgeHolds, PolicyHolds,
        LinkInv, TickInv, FlagsInv, ArmInv, BeginPlaces, LivePlaces, EndPlaces,
        ctlVars, tickVars
<1>1. CASE RosBytes
  BY <1>1 DEF RosBytes, LinkAt
<1>2. CASE NoRlFrame
  BY <1>2 DEF NoRlFrame, LinkAt
<1>3. CASE RlFrame
  BY <1>3 DEF RlFrame, LinkAt, RosHolds
<1>4. CASE ExecRequest
  BY <1>4 DEF ExecRequest, LinkAt
<1>5. CASE WaitRobot
  BY <1>5 DEF WaitRobot, LinkAt
<1>6. CASE HandleSetAll
  BY <1>6 DEF HandleSetAll
<1>7. CASE Apply
  BY <1>7 DEF Apply, LinkAt
<1>8. CASE Update
  BY <1>8 DEF Update, UpdateTo, WantsSlave, PinOk
<1>9. CASE ReadWant
  BY <1>9 DEF ReadWant
<1>10. CASE ReadSession
  BY <1>10 DEF ReadSession
<1>11. CASE EnterSlave
  BY <1>11 DEF EnterSlave, LinkAt
<1>12. CASE ExitSlave
  BY <1>12 DEF ExitSlave, LinkAt
<1>. QED
  BY <1>1, <1>2, <1>3, <1>4, <1>5, <1>6, <1>7, <1>8, <1>9, <1>10, <1>11,
     <1>12 DEF LinkStep

\* So do the tick task's.
LEMMA TickKeeps == IInv /\ Flags' /\ Modes' /\ TickStep => Own'
<1>. SUFFICES ASSUME IInv, Flags', Modes', TickStep PROVE Own'
  OBVIOUS
<1>. USE DEF IInv, TypeOK, Flags, Own, OneHolder, BridgeHolds, PolicyHolds,
        LinkInv, TickInv, FlagsInv, ArmInv, BeginPlaces, LivePlaces, EndPlaces,
        linkVars, ctlVars
<1>1. CASE TickWants
  BY <1>1 DEF TickWants, TickAt
<1>2. CASE BeginTest
  BY <1>2 DEF BeginTest
<1>3. CASE BeginFence
  BY <1>3 DEF BeginFence, TickAt
<1>4. CASE BeginRaise
  BY <1>4 DEF BeginRaise, TickAt
<1>5. CASE BeginDone
  BY <1>5 DEF BeginDone
<1>6. CASE EndDecide
  BY <1>6 DEF EndDecide, EndWith
<1>7. CASE EndHost
  BY <1>7 DEF EndHost, TickAt
<1>8. CASE EndFence
  BY <1>8 DEF EndFence, TickAt
<1>9. CASE EndDone
  BY <1>9 DEF EndDone, TickAt
<1>10. CASE TickSnapshot
  BY <1>10 DEF TickSnapshot, SnapshotIf, TickAt
<1>11. CASE Sync
  BY <1>11 DEF Sync, TickAt
<1>12. CASE Guard
  BY <1>12 DEF Guard, TickAt
<1>. QED
  BY <1>1, <1>2, <1>3, <1>4, <1>5, <1>6, <1>7, <1>8, <1>9, <1>10, <1>11,
     <1>12 DEF TickStep

\* The invariant is inductive.
LEMMA NextKeeps == IInv /\ [Next]_vars => IInv'
<1>. SUFFICES ASSUME IInv, [Next]_vars PROVE IInv'
  OBVIOUS
<1>1. Flags' /\ Modes'
  BY FlagsKeep, ModesKeep, TypeParts DEF IInv
<1>2. Own'
  <2>1. CASE LinkStep
    BY <1>1, <2>1, LinkKeeps
  <2>2. CASE TickStep
    BY <1>1, <2>2, TickKeeps
  <2>3. CASE HbExpires \/ FramesStop \/ SetAllsStop \/ UNCHANGED vars
    <3>. USE DEF IInv, Own, OneHolder, BridgeHolds, PolicyHolds, LinkInv,
             TickInv, FlagsInv, ArmInv, vars, linkVars, ctlVars, tickVars
    <3>1. CASE HbExpires
      BY <3>1 DEF HbExpires
    <3>2. CASE FramesStop
      BY <3>2 DEF FramesStop
    <3>3. CASE SetAllsStop
      BY <3>3 DEF SetAllsStop
    <3>4. CASE UNCHANGED vars
      BY <3>4
    <3>. QED
      BY <2>3, <3>1, <3>2, <3>3, <3>4
  <2>. QED
    BY <2>1, <2>2, <2>3 DEF Next
<1>3. TypeOK'
  BY <1>1 DEF TypeOK, Modes, Flags
<1>. QED
  BY <1>2, <1>3 DEF IInv

\* Every reachable state satisfies it.
THEOREM Invariant == Spec => []IInv
  BY InitIInv, NextKeeps, PTL DEF Spec

\* Every variable keeps its type, and each task is at a place of its own code.
THEOREM TypeCorrect == Spec => []TypeOK
<1>1. IInv => TypeOK
  BY DEF IInv
<1>. QED
  BY <1>1, Invariant, PTL

\* The bridge and a policy never hold the robot at once, and the fence is up
\* exactly while one does (pi_link.cc's and rl_link.cc's tests of each other).
THEOREM NeverBoth == Spec => []OneHolder
<1>1. IInv => OneHolder
  BY DEF IInv, Own
<1>. QED
  BY <1>1, Invariant, PTL

\* begin_session() always gets the robot: its other branch is dead code.
THEOREM BeginIsNeverRefused == Spec => []SessionHasRobot
<1>1. IInv => SessionHasRobot
  BY DEF IInv, Own, FlagsInv, SessionHasRobot
<1>. QED
  BY <1>1, Invariant, PTL

\* Nothing is armed before the boards answered, while a session ends, or in
\* between (handle_set_all() against end_session()).
THEOREM ArmedOnlyInSession == Spec => []ArmedIsOurs
<1>1. IInv => ArmedIsOurs
  BY DEF IInv, TypeOK, Own, ArmInv, FlagsInv, ArmedIsOurs, LivePlaces
<1>. QED
  BY <1>1, Invariant, PTL

\* The servos are held only from a session's start to the first frame that ends
\* the hold: no step but the one under end_session()'s lock brings it back.
THEOREM HoldEndsForGood == Spec => HoldReturnsOnlyAtEnd
<1>1. TypeOK /\ [Next]_vars
      => [~hold /\ hold' => tp = "wait" /\ tp' \in EndPlaces]_vars
  BY DEF TypeOK, Next, vars, linkVars, ctlVars, tickVars, LinkStep, TickStep,
         EndPlaces, LinkAt, TickAt, RosBytes, NoRlFrame, RlFrame, ExecRequest,
         WaitRobot, HandleSetAll, Apply, Update, UpdateTo, ReadWant,
         ReadSession,
         EnterSlave, ExitSlave, TickWants, BeginTest, BeginFence, BeginRaise,
         BeginDone, EndDecide, EndWith, EndHost, EndFence, EndDone,
         TickSnapshot, SnapshotIf, Sync, Guard, HbExpires, FramesStop, SetAllsStop
<1>. QED
  BY <1>1, TypeCorrect, PTL DEF Spec, HoldReturnsOnlyAtEnd

-----------------------------------------------------------------------------
(* The bridge and the policy take turns: PiSessions implements PiControl.  *)

\* One step of PiControl, or none, in terms of who has the robot.
Turn ==
  \/ UNCHANGED <<master, host, ControlOf>>
  \/ /\ master' = (ControlOf' # "nobody") /\ host' = (ControlOf' = "policy")
     /\ <<ControlOf, ControlOf'>> \in
          {<<"nobody", "bridge">>, <<"bridge", "nobody">>,
           <<"nobody", "coming">>, <<"coming", "policy">>,
           <<"policy", "going">>, <<"going", "nobody">>}

LEMMA TurnIsAStep == Turn => [Control!Next]_(Control!vars)
BY DEF Turn, Control!Next, Control!vars, Control!Pass, Control!Shown,
   Control!BridgeTakes, Control!BridgeLeaves, Control!PolicyFences,
   Control!PolicyTakes, Control!PolicyGives, Control!PolicyLeaves

\* The bridge's two stores come when nobody has the robot, and when it has it;
\* a heartbeat, a request or a state between them changes no hands.
LEMMA LinkTurns == IInv /\ IInv' /\ LinkStep => Turn
<1>. SUFFICES ASSUME IInv, IInv', LinkStep PROVE Turn
  OBVIOUS
<1>. USE DEF IInv, TypeOK, Own, OneHolder, BridgeHolds, PolicyHolds, LinkInv,
         TickInv, FlagsInv, BeginPlaces, LivePlaces, EndPlaces, Turn, ControlOf,
         ctlVars, tickVars, LinkAt
<1>1. CASE RosBytes
  BY <1>1 DEF RosBytes
<1>2. CASE NoRlFrame
  BY <1>2 DEF NoRlFrame
<1>3. CASE RlFrame
  BY <1>3 DEF RlFrame
<1>4. CASE ExecRequest
  BY <1>4 DEF ExecRequest
<1>5. CASE WaitRobot
  BY <1>5 DEF WaitRobot
<1>6. CASE HandleSetAll
  BY <1>6 DEF HandleSetAll
<1>7. CASE Apply
  BY <1>7 DEF Apply
<1>8. CASE Update
  BY <1>8 DEF Update, UpdateTo, WantsSlave, PinOk
<1>9. CASE ReadWant
  BY <1>9 DEF ReadWant
<1>10. CASE ReadSession
  BY <1>10 DEF ReadSession
<1>11. CASE EnterSlave
  BY <1>11 DEF EnterSlave
<1>12. CASE ExitSlave
  BY <1>12 DEF ExitSlave
<1>. QED
  BY <1>1, <1>2, <1>3, <1>4, <1>5, <1>6, <1>7, <1>8, <1>9, <1>10, <1>11,
     <1>12 DEF LinkStep

\* A session's four stores move it along; everything else a tick does, and
\* begin()'s test of the other's flag, happens inside one turn.
LEMMA TickTurns == IInv /\ IInv' /\ TickStep => Turn
<1>. SUFFICES ASSUME IInv, IInv', TickStep PROVE Turn
  OBVIOUS
<1>. USE DEF IInv, TypeOK, Own, OneHolder, BridgeHolds, PolicyHolds, LinkInv,
         TickInv, FlagsInv, BeginPlaces, LivePlaces, EndPlaces, Turn, ControlOf,
         linkVars, ctlVars, TickAt
<1>1. CASE TickWants
  BY <1>1 DEF TickWants
<1>2. CASE BeginTest
  BY <1>2 DEF BeginTest
<1>3. CASE BeginFence
  BY <1>3 DEF BeginFence
<1>4. CASE BeginRaise
  BY <1>4 DEF BeginRaise
<1>5. CASE BeginDone
  BY <1>5 DEF BeginDone
<1>6. CASE EndDecide
  BY <1>6 DEF EndDecide, EndWith
<1>7. CASE EndHost
  BY <1>7 DEF EndHost
<1>8. CASE EndFence
  BY <1>8 DEF EndFence
<1>9. CASE EndDone
  BY <1>9 DEF EndDone
<1>10. CASE TickSnapshot
  BY <1>10 DEF TickSnapshot, SnapshotIf
<1>11. CASE Sync
  BY <1>11 DEF Sync
<1>12. CASE Guard
  BY <1>12 DEF Guard
<1>. QED
  BY <1>1, <1>2, <1>3, <1>4, <1>5, <1>6, <1>7, <1>8, <1>9, <1>10, <1>11,
     <1>12 DEF TickStep

LEMMA NextTurns == IInv /\ IInv' /\ [Next]_vars => [Control!Next]_(Control!vars)
<1>. SUFFICES ASSUME IInv, IInv', [Next]_vars PROVE Turn
  BY TurnIsAStep
<1>1. CASE LinkStep
  BY <1>1, LinkTurns
<1>2. CASE TickStep
  BY <1>2, TickTurns
<1>3. CASE HbExpires \/ FramesStop \/ SetAllsStop \/ UNCHANGED vars
  BY <1>3 DEF HbExpires, FramesStop, SetAllsStop, vars, linkVars, ctlVars,
     tickVars, Turn, ControlOf, BridgeHolds
<1>. QED
  BY <1>1, <1>2, <1>3 DEF Next

\* robot::master's and robot::host's callers are one control point: at every
\* moment nobody, the bridge or the policy has the robot, the two flags say
\* which, and it changes hands only by way of nobody (robot.h, "Raw host").
THEOREM OneAtATime == Spec => OneControlPoint
<1>1. Init => Control!Init
  BY DEF Init, Control!Init, ControlOf
<1>2. IInv /\ IInv' /\ [Next]_vars => [Control!Next]_(Control!vars)
  BY NextTurns
<1>. QED
  BY <1>1, <1>2, Invariant, PTL DEF Spec, OneControlPoint, Control!Spec

=============================================================================
