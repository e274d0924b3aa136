--------------------------- MODULE MotionHandover ---------------------------
(***************************************************************************)
(* MotionCore under the assumptions its comments make about time, and what *)
(* it then achieves: an exclusive bus, and handovers that end.             *)
(***************************************************************************)
EXTENDS MotionCore

\* Between the test and the write of an entry point.
MidCall == {"on_test", "on_write", "off_write", "lk_test", "lk_write",
            "ul_write", "sg_write"}

\* A local task between a test and its write, a matter of instructions, gets
\* there before the Pi's next store; 50 ms and 100 ticks outlast a flush.
Timely == /\ pi' # pi => \A t \in Locals : pc[t] \notin MidCall
          /\ ~late'

\* Every task runs (FreeRTOS time-slices equal priorities, and each of these
\* blocks or delays in its loop).  A skill asked to stop returns, and so does
\* its on_stop(): delays and the tick loop end, and the watchdog terminates the
\* rest; its 50 ms end by the clock, however often a frame passes meanwhile
\* (hence strong fairness).  Nobody owes the robot a new call, a new session,
\* or its end.
Fairness ==
  /\ \A t \in Consoles : WF_vars(ConsoleStep(t) /\ Timely)
  /\ \A t \in Skills   : SF_vars(SkillStep(t) /\ Timely)
  /\ \A t \in Skills   : SF_vars((SkillReturned(t) \/ SkillEnd(t)) /\ stop /\ Timely)
  /\ WF_vars(GaitStep /\ Timely)
  /\ WF_vars((MasterTakeBus \/ MasterClear \/ MasterUnfence) /\ Timely)
  /\ WF_vars((HostRaise \/ HostClear \/ HostTakeBus \/ HostWait
              \/ HostFreeBus \/ HostLower \/ HostUnfence) /\ Timely)

TimelySpec == Init /\ [][Next /\ Timely]_vars /\ Fairness

-----------------------------------------------------------------------------
(* Refinement.  A new holder's grant begins when its wait is over.         *)

Grant == IF owner = "HOST" /\ pi \in {"host", "he_bus"} THEN "host"
         ELSE IF owner \in {"STUDIO", "SKILL"}
                 /\ \A t \in Locals : pc[t] # "settle" THEN "local"
         ELSE "gait"

Abstract == INSTANCE ExclusiveBus WITH Writers <- Tasks,
                                       grant   <- Grant,
                                       writing <- InFlight

\* The two words, the count and the fixed waits implement an exclusive bus.
BusIsExclusive == Abstract!Spec

\* host::begin() always gets there, with the bus held and no frame of a flush
\* on its way, whatever Studio, the gait and the skill are doing.
HostArrives == pi = "hb_host" ~> pi = "host" /\ owner = "HOST" /\ InFlight = {}

\* A skill that is asked to stop, by the Pi or by a client, ends and leaves the
\* bus: the gains it cannot put back do not keep its run open.
StoppedSkillLeaves ==
  stop /\ running # {} ~> owner # "SKILL" /\ \A t \in Skills : pc[t] = "off"
=============================================================================
