------------------------- MODULE GaitCommandProofs -------------------------
(***************************************************************************)
(* The command word, for any set of moves and any number of callers.       *)
(***************************************************************************)
EXTENDS GaitCommand, TLAPS

Places == {"idle", "send", "joy_test", "joy_store", "joy_values", "look_store"}
Joys   == {"joy_test", "joy_store", "joy_values"}
Sticks == {"off-centre", "centred"}

\* What a caller carries from its look at the fence to its store.
ArgsKnown == \A c \in Callers : /\ pc[c] = "send" => arg[c] \in Commands
                                /\ pc[c] \in Joys => arg[c] \in Sticks

\* finish(cmd) found its own command in the word.
FinishSaw == gait = "fin_clear" /\ cmd # cur => unseen

IInv == TypeOK /\ ArgsKnown /\ FinishSaw /\ NothingInherited

\* TypeOK, apart: the words, the flags, the callers.
WordTypes ==
  /\ cmd \in Commands /\ cur \in Commands /\ last \in Commands
  /\ pi \in {"away", "clear", "ros", "unfence"}
  /\ gait \in {"top", "play", "clear", "fin_test", "fin_clear", "leave"}
  /\ pads \in {"off-centre", "centred", "stale"}
  /\ vel \in {"none", "pi", "pads", "in-place", "forward"}
  /\ startedBy \in {"pad", "button"}
FlagTypes ==
  /\ master \in BOOLEAN /\ active \in BOOLEAN /\ piVel \in BOOLEAN /\ look \in BOOLEAN
  /\ angle \in BOOLEAN /\ unseen \in BOOLEAN /\ lost \in BOOLEAN
CallTypes ==
  /\ pc \in [Callers -> Places]
  /\ arg \in [Callers -> Commands \cup Sticks]

LEMMA TypeParts == TypeOK <=> WordTypes /\ FlagTypes /\ CallTypes
  BY DEF TypeOK, WordTypes, FlagTypes, CallTypes, Places, Sticks
LEMMA TypesAfter == WordTypes' /\ FlagTypes' /\ CallTypes' => TypeOK'
  BY DEF TypeOK, WordTypes, FlagTypes, CallTypes, Places, Sticks

\* Every step leaves the flags Boolean.
LEMMA FlagsKeep == FlagTypes /\ [Next]_vars => FlagTypes'
<1>. SUFFICES ASSUME FlagTypes, [Next]_vars PROVE FlagTypes'
  OBVIOUS
<1>. USE DEF FlagTypes, GaitVars, CallVars, PiVars, Looked, Kept, ClearWord, Request
<1>1. CASE GaitStep
  <2>1. CASE Dispatch \/ HoldEnds \/ WalkTick \/ WalkLeaves \/ WalkParks
    BY <2>1, Zenon DEF Dispatch, HoldEnds, WalkTick, WalkLeaves, WalkParks
  <2>2. CASE OneShotEnds \/ OneShotBreaks \/ OneShotYields \/ OneShotClears
    BY <2>2, Zenon DEF OneShotEnds, OneShotBreaks, OneShotYields, OneShotClears
  <2>3. CASE FinisherEnds \/ FinishTest \/ FinishClears
    BY <2>3, Zenon DEF FinisherEnds, FinishTest, FinishClears
  <2>4. CASE LookTick
    BY <2>4, Zenon DEF LookTick
  <2> QED
    BY <1>1, <2>1, <2>2, <2>3, <2>4 DEF GaitStep
<1>2. ASSUME NEW c \in Callers, LocalCall(c) \/ CallerStep(c) PROVE FlagTypes'
  <2>1. CASE LocalCall(c) \/ SendStore(c) \/ LookStore(c)
    BY <2>1, Zenon DEF LocalCall, SendStore, LookStore
  <2>2. CASE JoyTest(c) \/ JoyStore(c) \/ JoyValues(c)
    BY <2>2, Zenon DEF JoyTest, JoyStore, JoyValues
  <2> QED
    BY <1>2, <2>1, <2>2 DEF CallerStep
<1>3. CASE MasterStep
  BY <1>3, Zenon DEF MasterStep, MasterFence, MasterClear, MasterSend, MasterVelocity,
     MasterEnd, MasterUnfence
<1>4. CASE LookCentre \/ PadsExpire \/ PiVelExpires
  BY <1>4, Zenon DEF LookCentre, PadsExpire, PiVelExpires
<1>5. CASE UNCHANGED vars
  BY <1>5, Zenon DEF vars
<1> QED
  BY <1>1, <1>2, <1>3, <1>4, <1>5 DEF Next

LEMMA InitIInv == Init => IInv
<1>. SUFFICES ASSUME Init PROVE IInv
  OBVIOUS
<1>1. WordTypes /\ CallTypes
  BY DEF Init, WordTypes, CallTypes, Commands, Places
<1>2. FlagTypes
  BY Zenon DEF Init, FlagTypes
<1>3. ArgsKnown /\ FinishSaw /\ NothingInherited
  BY DEF Init, ArgsKnown, FinishSaw, NothingInherited, Joys
<1>. QED
  BY <1>1, <1>2, <1>3, TypeParts DEF IInv

-----------------------------------------------------------------------------
(* The gait task: what a move leaves behind when it ends.                  *)

Own == FinishSaw /\ NothingInherited

\* Walk and Look are no other kind of move.
LEMMA Kinds == /\ Walk # Look /\ None \in Commands
               /\ Walk \notin Holds \cup OneShots \cup Finishers
               /\ Look \notin Holds \cup OneShots \cup Finishers
  BY MovesAssumption DEF Commands

LEMMA GaitKeeps == ASSUME IInv, GaitStep PROVE WordTypes' /\ CallTypes' /\ ArgsKnown' /\ Own'
<1>. USE Kinds, TypeParts DEF IInv
<1>1. UNCHANGED CallVars /\ UNCHANGED PiVars
  BY DEF GaitStep, Dispatch, HoldEnds, WalkTick, WalkLeaves, WalkParks, OneShotEnds,
     OneShotBreaks, OneShotYields, OneShotClears, FinisherEnds, LookTick, FinishTest,
     FinishClears
<1>2. CallTypes' /\ ArgsKnown'
  BY <1>1 DEF CallVars, CallTypes, ArgsKnown
<1>. DEFINE Fine == WordTypes' /\ Own'
<1>. USE <1>1 DEF CallVars, PiVars, Kept, Looked, ClearWord, WordTypes, Own, FinishSaw,
         NothingInherited, Playing
<1>3. ASSUME Dispatch PROVE Fine
  BY <1>3 DEF Dispatch
<1>4. ASSUME HoldEnds PROVE Fine
  BY <1>4 DEF HoldEnds
<1>5. ASSUME WalkTick PROVE Fine
  BY <1>5 DEF WalkTick
<1>6. ASSUME WalkLeaves PROVE Fine
  BY <1>6 DEF WalkLeaves
<1>7. ASSUME WalkParks PROVE Fine
  BY <1>7 DEF WalkParks
<1>8. ASSUME OneShotEnds \/ OneShotBreaks \/ OneShotYields PROVE Fine
  BY <1>8 DEF OneShotEnds, OneShotBreaks, OneShotYields
<1>9. ASSUME OneShotClears \/ FinishClears PROVE Fine
  BY <1>9 DEF OneShotClears, FinishClears
<1>10. ASSUME FinisherEnds PROVE Fine
  BY <1>10 DEF FinisherEnds
<1>11. ASSUME LookTick PROVE Fine
  BY <1>11 DEF LookTick
<1>12. ASSUME FinishTest PROVE Fine
  BY <1>12 DEF FinishTest
<1>. QED
  BY <1>2, <1>3, <1>4, <1>5, <1>6, <1>7, <1>8, <1>9, <1>10, <1>11, <1>12 DEF GaitStep

-----------------------------------------------------------------------------
(* The callers and the Pi.                                                 *)

\* A request lands on finish(cmd) as an unseen one.
LEMMA Lands == ASSUME IInv, NEW c, Request(c), UNCHANGED GaitVars PROVE Own'
  BY DEF IInv, Request, GaitVars, Own, FinishSaw, NothingInherited, Playing

\* A step that stores no request leaves the gait task's business alone.
LEMMA Passes == ASSUME IInv, UNCHANGED <<cmd, unseen>>, UNCHANGED GaitVars PROVE Own'
  BY DEF IInv, GaitVars, Own, FinishSaw, NothingInherited, Playing

LEMMA CallerKeeps ==
  ASSUME IInv, NEW c \in Callers, LocalCall(c) \/ CallerStep(c)
  PROVE  WordTypes' /\ CallTypes' /\ ArgsKnown' /\ Own'
<1>. USE TypeParts DEF IInv
<1>. DEFINE Typed == WordTypes' /\ CallTypes' /\ ArgsKnown'
<1>1. UNCHANGED GaitVars /\ UNCHANGED PiVars
  BY DEF LocalCall, CallerStep, SendStore, JoyTest, JoyStore, JoyValues, LookStore
<1>2. Own'
  BY <1>1, Lands, Passes DEF LocalCall, CallerStep, SendStore, JoyTest, JoyStore, JoyValues,
     LookStore
<1>. USE <1>1 DEF GaitVars, PiVars, WordTypes, CallTypes, ArgsKnown, Request, Places, Joys
<1>3. ASSUME LocalCall(c) PROVE Typed
  <2>1. PICK place \in Places, a \in Commands \cup Sticks :
          /\ Call(c, place, a)
          /\ place = "send" => a \in Commands
          /\ place \in Joys => a \in Sticks
    BY <1>3 DEF LocalCall, Sticks, Commands, Moves
  <2>2. CallTypes' /\ ArgsKnown'
    BY <2>1 DEF Call
  <2>3. WordTypes'
    BY <1>3 DEF LocalCall
  <2>. QED
    BY <2>2, <2>3
<1>4. ASSUME SendStore(c) PROVE Typed
  BY <1>4 DEF SendStore
<1>5. ASSUME JoyTest(c) PROVE Typed
  BY <1>5 DEF JoyTest
<1>6. ASSUME JoyStore(c) PROVE Typed
  BY <1>6 DEF JoyStore, Commands, Moves
<1>7. ASSUME JoyValues(c) PROVE Typed
  BY <1>7 DEF JoyValues, Sticks
<1>8. ASSUME LookStore(c) PROVE Typed
  BY <1>8 DEF LookStore, Commands, Moves
<1>. QED
  BY <1>2, <1>3, <1>4, <1>5, <1>6, <1>7, <1>8 DEF CallerStep

LEMMA PiKeeps ==
  ASSUME IInv, MasterStep \/ LookCentre \/ PadsExpire \/ PiVelExpires
  PROVE  WordTypes' /\ CallTypes' /\ ArgsKnown' /\ Own'
<1>. USE TypeParts DEF IInv
<1>1. UNCHANGED <<pc, arg, GaitVars>>
  BY DEF MasterStep, MasterFence, MasterClear, MasterSend, MasterVelocity, MasterEnd,
     MasterUnfence, LookCentre, PadsExpire, PiVelExpires, CallVars
<1>2. CallTypes' /\ ArgsKnown'
  BY <1>1 DEF CallTypes, ArgsKnown
<1>3. Own'
  BY <1>1, Lands, Passes DEF MasterStep, MasterFence, MasterClear, MasterSend, MasterVelocity,
     MasterEnd, MasterUnfence, LookCentre, PadsExpire, PiVelExpires
<1>4. WordTypes'
  <2>. USE <1>1 DEF GaitVars, WordTypes, Request, CallVars
  <2>1. CASE MasterFence \/ MasterClear \/ MasterEnd \/ MasterUnfence
    BY <2>1 DEF MasterFence, MasterClear, MasterEnd, MasterUnfence, Commands
  <2>2. CASE MasterSend \/ MasterVelocity
    BY <2>2 DEF MasterSend, MasterVelocity, PiVars, Commands, Moves
  <2>3. CASE LookCentre \/ PadsExpire \/ PiVelExpires
    BY <2>3 DEF LookCentre, PadsExpire, PiVelExpires, PiVars
  <2>. QED
    BY <2>1, <2>2, <2>3 DEF MasterStep
<1>. QED
  BY <1>2, <1>3, <1>4

LEMMA StepIInv == IInv /\ [Next]_vars => IInv'
<1>. SUFFICES ASSUME IInv, [Next]_vars PROVE IInv'
  OBVIOUS
<1>1. FlagTypes'
  BY FlagsKeep, TypeParts DEF IInv
<1>2. CASE Next
  <2>1. WordTypes' /\ CallTypes' /\ ArgsKnown' /\ Own'
    BY <1>2, GaitKeeps, CallerKeeps, PiKeeps DEF Next
  <2>. QED
    BY <1>1, <2>1, TypesAfter DEF IInv, Own
<1>3. CASE UNCHANGED vars
  BY <1>3 DEF vars, IInv, TypeOK, ArgsKnown, FinishSaw, NothingInherited, Playing
<1>. QED
  BY <1>2, <1>3

\* The invariant holds in every state of every behaviour.
THEOREM Invariance == Spec => []IInv
  BY InitIInv, StepIInv, PTL DEF Spec

\* The word only ever holds a command, and nobody stores a stick for one.
THEOREM CommandTypes == Spec => []TypeOK
  BY Invariance, PTL DEF IInv

\* However a look or a walk was interrupted, the next move starts from the stand.
THEOREM NothingIsInherited == Spec => []NothingInherited
  BY Invariance, PTL DEF IInv

\* finish(cmd) never clears a command that was there when it looked.
THEOREM FinishersAreCareful == Spec => FinishersKeep
<1>1. IInv /\ [Next]_vars => [gait = "fin_clear" /\ gait' # gait /\ cmd # cur => unseen]_vars
  BY DEF IInv, FinishSaw
<1>. QED
  BY <1>1, Invariance, PTL DEF Spec, FinishersKeep
=============================================================================
