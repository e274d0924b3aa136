SPECIFICATION FairSpec
CONSTANTS
  Holds = {twerk}
  OneShots = {roll}
  Finishers = {jump}
  Walk = walk
  Look = look_pad
  None = none
  Callers = {httpd}
INVARIANTS
  NothingInherited
PROPERTIES
  FinishersKeep
  LastIsServed
  StopStops
  SilentPiSteps
