SPECIFICATION FairSpec
CONSTANTS
  Boards = {b1}
  Servos = {s1}
  Ops = {get, set}
  Params = {kp, range}
  CfgTries = 2
  CfgFailsToMute = 2
INVARIANTS
  TypeOK
  RawIsFeedback
  AnswerIsOurs
PROPERTIES
  HoldIsNoTorque
  MutedHeals
