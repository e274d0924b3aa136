SPECIFICATION FairSpec
CONSTANTS
  PinLowSamples = 2
INVARIANTS
  OneHolder
  SessionHasRobot
  ArmedIsOurs
PROPERTIES
  OneControlPoint
  HoldReturnsOnlyAtEnd
  PolicySilenceDisarms
  RobotComesBack
  FrameGetsSession
  BridgeArrives
