SPECIFICATION FairSpec
CONSTANTS
  Boards = {b1}
  Flushers = {gait, lua}
  Gait = gait
  ReadPasses = 2
INVARIANTS
  TypeOK
PROPERTIES
  GlidesFirst
  MotionWakes
  RequestsHeard
