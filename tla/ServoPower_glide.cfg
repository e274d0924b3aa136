SPECIFICATION Spec
CONSTANTS
  Boards = {b1}
  Flushers = {gait, lua}
  Gait = gait
  ReadPasses = 2
INVARIANTS
  GlideFromLegs
