SPECIFICATION Spec
CONSTANTS
  Gait = gait
  Consoles = {console}
  Skills = {skill}
INVARIANTS
  HostHoldsBus
  HostAlone
  LocalOwnerAlone
  MasterOwnsMotion
  SkillLockDies
