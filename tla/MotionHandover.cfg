SPECIFICATION TimelySpec
CONSTANTS
  Gait = gait
  Consoles = {console}
  Skills = {skill}
PROPERTIES
  BusIsExclusive
  HostArrives
  StoppedSkillLeaves
