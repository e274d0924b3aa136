SPECIFICATION FairSpec
CONSTANTS
  Httpd = httpd
  Others = {worker}
  Skills = {skill}
  Ids = {i1, i2}
  None = None
PROPERTIES
  WatchdogIsFair
