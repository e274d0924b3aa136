SPECIFICATION FairSpec
CONSTANTS
  Callers = {httpd}
  Direct = {}
INVARIANTS
  StopSticks
  NothingLeft
  GainsReturn
PROPERTIES
  RunsEnd
