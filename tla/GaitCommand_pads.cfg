SPECIFICATION Spec
CONSTANTS
  Holds = {twerk}
  OneShots = {roll}
  Finishers = {jump}
  Walk = walk
  Look = look_pad
  None = none
  Callers = {httpd}
PROPERTIES
  InPlaceMeansPads
