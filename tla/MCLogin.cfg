SPECIFICATION Spec
CONSTANTS
  Settings <- MCSettings
  MaxDials = 2
  MaxSwitches = 2
  Extras = {}
INVARIANTS TypeOK PasswordKept NoUnjustRefusal ReadsNewest Agreed
CHECK_DEADLOCK FALSE
PROPERTIES LoginEnds
