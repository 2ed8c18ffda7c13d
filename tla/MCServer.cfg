SPECIFICATION Spec
CONSTANTS
  c1 = c1
  c2 = c2
  Conns = {c1, c2}
  NoConn = NoConn
  Settings <- MCSettings
  MaxAccepts = 2
  SeqMod = 3
  Extras = {}
INVARIANTS TypeOK InSequence NotDeaf CloseLeavesNothing
CHECK_DEADLOCK FALSE
PROPERTIES ClientIsAnswered GoneClientIsClosed CloseComesBack
