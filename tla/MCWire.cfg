SPECIFICATION Spec
CONSTANTS
  MaxPacket = 3
  IdMod = 4
  Lengths = {0, 1, 2, 3, 4, 6, 7}
  Fields <- MCFields
  Values <- MCValues
  MaxPayloads = 3
  MaxFields = 7
  MaxValues = 4
  MaxColumns = 9
  Extras = {}
INVARIANTS FramesAgree RowsAgree ParametersAgree BinlogRowsAgree
CHECK_DEADLOCK FALSE
