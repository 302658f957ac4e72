SPECIFICATION FairSpec
CONSTANTS
  Att = {a1}
  a1 = a1
  Recovery = Recovery
  Null = Null
  MaxEvents = 1
  MaxLines = 0
PROPERTIES
  EndIsEmitted
CHECK_DEADLOCK FALSE
