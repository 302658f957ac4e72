SPECIFICATION Spec
CONSTANTS
  Att = {a1, a2}
  a1 = a1
  a2 = a2
  Recovery = Recovery
  Null = Null
  MaxEvents = 1
  MaxLines = 3
SYMMETRY Symmetry
INVARIANTS
  
  EndIsLast
  StreamIsPrefix
CHECK_DEADLOCK FALSE
