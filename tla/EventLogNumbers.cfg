SPECIFICATION Spec
CONSTANTS
  Att = {a1, a2}
  a1 = a1
  a2 = a2
  Recovery = Recovery
  Null = Null
  MaxEvents = 1
  MaxLines = 0
INVARIANTS
  MonotonicSeq
CHECK_DEADLOCK FALSE
