SPECIFICATION Spec
CONSTANTS
  Att = {a1, a2}
  a1 = a1
  a2 = a2
  Inodes = {i1, i2}
  i1 = i1
  i2 = i2
  Null = Null
PROPERTIES
  RemovedByOwner
CHECK_DEADLOCK FALSE
