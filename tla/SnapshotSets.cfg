SPECIFICATION FairSnapshotSpec
CONSTANTS
  g1 = g1
  g2 = g2
  Guests = {g1, g2}
  SetIds = {1, 2}
  OpIds = {1, 2, 3}
  None = None
  Deploy = Deploy
  DefaultKeep = 1
  KeepCounts = {0, 1}
  Manifests <- SomeManifests
  MaxMembers = 2
  MaxRows = 4
  MaxEdits = 1
  MaxCrashes = 1
INVARIANTS
  OwnedWhileRunning
  
  
PROPERTIES
  NativeWritesAreJournaled
  Concluded
