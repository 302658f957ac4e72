\* One workspace, one attempt, full provisioning: crashes, shutdowns,
\* failures and cancellations at any point and as often as they like.
SPECIFICATION FairSpec
CONSTANTS
  Dep = {d1}
  Att = {a1}
  Null = Null
  Scopes = {"full"}
PROPERTIES
  AttemptsEnd
  LocksAreReleased
CHECK_DEADLOCK FALSE
