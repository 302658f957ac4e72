\* One workspace, one attempt; the statement of the cleanup function.
SPECIFICATION Spec
CONSTANTS
  Dep = {d1}
  Att = {a1}
  Null = Null
  Scopes = {"full"}
PROPERTY CleanupAfterRunnerExit
CHECK_DEADLOCK FALSE
