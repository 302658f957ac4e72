\* One workspace, two attempts in turn: late callbacks of the first one meet
\* the second; teardown requests check a deployment that recovery changes.
SPECIFICATION Spec
CONSTANTS
  Dep = {d1}
  Att = {a1, a2}
  Null = Null
  Scopes = {"runtime", "teardown"}
SYMMETRY Symmetry
INVARIANTS
  TypeOK
  LockOwnership
  SecretsUnderLock
  DeploymentMirrorsAttempt
  OnlyCurrentIsActive
  CancellationWins
  CancellationReachesRunner
  OutcomeIsObserved
PROPERTIES
  TerminalIsFinal
  ImplementsJobs
CHECK_DEADLOCK FALSE
