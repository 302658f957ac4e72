\* One workspace; the statement of the teardown check.
SPECIFICATION Spec
CONSTANTS
  Dep = {d1}
  Att = {a1, a2}
  Null = Null
  Scopes = {"configure", "teardown"}
PROPERTY TeardownNeedsKnownState
CHECK_DEADLOCK FALSE
