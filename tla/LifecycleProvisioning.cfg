\* Two workspaces, each able to run full attempts: they compete for the
\* provisioning lock, across crashes that leave only the runner's descriptor.
SPECIFICATION Spec
CONSTANTS
  Dep = {d1, d2}
  Att = {a1, a2}
  Null = Null
  Scopes = {"full"}
SYMMETRY Symmetry
INVARIANTS
  WorkspaceExclusion
  ProvisioningExclusion
CHECK_DEADLOCK FALSE
